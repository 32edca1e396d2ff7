------------------------------- MODULE ImcLink -------------------------------
(***************************************************************************)
(* Connections between muds: who connects, the password handshake, loss,   *)
(* timeouts and reconnection (src/src/imc.c, imc-events.c, imc-util.c).    *)
(*                                                                         *)
(* A socket has a client end, at the mud that called imc_connect_to, and a *)
(* server end, at the mud that accepts it; each end is an imc_connect.  An *)
(* end knows its imc_info from the start (client) or from the password on  *)
(* (server).  One imc_idle_select serves several connections; here every   *)
(* connection it serves is a step of its own.  Time is left out: an event  *)
(* in the event list may fire whenever the budget allows it.               *)
(***************************************************************************)
EXTENDS Naturals, FiniteSets

CONSTANTS
  Muds,
  Sockets,       \* bound: how many sockets exist at once
  Settings,      \* the flags every mud may have in its entry for every other one
  Trusted,       \* <<m, n>>: m's passwords for n are those that n uses
  MaxPending,    \* bound: reconnect events for one entry
  MaxTrouble     \* bound: refused and lost connections, timeouts, commands, restarts

Flags == {"NOAUTO", "CLIENT", "RECONNECT", "DENY"}

ASSUME LinkAssumption ==
  /\ Settings \subseteq [Muds \X Muds -> SUBSET Flags]
  /\ Trusted \subseteq Muds \X Muds
  /\ IsFiniteSet(Sockets) /\ "none" \notin Muds \cup Sockets
  /\ MaxPending \in Nat \ {0} /\ MaxTrouble \in Nat

None == "none"
Roles == {"client", "server"}
Peer(role) == IF role = "client" THEN "server" ELSE "client"
Ends == Sockets \X Roles
NoEnd == <<None, "client">>

VARIABLES
  flags,         \* imc_info->flags, which do not change
  active,        \* muds whose network is up (imc_active >= IA_UP)
  known,         \* imc_info_list: <<m, n>> when m has an entry for n
  line,          \* per socket: who connected to whom, and whether the line is cut
  state,         \* imc_connect->state of every end, or "free", "backlog", "gone"
  info,          \* imc_connect->info of every end
  unread,        \* ends that have a password line to read
  connection,    \* imc_info->connection
  login,         \* ends with an ev_login_timeout pending
  reconnect,     \* how many ev_reconnect are pending for an entry
  missed,        \* history: entries whose connect at startup failed at once
  trouble        \* the count that MaxTrouble bounds

vars == <<flags, active, known, line, state, info, unread, connection, login,
          reconnect, missed, trouble>>

\* "free" is a socket number nobody uses, "backlog" a server end not yet
\* accepted, "gone" an end that has been extracted while the other has not.
Open == {"CONNECTING", "WAIT1", "WAIT2", "CONNECTED"}
States == Open \cup {"CLOSED", "free", "backlog", "gone"}
Entries == Muds \X Muds

TypeOK ==
  /\ flags \in Settings /\ active \subseteq Muds /\ known \subseteq Entries
  /\ line \in [Sockets -> [from : Muds \cup {None}, to : Muds \cup {None}, cut : BOOLEAN]]
  /\ state \in [Ends -> States]
  /\ info \in [Ends -> Muds \cup {None}]
  /\ unread \subseteq {e \in Ends : state[e] \in Open \cup {"backlog"}}
  /\ connection \in [Entries -> Ends \cup {NoEnd}]
  /\ login \subseteq {e \in Ends : state[e] \in Open \cup {"CLOSED"}}
  /\ reconnect \in [Entries -> 0 .. MaxPending]
  /\ missed \subseteq Entries /\ trouble \in 0 .. MaxTrouble
  /\ \A s \in Sockets : /\ (state[<<s, "client">>] = "free") = (state[<<s, "server">>] = "free")
                        /\ (line[s].from = None) = (state[<<s, "client">>] = "free")

At(e) == IF e[2] = "client" THEN line[e[1]].from ELSE line[e[1]].to
Ours(m) == {e \in Ends : At(e) = m /\ state[e] \in Open \cup {"CLOSED"}}
Other(e) == <<e[1], Peer(e[2])>>

Init ==
  /\ flags \in Settings
  /\ active = {} /\ known = {x \in Entries : x[1] # x[2]}
  /\ line = [s \in Sockets |-> [from |-> None, to |-> None, cut |-> FALSE]]
  /\ state = [e \in Ends |-> "free"]
  /\ info = [e \in Ends |-> None]
  /\ unread = {} /\ login = {} /\ missed = {}
  /\ connection = [x \in Entries |-> NoEnd]
  /\ reconnect = [x \in Entries |-> 0]
  /\ trouble = 0

Cost == trouble < MaxTrouble /\ trouble' = trouble + 1
-----------------------------------------------------------------------------
(* What several handlers do to the connections of mud m.                   *)

\* imc_setup_reconnect, called calls[x] times for every entry x.  An event
\* that is due sooner than the new one would be is kept instead; the random
\* delay decides, so once one is pending each call may add one or not.
SetupReconnect(before, calls) ==
  {r \in [Entries -> 0 .. MaxPending] :
     \A x \in Entries : /\ r[x] \in before[x] .. before[x] + calls[x]
                        /\ calls[x] > 0 => r[x] > 0}

Reconnects(m, n) == "RECONNECT" \in flags[<<m, n>>] /\ {"DENY", "CLIENT"} \cap flags[<<m, n>>] = {}

\* do_close of the ends C of mud m, all still open.
Closed(C) == [e \in Ends |-> IF e \in C THEN "CLOSED" ELSE state[e]]
SlipStillRegistered(C) == connection
Dropped(C) == [x \in Entries |-> IF connection[x] \in C THEN NoEnd ELSE connection[x]]
SlipOnlyConnected(m, C) ==
  [x \in Entries |-> IF x[1] = m /\ Reconnects(m, x[2])
                     THEN Cardinality({e \in C : connection[x] = e}) ELSE 0]
ToRetry(m, C) ==
  [x \in Entries |-> IF x[1] = m /\ Reconnects(m, x[2])
                     THEN Cardinality({e \in C : info[e] = x[2]}) ELSE 0]

DoClose(m, C) ==
  /\ state' = Closed(C)
  /\ connection' = Dropped(C)
  /\ reconnect' \in SetupReconnect(reconnect, ToRetry(m, C))
  /\ unread' = unread \ C

\* imc_connect_to: the tests, an attempt that fails at once, and one that
\* gets under way.  The password line is in the output buffer from the start;
\* the other end reads it when it has accepted.
SlipNotWhilePending(m, n) == /\ <<m, n>> \in known /\ connection[<<m, n>>] = NoEnd
                             /\ {"CLIENT", "DENY"} \cap flags[<<m, n>>] = {} /\ reconnect[<<m, n>>] = 0
MayConnect(m, n) == /\ <<m, n>> \in known /\ connection[<<m, n>>] = NoEnd
                    /\ {"CLIENT", "DENY"} \cap flags[<<m, n>>] = {}

\* For every socket s of calls, m calls calls[s] on it.
ImcConnectTo(m, calls) ==
  /\ \A s \in DOMAIN calls : state[<<s, "client">>] = "free"
  /\ line' = [s \in Sockets |->
                IF s \in DOMAIN calls
                THEN [from |-> m, to |-> calls[s], cut |-> calls[s] \notin active]
                ELSE line[s]]
  /\ state' = [e \in Ends |->
                 IF e[1] \notin DOMAIN calls THEN state[e]
                 ELSE IF e[2] = "client" THEN "CONNECTING"
                 ELSE IF calls[e[1]] \in active THEN "backlog" ELSE "gone"]
  /\ info' = [e \in Ends |->
                IF e[1] \notin DOMAIN calls THEN info[e]
                ELSE IF e[2] = "client" THEN calls[e[1]] ELSE None]
  /\ login' = login \cup ((DOMAIN calls) \X {"client"})
Call(m, n) == \E s \in Sockets : ImcConnectTo(m, [x \in {s} |-> n])
-----------------------------------------------------------------------------
(* imc_idle_select: accepting, reading, writing, extracting.               *)
DoAccept(e) ==
  /\ state[e] = "backlog" /\ At(e) \in active
  /\ state' = [state EXCEPT ![e] = "WAIT1"]
  /\ login' = login \cup {e}
  /\ UNCHANGED <<flags, active, known, line, info, unread, connection, reconnect, missed, trouble>>

\* do_write: the descriptor is writable, whether the connection came about or
\* not.  What was in the buffer follows.
DoWrite(e) ==
  /\ state[e] = "CONNECTING"
  /\ state' = [state EXCEPT ![e] = "WAIT2"]
  /\ unread' = unread \cup {f \in {Other(e)} : ~line[e[1]].cut /\ state[f] \in Open \cup {"backlog"}}
  /\ UNCHANGED <<flags, active, known, line, info, connection, login, reconnect, missed, trouble>>

\* do_read finds the end of file: the line is cut or the other end has closed.
DoReadEof(e) ==
  /\ state[e] \in Open \ {"CONNECTING"} /\ e \notin unread
  /\ line[e[1]].cut \/ state[Other(e)] \in {"CLOSED", "gone"}
  /\ DoClose(At(e), {e})
  /\ UNCHANGED <<flags, active, known, line, info, login, missed, trouble>>

\* What is left of the events after a handshake: the connection's login
\* timeout and the entry's reconnects are cancelled.
Registered(e, m, n, old) ==
  /\ state' = [Closed(old) EXCEPT ![e] = "CONNECTED"]
  /\ connection' = [Dropped(old) EXCEPT ![<<m, n>>] = e]
  /\ info' = [info EXCEPT ![e] = n]
  /\ login' = login \ {e}
  /\ reconnect' = [reconnect EXCEPT ![<<m, n>>] = 0]

Former(m, n) == {connection[<<m, n>>]} \ {NoEnd}

\* A client names itself: close the connection unless it is known, has the
\* right password and is not denied; a former connection gives way.
ClientPassword(e) ==
  LET m == At(e)
      n == line[e[1]].from
      welcome == <<m, n>> \in known /\ <<m, n>> \in Trusted /\ "DENY" \notin flags[<<m, n>>]
  IN  /\ state[e] = "WAIT1" /\ e \in unread
      /\ IF welcome
         THEN /\ Registered(e, m, n, Former(m, n))
              /\ unread' = (unread \ ({e} \cup Former(m, n)))
                             \cup {f \in {Other(e)} : state[f] \in Open /\ ~line[e[1]].cut}
         ELSE DoClose(m, {e}) /\ UNCHANGED <<info, login>>
      /\ UNCHANGED <<flags, active, known, line, missed, trouble>>

\* The server's answer.
ServerPassword(e) ==
  LET m == At(e)
      n == info[e]
  IN  /\ state[e] = "WAIT2" /\ e \in unread
      /\ IF <<m, n>> \in known /\ <<m, n>> \in Trusted
         THEN /\ Registered(e, m, n, Former(m, n))
              /\ unread' = unread \ ({e} \cup Former(m, n))
         ELSE DoClose(m, {e}) /\ UNCHANGED <<info, login>>
      /\ UNCHANGED <<flags, active, known, line, missed, trouble>>

\* imc_extract_connect cancels the connection's events.  A socket of which
\* both ends are extracted is free again.
Extracted(E) ==
  LET dead == {s \in Sockets : \A r \in Roles : <<s, r>> \in E \/ state[<<s, r>>] = "gone"}
  IN  /\ state' = [e \in Ends |-> IF e[1] \in dead THEN "free"
                                  ELSE IF e \in E THEN "gone" ELSE state[e]]
      /\ line' = [s \in Sockets |-> IF s \in dead THEN [from |-> None, to |-> None, cut |-> FALSE]
                                    ELSE line[s]]
      /\ info' = [e \in Ends |-> IF e \in E \/ e[1] \in dead THEN None ELSE info[e]]

SlipEventsStay(e) ==
  /\ state[e] = "CLOSED"
  /\ Extracted({e})
  /\ UNCHANGED <<flags, active, known, unread, connection, login, reconnect, missed, trouble>>
ExtractConnect(e) ==
  /\ state[e] = "CLOSED"
  /\ Extracted({e})
  /\ login' = login \ {e}
  /\ UNCHANGED <<flags, active, known, unread, connection, reconnect, missed, trouble>>
-----------------------------------------------------------------------------
(* Events.                                                                 *)
LoginTimeout(e) ==
  /\ e \in login /\ login' = login \ {e}
  /\ Cost
  /\ IF state[e] = "CLOSED" THEN UNCHANGED <<state, connection, reconnect, unread>>
     ELSE DoClose(At(e), {e})
  /\ UNCHANGED <<flags, active, known, line, info, missed>>

\* ev_reconnect.  A failure at once, of the resolver or the socket, sets up
\* the next attempt.  The event was set up IMC_MIN_RECONNECT_TIME - 20 seconds
\* ago or more, so it rarely fires while a handshake is still under way.
HandshakeUnderWay(m, n) ==
  \E e \in Ends : At(e) = m /\ info[e] = n /\ state[e] \in {"CONNECTING", "WAIT2"}
Reconnect(m, n) ==
  LET x == <<m, n>>
      fired == [reconnect EXCEPT ![x] = @ - 1]
  IN  /\ reconnect[x] > 0
      /\ \/ /\ connection[x] = NoEnd /\ MayConnect(m, n)
            /\ Call(m, n)
            /\ reconnect' = fired
            /\ IF HandshakeUnderWay(m, n) THEN Cost ELSE UNCHANGED trouble
         \/ /\ connection[x] = NoEnd
            /\ Cost
            /\ reconnect' \in SetupReconnect(fired, [y \in Entries |-> IF y = x THEN 1 ELSE 0])
            /\ UNCHANGED <<line, state, info, login>>
         \/ /\ connection[x] # NoEnd
            /\ reconnect' = fired
            /\ UNCHANGED <<line, state, info, login, trouble>>
      /\ UNCHANGED <<flags, active, known, unread, connection, missed>>
-----------------------------------------------------------------------------
(* Commands, failures, starting and stopping.                              *)

\* rconnect, by hand.
RConnect(m, n) ==
  /\ m \in active /\ MayConnect(m, n) /\ Cost
  /\ Call(m, n)
  /\ UNCHANGED <<flags, active, known, unread, connection, reconnect, missed>>

OpenFor(m, n) == {e \in Ours(m) : info[e] = n /\ state[e] \in Open}

\* rdisconnect closes every connection of the entry, half-made ones too.
ImcDisconnect(m, n) ==
  LET C == OpenFor(m, n)
  IN  /\ C # {} /\ Cost
      /\ DoClose(m, C)
      /\ UNCHANGED <<flags, active, known, line, info, login, missed>>

\* imc delete: imc_delete_info closes the connections of the entry and then
\* cancels the entry's own events.  The closed connections stay in the list,
\* with their login timeouts, until the next imc_idle_select.
ImcDeleteInfo(m, n) ==
  LET C == OpenFor(m, n)
  IN  /\ <<m, n>> \in known /\ m \in active /\ Cost
      /\ known' = known \ {<<m, n>>}
      /\ state' = Closed(C)
      /\ connection' = Dropped(C)
      /\ unread' = unread \ C
      /\ reconnect' = [reconnect EXCEPT ![<<m, n>>] = 0]
      /\ missed' = missed \ {<<m, n>>}
      /\ UNCHANGED <<flags, active, line, info, login>>

Cut(s) ==
  /\ line[s].from # None /\ ~line[s].cut /\ Cost
  /\ line' = [line EXCEPT ![s].cut = TRUE]
  /\ UNCHANGED <<flags, active, known, state, info, unread, connection, login, reconnect, missed>>

\* imc_startup_network: listen, and connect to every mud that is not set
\* NOAUTO, CLIENT or DENY, each once; an attempt may fail at once, and what
\* imc_connect_to returns is not looked at.
ToCall(m) == {n \in Muds : /\ <<m, n>> \in known
                           /\ {"NOAUTO", "CLIENT", "DENY"} \cap flags[<<m, n>>] = {}}
ImcStartup(m) ==
  /\ m \notin active
  /\ active' = active \cup {m}
  /\ \E S \in SUBSET Sockets : \E calls \in [S -> ToCall(m)] :
       /\ \A s, t \in S : calls[s] = calls[t] => s = t
       /\ ImcConnectTo(m, calls)
       /\ LET failed == ToCall(m) \ {calls[s] : s \in S}
          IN  /\ missed' = missed \cup ({m} \X failed)
              /\ IF failed = {} THEN UNCHANGED trouble ELSE Cost
  /\ UNCHANGED <<flags, known, unread, connection, reconnect>>

\* imc_shutdown_network: every connection is closed and extracted, all events
\* are freed.
ImcShutdown(m) ==
  LET E == Ours(m)
      refused == {e \in Ends : At(e) = m /\ state[e] = "backlog"}
  IN  /\ m \in active /\ Cost
      /\ active' = active \ {m}
      /\ Extracted(E \cup refused)
      /\ connection' = [x \in Entries |-> IF x[1] = m THEN NoEnd ELSE connection[x]]
      /\ unread' = unread \ (E \cup refused)
      /\ login' = login \ E
      /\ reconnect' = [x \in Entries |-> IF x[1] = m THEN 0 ELSE reconnect[x]]
      /\ missed' = {x \in missed : x[1] # m}
      /\ UNCHANGED <<flags, known>>
-----------------------------------------------------------------------------
Serve(e) == \/ DoAccept(e) \/ DoWrite(e) \/ DoReadEof(e)
            \/ ClientPassword(e) \/ ServerPassword(e) \/ ExtractConnect(e)

Next ==
  \/ \E e \in Ends : Serve(e) \/ LoginTimeout(e)
  \/ \E m, n \in Muds : m # n /\ (Reconnect(m, n) \/ RConnect(m, n) \/ ImcDisconnect(m, n)
                                  \/ ImcDeleteInfo(m, n))
  \/ \E s \in Sockets : Cut(s)
  \/ \E m \in Muds : ImcStartup(m) \/ ImcShutdown(m)

\* A running mud serves every ready descriptor in each imc_idle_select, and
\* events come due; a mud that is down is started again.
Fairness ==
  /\ \A e \in Ends : WF_vars(Serve(e))
  /\ \A m, n \in Muds : m # n => WF_vars(Reconnect(m, n))
  /\ \A m \in Muds : WF_vars(ImcStartup(m))

Spec == Init /\ [][Next]_vars /\ Fairness
-----------------------------------------------------------------------------
\* The two ends of the relation agree: an entry's connection is the one
\* connected end that knows this entry.  Refused handshakes, a second
\* connection that displaces the first, and deletions all keep it so.
OneEndEach ==
  \A m, n \in Muds : \A e \in Ends :
    connection[<<m, n>>] = e <=> At(e) = m /\ info[e] = n /\ state[e] = "CONNECTED"

\* Pending events refer to what exists.  The one exception is an end closed
\* by imc delete, whose login timeout still finds the deleted entry through
\* it: ev_login_timeout reads info->flags before do_close sees that the end
\* is closed.  An open end never refers to a deleted entry.
EventsRefer ==
  /\ \A x \in Entries : reconnect[x] > 0 => x \in known /\ x[1] \in active
  /\ \A e \in Ends : state[e] \in Open /\ info[e] # None => <<At(e), info[e]>> \in known

\* Connections, entries and pending events name each other consistently: imc_send, the
\* handshake and the event queue never use what another of them has let go of.
ConnectionAgrees == OneEndEach /\ EventsRefer

\* An entry that is to be reconnected is never forgotten: while the network
\* is up it is connected, being connected to, or has an event pending, unless
\* it was not to be called at startup, or that very first call failed at once.
NeverForgotten ==
  \A m, n \in Muds :
    m \in active /\ <<m, n>> \in known /\ Reconnects(m, n) /\ "NOAUTO" \notin flags[<<m, n>>]
      => \/ <<m, n>> \in missed
         \/ connection[<<m, n>>] # NoEnd
         \/ reconnect[<<m, n>>] > 0
         \/ \E e \in Ours(m) : info[e] = n /\ state[e] \in {"CONNECTING", "WAIT2"}

\* If one side is to connect and reconnect, both trust and have kept each
\* other, then they end up connected for good.
OneCaller(m, n) == /\ Reconnects(m, n) /\ "NOAUTO" \notin flags[<<m, n>>]
                   /\ "DENY" \notin flags[<<n, m>>] /\ "CLIENT" \in flags[<<n, m>>]
                   /\ {<<m, n>>, <<n, m>>} \subseteq Trusted
ComesTogether ==
  \A m, n \in Muds :
    m # n /\ OneCaller(m, n)
      => <>[](connection[<<m, n>>] # NoEnd) \/ <>(<<m, n>> \in missed \/ {<<m, n>>, <<n, m>>} \ known # {})
=============================================================================
