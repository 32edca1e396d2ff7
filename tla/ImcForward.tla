----------------------------- MODULE ImcForward -----------------------------
(***************************************************************************)
(* Forwarding of packets between muds (src/src/imc.c, imc-util.c,          *)
(* imc-version.c, imc-events.c).  Every mud floods what it has no route    *)
(* for, follows its route table otherwise, and recognises what it has seen *)
(* by the sender's sequence number.  The routes are a side effect of the   *)
(* packets that pass, so they are as old as those packets.                 *)
(*                                                                         *)
(* A connection has two ends, and each end learns of its loss by itself:   *)
(* up[<<a, b>>] is a's opinion.  How a connection comes about is the       *)
(* business of module ImcLink.  Settings are at their defaults except for  *)
(* the broadcast flag: noforward and rcvstamp are 0, and no packet is of   *)
(* the three old chat channels that can_forward keeps at home.             *)
(***************************************************************************)
EXTENDS Naturals, Sequences, FiniteSets, SequencesExt

CONSTANTS
  Muds,          \* the muds, by imc_name
  Flooded,       \* pairs <<m, n>>: m's entry for n has the flag IMC_BROADCAST
  IMC_MEMORY,    \* how many packets a mud remembers (256 in the code)
  IMC_PACKET_LIFETIME, \* how far a sequence number may lag (60 in the code)
  Networks       \* the muds that have each other in imc_info_list, as two-element
                 \* sets; bounds: the packets that may be sent and the other events

All == "*"       \* the mud part of a broadcast's address

ASSUME ForwardAssumption ==
  /\ IsFiniteSet(Muds) /\ All \notin Muds
  /\ \A net \in Networks : /\ net.packets \in Nat /\ net.changes \in Nat
                           /\ \A l \in net.links : l \subseteq Muds /\ Cardinality(l) = 2
  /\ Flooded \subseteq Muds \X Muds
  /\ IMC_MEMORY \in Nat \ {0} /\ IMC_PACKET_LIFETIME \in Nat

VARIABLES
  links,         \* the network, which does not change
  now,           \* the clock
  sequence,      \* imc_sequencenumber of every mud
  sent,          \* the packets of all time: sender, number, addressee, changes before
  wire,          \* what a connection has yet to deliver, per direction
  up,            \* info->connection # NULL, per end
  memory,        \* imc_memory: the last IMC_MEMORY <<sender, number>>, oldest first
  reminfo,       \* imc_reminfo_list: what a mud knows of the others
  seen,          \* history: packets a mud took in since it last started
  twice,         \* history: <<mud, packet>> taken in a second time
  refused,       \* history: <<mud, packet>> dropped though never taken in
  rewound,       \* history: muds that restarted with their number ahead of the clock
  trouble,       \* history: connections lost and made, restarts and expiries so far
  packets, changes \* bounds: what is left of the network's numbers

vars == <<links, now, sequence, sent, wire, up, memory, reminfo, seen, twice, refused,
          rewound, trouble, packets, changes>>

Peers(m) == {n \in Muds : {m, n} \in links}
Wires == {w \in Muds \X Muds : {w[1], w[2]} \in links}
Members == UNION links
Packets == 1 .. Len(sent)
Unknown == [type |-> "none"]     \* no imc_reminfo of that name

TypeOK ==
  /\ now \in Nat
  /\ sequence \in [Muds -> Nat]
  /\ sent \in Seq([from : Muds, seq : Nat, to : Muds \cup {All},
                     since : Nat])
  /\ \A w \in Wires : \A k \in DOMAIN wire[w] :
       /\ wire[w][k].id \in Packets
       /\ wire[w][k].path # <<>> /\ IsInjective(wire[w][k].path)
       /\ Last(wire[w][k].path) = w[1]
       /\ Head(wire[w][k].path) = sent[wire[w][k].id].from
  /\ up \in [Wires -> BOOLEAN]
  /\ \A m \in Muds : /\ Len(memory[m]) <= IMC_MEMORY
                     /\ reminfo[m][m] = Unknown
                     /\ \A n \in Muds : \/ reminfo[m][n] = Unknown
                                        \/ /\ reminfo[m][n].type \in {"normal", "expired", "revived"}
                                           /\ reminfo[m][n].route \in Peers(m)
  /\ \A m \in Muds : seen[m] \subseteq Packets
  /\ trouble \in Nat /\ packets \in Nat /\ changes \in Nat

Init ==
  /\ \E net \in Networks : /\ links = net.links
                           /\ packets = net.packets /\ changes = net.changes
  /\ now = 1       \* any positive number: 0 would not be remembered
  /\ sequence = [m \in Muds |-> now]
  /\ sent = <<>>
  /\ wire = [w \in Wires |-> <<>>]
  /\ up = [w \in Wires |-> TRUE]
  /\ memory = [m \in Muds |-> <<>>]
  /\ reminfo = [m \in Muds |-> [n \in Muds |-> Unknown]]
  /\ seen = [m \in Muds |-> {}]
  /\ twice = {} /\ refused = {} /\ rewound = {}
  /\ trouble = 0

Spend == changes > 0 /\ changes' = changes - 1
Change == Spend /\ trouble' = trouble + 1 /\ UNCHANGED packets
-----------------------------------------------------------------------------
(* forward: the packet's own tests.                                        *)
CheckRepeat(m, p) == ToSet(memory[m]) \cap {<<p.from, p.seq>>} # {}
SlipOneSlot(m, p) == <<<<p.from, p.seq>>>>
Remember(m, p) ==
  LET all == Append(memory[m], <<p.from, p.seq>>)
  IN  IF Len(all) > IMC_MEMORY THEN Tail(all) ELSE all

Known(m, n) == reminfo[m][n] # Unknown                  \* imc_find_reminfo(n, 1)
SlipSwappedSides(m, p) ==
  Known(m, p.from) /\ p.seq > reminfo[m][p.from].top + IMC_PACKET_LIFETIME
TooOld(m, p) == Known(m, p.from) /\ p.seq + IMC_PACKET_LIFETIME < reminfo[m][p.from].top

\* top_sequence is raised for whoever was known already; updateroutes then
\* enters everybody in the path as reachable through its last hop.  It cancels
\* the expiry of an entry that is there, and not the drop that is under way when
\* the entry has expired: IMC_REMINFO_NORMAL then stands here as "revived".
SlipFirstHop(m, p, path) ==
  [n \in Muds |-> IF n # m /\ n \in ToSet(path)
                  THEN [type |-> "normal", route |-> Head(path), top |-> p.seq]
                  ELSE reminfo[m][n]]
UpdateRoutes(m, p, path) ==
  [n \in Muds |->
     LET old == reminfo[m][n]
         top == IF old = Unknown THEN 0
                ELSE IF n = p.from /\ p.seq > old.top THEN p.seq ELSE old.top
     IN  IF n # m /\ n \in ToSet(path)
         THEN [type |-> IF old.type \in {"expired", "revived"} THEN "revived" ELSE "normal",
               route |-> Last(path), top |-> top]
         ELSE IF old = Unknown THEN old ELSE [old EXCEPT !.top = top]]

Connected(m) == {n \in Peers(m) : up[<<m, n>>]}

\* Which connections the packet leaves on, given the routes known by now.
SlipServedByOthers(m, path, to, routes) ==
  {n \in Connected(m) \ ToSet(path) :
     routes[n] = Unknown \/ routes[n].route = n \/ to # All}
NextHops(m, path, to, routes) ==
  LET usable == to # All /\ to # m /\ routes[to].type \in {"normal", "revived"}
                  /\ routes[to].route \notin ToSet(path)
      hop == IF usable THEN routes[to].route ELSE to
      direct == IF usable /\ hop # to THEN {to} ELSE {}
      single == to # All /\ hop \in Connected(m) /\ <<m, hop>> \notin Flooded
  IN  (IF single THEN ({hop} \cup direct) \cap Connected(m) ELSE Connected(m))
        \ ToSet(path)

\* Taking a packet in: register it, learn from it, send it on.  generate2
\* appends the forwarder's name to the path.  A packet for this mud only is
\* sent on as well: the test meant to stop it (imc.c:606) compares the mud
\* part of p->to, which imc_nameof has just taken off, with imc_name.
TakeIn(m, i, path, wires, register) ==
  LET p == sent'[i]
      routes == UpdateRoutes(m, p, path)
      hops == NextHops(m, path, p.to, routes)
      copy == [id |-> i, path |-> Append(path, m)]
  IN  /\ memory' = [memory EXCEPT ![m] = register]
      /\ reminfo' = [reminfo EXCEPT ![m] = routes]
      /\ wire' = [w \in Wires |-> IF w[1] = m /\ w[2] \in hops /\ up[<<w[2], m>>]
                                  THEN Append(wires[w], copy) ELSE wires[w]]
      /\ twice' = twice \cup (IF i \in seen[m] THEN {<<m, i>>} ELSE {})
      /\ seen' = [seen EXCEPT ![m] = @ \cup {i}]
      /\ refused' = refused

Refuse(m, i, wires, register) ==
  /\ memory' = [memory EXCEPT ![m] = register]
  /\ wire' = wires
  /\ refused' = refused \cup (IF i \in seen[m] THEN {} ELSE {<<m, i>>})
  /\ UNCHANGED <<reminfo, seen, twice>>

Forward(m, i, path, wires) ==
  LET p == sent'[i] IN
  IF CheckRepeat(m, p) THEN Refuse(m, i, wires, memory[m])
  ELSE IF m \in ToSet(path) \/ TooOld(m, p) THEN Refuse(m, i, wires, Remember(m, p))
  ELSE TakeIn(m, i, path, wires, Remember(m, p))
-----------------------------------------------------------------------------
CaughtUp(m) == IF sequence[m] < now THEN now ELSE sequence[m]

\* imc_send: a packet of this mud's own.
ImcSend(m, to) ==
  /\ packets > 0 /\ packets' = packets - 1
  /\ sent' = Append(sent, [from |-> m, seq |-> sequence[m], to |-> to,
                          since |-> trouble])
  /\ sequence' = [sequence EXCEPT ![m] = @ + 1]
  /\ Forward(m, Len(sent) + 1, <<>>, wire)
  /\ UNCHANGED <<links, now, up, rewound, trouble, changes>>

\* imc_idle_select, IMC_CONNECTED: one line from the connection to n.
ImcReceive(m, n) ==
  LET w == <<n, m>> IN
  /\ up[<<m, n>>] /\ wire[w] # <<>>
  /\ sequence' = [sequence EXCEPT ![m] = CaughtUp(m)]
  /\ sent' = sent
  /\ LET msg == Head(wire[w])
         wires == [wire EXCEPT ![w] = Tail(@)]
     IN  Forward(m, msg.id, msg.path, wires)
  /\ UNCHANGED <<links, now, up, rewound, trouble, packets, changes>>

\* imc_idle_select with nothing to read.
ImcIdle(m) ==
  /\ sequence[m] < now
  /\ sequence' = [sequence EXCEPT ![m] = CaughtUp(m)]
  /\ UNCHANGED <<links, now, sent, wire, up, memory, reminfo, seen, twice, refused, rewound, trouble, packets, changes>>

Tick ==
  /\ Spend
  /\ now' = now + 1
  /\ UNCHANGED <<links, sequence, sent, wire, up, memory, reminfo, seen, twice, refused, rewound, trouble, packets>>
-----------------------------------------------------------------------------
Forget(table, n) == [table EXCEPT ![n] = Unknown]

\* do_close at m's end of the connection to n.  What n has sent and m has
\* not read is lost; what m has sent is still there for n.
DoClose(m, n) ==
  /\ up[<<m, n>>]
  /\ up' = [up EXCEPT ![<<m, n>>] = FALSE]
  /\ wire' = [wire EXCEPT ![<<n, m>>] = <<>>]
  /\ reminfo' = [reminfo EXCEPT ![m] = Forget(@, n)]
  /\ UNCHANGED <<links, now, sequence, sent, memory, seen, twice, refused, rewound>>

\* A connection breaks, is closed by command or overflows, at one end ...
Break(m, n) ==
  /\ up[<<n, m>>]
  /\ Change
  /\ DoClose(m, n)

\* ... and the other end reads the end of file.
ReadEof(m, n) ==
  /\ ~up[<<n, m>>] /\ wire[<<n, m>>] = <<>>
  /\ DoClose(m, n)
  /\ UNCHANGED <<trouble, packets, changes>>

\* The handshake of ImcLink has succeeded: both ends are IMC_CONNECTED.
LinkUp(m, n) ==
  /\ ~up[<<m, n>>] /\ ~up[<<n, m>>]
  /\ Change
  /\ up' = [up EXCEPT ![<<m, n>>] = TRUE, ![<<n, m>>] = TRUE]
  /\ wire' = [wire EXCEPT ![<<m, n>>] = <<>>, ![<<n, m>>] = <<>>]
  /\ UNCHANGED <<links, now, sequence, sent, memory, reminfo, seen, twice, refused, rewound>>

\* imc_startup after the process died: all it knew is gone, and its numbers
\* start from the clock.  The other ends still have their connections.
Restart(m) ==
  /\ Change
  /\ sequence' = [sequence EXCEPT ![m] = now]
  /\ rewound' = IF sequence[m] > now THEN rewound \cup {m} ELSE rewound
  /\ memory' = [memory EXCEPT ![m] = <<>>]
  /\ reminfo' = [reminfo EXCEPT ![m] = [n \in Muds |-> Unknown]]
  /\ seen' = [seen EXCEPT ![m] = {}]
  /\ twice' = {t \in twice : t[1] # m}
  /\ up' = [w \in Wires |-> w[1] # m /\ up[w]]
  /\ wire' = [w \in Wires |-> IF w[2] = m THEN <<>> ELSE wire[w]]
  /\ UNCHANGED <<links, now, sent, refused>>

\* ev_expire_reminfo: nothing heard of n for IMC_KEEPALIVE_TIMEOUT.
ExpireReminfo(m, n) ==
  /\ reminfo[m][n].type \in {"normal", "revived"}
  /\ Change
  /\ reminfo' = [reminfo EXCEPT ![m][n].type = "expired"]
  /\ UNCHANGED <<links, now, sequence, sent, wire, up, memory, seen, twice, refused, rewound>>

\* ev_drop_reminfo, IMC_DROP_TIMEOUT after that, whatever was heard in between.
DropReminfo(m, n) ==
  /\ reminfo[m][n].type \in {"expired", "revived"}
  /\ reminfo' = [reminfo EXCEPT ![m] = Forget(@, n)]
  /\ UNCHANGED <<links, now, sequence, sent, wire, up, memory, seen, twice, refused, rewound, trouble, packets, changes>>

Next ==
  \/ \E m \in Members : \/ \E to \in Members \cup {All} : ImcSend(m, to)
                        \/ ImcIdle(m) \/ Restart(m)
                        \/ \E n \in Peers(m) : \/ ImcReceive(m, n) \/ Break(m, n)
                                              \/ ReadEof(m, n) \/ LinkUp(m, n)
                        \/ \E n \in Members : ExpireReminfo(m, n) \/ DropReminfo(m, n)
  \/ Tick

Spec == Init /\ [][Next]_vars
-----------------------------------------------------------------------------
(* What the network promises.                                              *)
InFlight == UNION {{wire[w][k].id : k \in DOMAIN wire[w]} : w \in Wires}

\* A mud takes a packet in at most once between two of its starts, however
\* the flood reaches it, as long as no more packets are about than it can
\* remember.
AtMostOnce == Len(sent) <= IMC_MEMORY => twice = {}

\* A mud turns away a packet it has never had only if the packet's number
\* was overtaken by a later one of the same sender, by more than the
\* lifetime, or if the sender had restarted with its numbers ahead of the
\* clock: sequence numbers taken from the clock survive a restart otherwise.
RefusedForAReason ==
  \A r \in refused :
    LET p == sent[r[2]] IN
    \/ p.from \in rewound
    \/ \E j \in Packets : /\ j > r[2] /\ sent[j].from = p.from
                         /\ sent[j].seq > p.seq + IMC_PACKET_LIFETIME

\* The muds that a chain of connections, alive at both ends, leads to.
Alive(m) == {n \in Peers(m) : up[<<m, n>>] /\ up[<<n, m>>]}
Reachable(m) ==
  LET reach[k \in 0 .. Cardinality(Muds)] ==
        IF k = 0 THEN {m} ELSE reach[k - 1] \cup UNION {Alive(n) : n \in reach[k - 1]}
  IN  reach[Cardinality(Muds)]

\* A broadcast reaches every mud that is connected to its sender, if nothing
\* changed since it was sent: the repeats and loops that muds suppress never
\* cut the flood off.
BroadcastReachesAll ==
  \A i \in Packets \ InFlight :
    LET p == sent[i] IN
    p.to = All /\ p.since = trouble /\ p.from \notin rewound
      => \A m \in Reachable(p.from) : i \in seen[m]

\* A packet for one mud is lost, while nothing has happened to the network,
\* only if its sender has overtaken it by more than the lifetime or if two
\* neighbours that both took it in had routes for the addressee and neither
\* was connected to it: each may have sent its copy to the other, which had
\* one already.  What nobody has a route for is flooded until it is found.
Overtaken(i) ==
  \E j \in Packets : /\ j > i /\ sent[j].from = sent[i].from
                     /\ sent[j].seq > sent[i].seq + IMC_PACKET_LIFETIME
LostOnlyToRoutes ==
  \A i \in Packets \ InFlight :
    LET to == sent[i].to IN
    trouble = 0 /\ to \in Reachable(sent[i].from) =>
      \/ i \in seen[to]
      \/ Overtaken(i)
      \/ \E m \in Muds : \E n \in Peers(m) :
           /\ i \in seen[m] /\ i \in seen[n]
           /\ Known(m, to) /\ Known(n, to)
           /\ to \notin Peers(m) \cup Peers(n)

\* What forward and checkrepeat suppress never cuts a packet off from where
\* it is to go; only routes can.
PacketsArrive == BroadcastReachesAll /\ LostOnlyToRoutes
=============================================================================
