------------------------------- MODULE ImcMail -------------------------------
(***************************************************************************)
(* Mail between muds (imc-mail.c): a mail for players of other muds is     *)
(* queued once for each of those muds, sent again every hour until the mud *)
(* answers mail-ok or mail-reject, and kept on file together with the      *)
(* queue; a mud remembers the IDs of the mails it has accepted, so that a  *)
(* mail that comes again is acknowledged and not delivered again.          *)
(*                                                                         *)
(* One mud is the sender, with its mail list, queue and files; the         *)
(* Addressees receive, with their ID lists.  The same code runs on both    *)
(* sides, and the two halves share no state.  Packets cross the IMC network,      *)
(* which may lose or reorder them; the sender, and a receiver, may die at  *)
(* any moment and start again.  A file is written by one step.             *)
(*                                                                         *)
(* An entry of the queue is a pair of a mail and a mud: no two entries     *)
(* agree on both, and no property depends on the order of the queue.       *)
(*                                                                         *)
(* Definitions named Slip... are bugs the code could plausibly have had;   *)
(* nothing uses them except the runs that show a property notices them.    *)
(***************************************************************************)
EXTENDS SequencesExt, FiniteSets

CONSTANTS
    Mail,          \* mails that can be written, each with its own ID
    Addressees,    \* muds they can be sent to
    NetSize        \* bound: packets on their way at the same time

ASSUME MailAssumption == IsFiniteSet(Mail) /\ IsFiniteSet(Addressees) /\ NetSize \in Nat

VARIABLES
    up,            \* the sender is running
    ml,            \* the mail list, behind imc_ml_head
    held,          \* the mails allocated and not freed
    usage,         \* mail->usage
    mq,            \* the mail queue
    todo,          \* what the handler that is running still has to do
    f_ml, f_mq,    \* the files mail-list and mail-queue
    net,           \* packets on their way
    idlist,        \* idlist[b]: IDs of the mails b has accepted
    f_ids,         \* the file mail-ids of each receiver
    written,       \* history: mails written
    posted,        \* history: entries that have been saved in mail-queue
    forsaken,      \* history: entries in mail-queue whose mail was not on file
    astray,        \* history: mails nothing will free: delete_ml dropped them from
                   \* the list, or no entry on file referred to them
    bounced,       \* history: entries whose sender was told of the rejection
    got,           \* history: how often each entry's mail was delivered
    forgotten      \* history: entries dropped from a receiver's ID list

sender == <<up, ml, held, usage, mq, todo>>
disk == <<f_ml, f_mq>>
receivers == <<idlist, f_ids, got, forgotten>>
record == <<written, posted, forsaken, astray, bounced>>
mailVars == <<sender, disk, net, receivers, record>>

QueueEntries == Mail \X Addressees
Packets == {"mail", "mail-ok", "mail-reject"} \X QueueEntries
Jobs == {<<"save_ml">>, <<"save_mq">>, <<"stop">>} \cup ({"send"} \X QueueEntries)

MailTypeOK ==
    /\ up \in BOOLEAN
    /\ IsInjective(ml) /\ ToSet(ml) \subseteq Mail
    /\ held \subseteq Mail
    /\ usage \in [Mail -> 0..Cardinality(Addressees)]
    /\ mq \subseteq QueueEntries /\ f_mq \subseteq QueueEntries
    /\ todo \in Seq(Jobs)
    /\ IsInjective(f_ml) /\ ToSet(f_ml) \subseteq Mail
    /\ BagToSet(net) \subseteq Packets
    /\ idlist \in [Addressees -> SUBSET Mail] /\ f_ids \in [Addressees -> SUBSET Mail]
    /\ got \in [QueueEntries -> Nat]
    /\ written \subseteq Mail /\ astray \subseteq Mail
    /\ UNION {posted, forsaken, bounced, forgotten} \subseteq QueueEntries

MailInit ==
    /\ up = TRUE
    /\ ml = << >> /\ held = {} /\ usage = [m \in Mail |-> 0] /\ mq = {}
    /\ todo = << >>
    /\ f_ml = << >> /\ f_mq = {}
    /\ net = EmptyBag
    /\ idlist = [b \in Addressees |-> {}] /\ f_ids = [b \in Addressees |-> {}]
    /\ written = {} /\ posted = {} /\ forsaken = {} /\ astray = {} /\ bounced = {}
    /\ got = [q \in QueueEntries |-> 0]
    /\ forgotten = {}

-----------------------------------------------------------------------------
(* The network.  imc_send hands a packet to the links; it may be lost there*)
(* or later.                                                               *)
Room(n) == BagCardinality(n) < NetSize
With(n, p) == n (+) SetToBag({p})
Less(n, p) == n (-) SetToBag({p})

(* Packet p is received, and answered by reply, which may get lost.         *)
Exchange(p, reply) ==
    /\ BagIn(p, net)
    /\ net' \in {Less(net, p), With(Less(net, p), reply)}

-----------------------------------------------------------------------------
Idle == up /\ todo = << >>

(* imc_send_mail: queued for every foreign mud among the addresses; the    *)
(* new mail goes to the front of the list.                                 *)
SendMail(m, muds) ==
    /\ Idle
    /\ m \notin written /\ muds # {}
    /\ written' = written \cup {m}
    /\ held' = held \cup {m}
    /\ usage' = [usage EXCEPT ![m] = Cardinality(muds)]
    /\ ml' = <<m>> \o ml
    /\ mq' = mq \cup ({m} \X muds)
    /\ todo' = << <<"save_ml">>, <<"save_mq">> >>
    /\ UNCHANGED <<up, disk, net, receivers, posted, forsaken, astray, bounced>>

(* ev_qnode_send, which every entry has pending, every hour.               *)
Resend(q) ==
    /\ Idle
    /\ q \in mq
    /\ todo' = << <<"save_ml">>, <<"save_mq">>, <<"send", q>> >>
    /\ UNCHANGED <<up, ml, held, usage, mq, disk, net, receivers, record>>

(* The steps of a handler after its changes in memory.                     *)
Doing(job) == up /\ todo # << >> /\ Head(todo) = job /\ todo' = Tail(todo)

SaveMl ==
    /\ Doing(<<"save_ml">>)
    /\ f_ml' = ml
    /\ UNCHANGED <<up, ml, held, usage, mq, f_mq, net, receivers, record>>

SaveMq ==
    /\ Doing(<<"save_mq">>)
    /\ f_mq' = mq
    /\ posted' = posted \cup mq
    /\ UNCHANGED <<up, ml, held, usage, mq, f_ml, net, receivers,
                   written, forsaken, astray, bounced>>

(* The packet gets away, or it is lost at once.                             *)
Sent(q) ==
    /\ Doing(<<"send", q>>)
    /\ Room(net)
    /\ net' = With(net, <<"mail", q>>)
    /\ UNCHANGED <<up, ml, held, usage, mq, disk, receivers, record>>

NotSent(q) ==
    /\ Doing(<<"send", q>>)
    /\ UNCHANGED <<up, ml, held, usage, mq, disk, net, receivers, record>>

-----------------------------------------------------------------------------
SlipNeverFreed(m) ==                 \* taken off the list, and not freed
    /\ ml' = SelectSeq(ml, LAMBDA d : d # m)
    /\ UNCHANGED <<held, astray>>

(* delete_ml(m).  last stays at the list's head throughout the search, so  *)
(* whatever is in front of m goes with it, and is never freed.             *)
DeleteMl(m) ==
    IF \E i \in DOMAIN ml : ml[i] = m
    THEN /\ ml' = SubSeq(ml, (CHOOSE i \in DOMAIN ml : ml[i] = m) + 1, Len(ml))
         /\ held' = held \ {m}
         /\ astray' = astray \cup (ToSet(ml) \ (ToSet(ml') \cup {m}))
    ELSE UNCHANGED <<ml, held, astray>>

SlipWholeMail(q) ==                  \* one mud's answer settles it for all
    /\ mq' = {e \in mq : e[1] # q[1]}
    /\ usage' = [usage EXCEPT ![q[1]] = 0]
    /\ DeleteMl(q[1])

(* delete_mq and free_qnode, for an entry that is in the queue.             *)
DeleteMq(q) ==
    /\ mq' = mq \ {q}
    /\ usage' = [usage EXCEPT ![q[1]] = @ - 1]
    /\ IF usage[q[1]] = 1 THEN DeleteMl(q[1]) ELSE UNCHANGED <<ml, held, astray>>

Received(p) == Idle /\ BagIn(p, net) /\ net' = Less(net, p)

(* imc_recv_mailok.                                                         *)
RecvMailOk(q) ==
    /\ Received(<<"mail-ok", q>>)
    /\ IF q \in mq THEN DeleteMq(q) ELSE UNCHANGED <<ml, held, usage, mq, astray>>
    /\ todo' = << <<"save_mq">>, <<"save_ml">> >>
    /\ UNCHANGED <<up, disk, receivers, written, posted, forsaken, bounced>>

(* imc_recv_mailrej: the writer gets a note that the mail bounced.          *)
RecvMailRej(q) ==
    /\ Received(<<"mail-reject", q>>)
    /\ IF q \in mq
       THEN /\ DeleteMq(q)
            /\ bounced' = bounced \cup {q}
            /\ todo' = << <<"save_mq">>, <<"save_ml">> >>
       ELSE UNCHANGED <<ml, held, usage, mq, astray, bounced, todo>>
    /\ UNCHANGED <<up, disk, receivers, written, posted, forsaken>>

-----------------------------------------------------------------------------
(* imc_mail_shutdown saves everything and frees it.                         *)
Shutdown ==
    /\ Idle
    /\ todo' = << <<"save_mq">>, <<"save_ml">>, <<"stop">> >>
    /\ UNCHANGED <<up, ml, held, usage, mq, disk, net, receivers, record>>

Halt ==
    /\ up' = FALSE
    /\ ml' = << >> /\ held' = {} /\ usage' = [m \in Mail |-> 0] /\ mq' = {}
    /\ UNCHANGED <<disk, net, receivers, record>>

Stopped == Doing(<<"stop">>) /\ Halt

(* The process dies, between any two steps.                                 *)
Crash == up /\ todo' = << >> /\ Halt

SlipNoUsage(found) == usage' = usage     \* read_qnode does not count itself

(* read_qnode counts each reference it resolves.                            *)
CountUsage(found) ==
    usage' = [m \in Mail |-> Cardinality({q \in found : q[1] = m})]

(* imc_mail_startup: load_ml pushes each mail to the front, which reverses *)
(* the list; load_mq drops an entry whose mail is not in the list.  A mail *)
(* on file that no entry refers to stays on the list.                      *)
Startup ==
    /\ ~up
    /\ up' = TRUE
    /\ ml' = Reverse(f_ml) /\ held' = ToSet(f_ml)
    /\ mq' = {q \in f_mq : q[1] \in ToSet(f_ml)}
    /\ CountUsage(mq')
    /\ forsaken' = forsaken \cup (f_mq \ mq')
    /\ astray' = {m \in held' : \A q \in mq' : q[1] # m}
    /\ UNCHANGED <<todo, disk, net, receivers, written, posted, bounced>>

-----------------------------------------------------------------------------
(* Receivers.  imc_recv_mail at mud b, for the mail m:                      *)
(* seen before (find_id): only acknowledged;                                *)
RecvSeen(m, b) ==
    /\ m \in idlist[b]
    /\ Exchange(<<"mail", <<m, b>>>>, <<"mail-ok", <<m, b>>>>)
    /\ UNCHANGED <<sender, disk, receivers, record>>

SlipNotSaved(m, b) ==                \* save_idlist is not called
    /\ idlist' = [idlist EXCEPT ![b] = @ \cup {m}]
    /\ UNCHANGED f_ids

Remember(m, b) ==
    /\ idlist' = [idlist EXCEPT ![b] = @ \cup {m}]
    /\ f_ids' = [f_ids EXCEPT ![b] = idlist'[b]]

(* new and welcome: delivered, acknowledged, and its ID listed and saved;  *)
RecvNew(m, b) ==
    /\ m \notin idlist[b]
    /\ Exchange(<<"mail", <<m, b>>>>, <<"mail-ok", <<m, b>>>>)
    /\ Remember(m, b)
    /\ got' = [got EXCEPT ![<<m, b>>] = @ + 1]
    /\ UNCHANGED <<sender, disk, forgotten, record>>

(* new, but its writer is ignored or the mud will not have it.              *)
Refuse(m, b) ==
    /\ m \notin idlist[b]
    /\ Exchange(<<"mail", <<m, b>>>>, <<"mail-reject", <<m, b>>>>)
    /\ UNCHANGED <<sender, disk, receivers, record>>

(* The receiver dies after the delivery, before the ID has been saved.      *)
RecvAndDie(m, b) ==
    /\ m \notin idlist[b]
    /\ Exchange(<<"mail", <<m, b>>>>, <<"mail-ok", <<m, b>>>>)
    /\ got' = [got EXCEPT ![<<m, b>>] = @ + 1]
    /\ idlist' = [idlist EXCEPT ![b] = f_ids[b]]
    /\ forgotten' = forgotten \cup {<<m, b>>}
    /\ UNCHANGED <<sender, disk, f_ids, record>>

(* ev_mailid_expire: after a day, then every hour, flush_idlist(imc_now +  *)
(* 24 * 3600) deletes what was received before that moment: everything.    *)
(* The file is left as it is.                                              *)
Expire(b) ==
    /\ idlist[b] # {}
    /\ idlist' = [idlist EXCEPT ![b] = {}]
    /\ forgotten' = forgotten \cup (idlist[b] \X {b})
    /\ UNCHANGED <<sender, disk, net, f_ids, got, record>>

(* A receiver dies, or shuts down, which saves the list; and starts again.  *)
Restart(b) ==
    /\ f_ids' \in {f_ids, [f_ids EXCEPT ![b] = idlist[b]]}
    /\ idlist' = [idlist EXCEPT ![b] = f_ids'[b]]
    /\ UNCHANGED <<sender, disk, net, got, forgotten, record>>

-----------------------------------------------------------------------------
MailNext ==
    \/ \E m \in Mail : \E muds \in SUBSET Addressees : SendMail(m, muds)
    \/ \E q \in QueueEntries :
           \/ Resend(q) \/ Sent(q) \/ NotSent(q)
           \/ RecvMailOk(q) \/ RecvMailRej(q)
    \/ \E m \in Mail, b \in Addressees :
           RecvSeen(m, b) \/ RecvNew(m, b) \/ Refuse(m, b) \/ RecvAndDie(m, b)
    \/ SaveMl \/ SaveMq \/ Shutdown \/ Stopped \/ Crash \/ Startup
    \/ \E b \in Addressees : Expire(b) \/ Restart(b)

MailSpec == MailInit /\ [][MailNext]_mailVars

-----------------------------------------------------------------------------
(* An entry's mail is never freed while the entry is queued, and it is     *)
(* freed with the last one, whatever is answered, lost or read from file;  *)
(* but for the mails in front of another that was freed, which delete_ml   *)
(* has dropped from the list, and those that came from the file without an *)
(* entry.  Usage counts the entries, and no freed mail is on the list.     *)
UsageCounts ==
    /\ \A m \in held : usage[m] = Cardinality({q \in mq : q[1] = m})
    /\ \A m \in held \ astray : usage[m] > 0
    /\ \A q \in mq : q[1] \in held
    /\ ToSet(ml) \subseteq held

(* Mail that has been queued and saved is delivered, or its writer is told *)
(* that it was not, or it is still going to be sent: whatever is lost on   *)
(* the way, answered twice or out of order, and wherever the processes die;*)
(* except for what the mail list has lost when the sender starts again.    *)
NoSilentLoss ==
    \A q \in posted \ forsaken :
        \/ q \in IF up THEN mq ELSE f_mq
        \/ got[q] > 0
        \/ q \in bounced

(* Mail is delivered twice only by a mud that had to forget its ID, by     *)
(* expiring it or by dying before it was saved: retries, answers that were *)
(* lost, and restarts do not do that.                                      *)
DeliveredOnce == \A q \in QueueEntries : got[q] > 1 => q \in forgotten

(* load_mq relies on the mail list "to resolve the ID refs in the          *)
(* mailqueue": at any moment, the files hold the mail of every entry.      *)
QueueResolves == \A q \in f_mq : q[1] \in ToSet(f_ml)
=============================================================================
