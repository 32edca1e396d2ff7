----------------------------- MODULE MCImcMail ------------------------------
(* An instance of ImcMail small enough for TLC.                             *)
EXTENDS ImcMail, TLC

(* The bounds: three entries in all, so that one mail is for both muds and *)
(* the other one for one of them, or fewer; no entry is delivered more     *)
(* than twice; and at most one ID is forgotten, or one entry bounces.      *)
MailBound ==
    /\ Cardinality(posted \cup mq) <= 3
    /\ \A q \in QueueEntries : got[q] <= 2
    /\ Cardinality(forgotten) + Cardinality(bounced) <= 1

MailSymmetry == Permutations(Mail) \cup Permutations(Addressees)
=============================================================================
