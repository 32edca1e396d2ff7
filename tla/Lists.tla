------------------------------- MODULE Lists --------------------------------
(***************************************************************************)
(* What unlinking does to a linked list, seen as the sequence it threads.  *)
(***************************************************************************)
EXTENDS Naturals, FiniteSets

(* Those of o that are not in S, in their order: the k-th is the one that   *)
(* has k-1 such before it.                                                 *)
Without(o, S) ==
    LET kept == {i \in DOMAIN o : o[i] \notin S}
        rank(i) == Cardinality({j \in kept : j <= i})
    IN  [k \in 1..Cardinality(kept) |-> o[CHOOSE i \in kept : rank(i) = k]]
=============================================================================
