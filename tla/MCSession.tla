----------------------------- MODULE MCSession ------------------------------
(* An instance of Session small enough for TLC.                             *)
EXTENDS Session, TLC

SessionSymmetry == Permutations(Desc) \cup Permutations(Bodies)
=============================================================================
