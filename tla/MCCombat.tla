------------------------------ MODULE MCCombat ------------------------------
(* An instance of Combat small enough for TLC: a street, an alley next to  *)
(* it, and the altar.  The alley is where do_recall leads.                 *)
EXTENDS Combat, TLC

CONSTANTS street, alley, altar

MCRooms == {street, alley, altar}
MCExits == [r \in MCRooms |-> CASE r = street -> {alley}
                                [] r = alley  -> {street}
                                [] r = altar  -> {street}]
(* Fights only: the wounded stay down, nobody rests, leaves or arrives.     *)
(* Every behaviour of BattleSpec is one of Spec, and every way a round can  *)
(* change the lists it walks is still in it.                                *)
Battle ==
    \/ Round
    \/ \E c, v \in Chars : Attack(c, v)

BattleSpec == Init /\ [][Battle]_vars /\ WF_vars(Round)

(* The bound of the run of all commands: at most one character at a time is *)
(* hurt, lying down, or on the list of fighters without being in            *)
(* POS_FIGHTING; and no round begins with all of them fighting and one hurt.*)
FewDown ==
    /\ Cardinality(wounded \cup
           {c \in Chars : \/ position[c] \in {"sleeping", "resting", "down"}
                          \/ fighting[c] # NULL /\ position[c] # "fighting"}) <= 1
    /\ pc = "idle" => wounded = {} \/ \E c \in Chars : fighting[c] = NULL

(* What decides how a behaviour goes on.  Turn asks only whether init, once *)
(* counted down, is above 0, so 0 and 1 are not told apart; it sets ch_next *)
(* before anything reads it.  Of the stage of multi_hit between two blows   *)
(* only those that can still come matter, and of the attacker and the      *)
(* victim nothing when none can.  Who has rejoined twice may be served as   *)
(* if it had not been.                                                     *)
Coming == IF pc = "swing" /\ stage # 1 THEN {n \in 2..5 : 0 < stage /\ stage <= n /\ GoesOn(n)}
          ELSE {stage}
Over == pc = "swing" /\ Coming = {} /\ ret # "again"
Seen == <<order, fighting, position, wounded, people, [c \in Chars |-> init[c] > 1],
          pc, ch, IF pc = "head" THEN NULL ELSE ch_next, victim, rch,
          IF Over THEN <<NULL, NULL>> ELSE <<att, vic>>, Coming, ret, blow,
          [c \in Chars |-> served[c] % 3], slain>>

PlayerSymmetry == Permutations(Players)
=============================================================================
