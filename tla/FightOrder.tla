----------------------------- MODULE FightOrder -----------------------------
(***************************************************************************)
(* What the fight list promises its callers: who is fighting whom, and the *)
(* order in which violence_update will give the fighters their turns.      *)
(* Taking up a fight puts the fighter at the end of that order; a release  *)
(* is a single indivisible step that takes out exactly the fighters it     *)
(* names and leaves everyone else in their relative order.                 *)
(*                                                                         *)
(* FightList is the pointer-level implementation (core.c); Combat composes *)
(* these operators with the rest of the fight code.                        *)
(***************************************************************************)
EXTENDS Naturals, Sequences, FiniteSets, Lists

CONSTANTS Chars,     \* character structures
          NULL       \* the null pointer

ASSUME NullAssumption == NULL \notin Chars

VARIABLES order,     \* fighters, in the order of their turns
          fighting   \* ch->fighting: the opponent of each character, or NULL

fightVars == <<order, fighting>>

-----------------------------------------------------------------------------
(* The characters stop_fighting(ch, fBoth) takes out of the fight.          *)
Released(f, ch, fBoth) ==
    {c \in Chars : f[c] # NULL /\ (c = ch \/ (fBoth /\ f[c] = ch))}

Disengaged(f, S) == [c \in Chars |-> IF c \in S THEN NULL ELSE f[c]]

-----------------------------------------------------------------------------
FightInit ==
    /\ order = << >>
    /\ fighting = [c \in Chars |-> NULL]

Engage(ch, victim) ==
    /\ fighting[ch] = NULL
    /\ order' = Append(order, ch)
    /\ fighting' = [fighting EXCEPT ![ch] = victim]

Disengage(ch, fBoth) ==
    LET out == Released(fighting, ch, fBoth)
    IN  /\ order' = Without(order, out)
        /\ fighting' = Disengaged(fighting, out)

FightNext ==
    \E ch \in Chars :
        \/ \E victim \in Chars : Engage(ch, victim)
        \/ \E fBoth \in BOOLEAN : Disengage(ch, fBoth)

FightSpec == FightInit /\ [][FightNext]_fightVars
=============================================================================
