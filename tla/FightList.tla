----------------------------- MODULE FightList ------------------------------
(***************************************************************************)
(* The list of fighters: a doubly linked list threaded through the         *)
(* characters (next_fight, prev_fight) between the globals first_fight and *)
(* last_fight, changed only by set_fighting and stop_fighting (core.c).    *)
(*                                                                         *)
(* stop_fighting walks the list and unlinks while it walks.  The walk is   *)
(* modelled one loop iteration per action, so that the successor it saves  *)
(* before unlinking, and the half-swept list in between, are states.       *)
(*                                                                         *)
(* Definitions named Slip... are bugs the code could plausibly have had;   *)
(* nothing uses them except the runs that show a property notices them.    *)
(***************************************************************************)
EXTENDS FiniteSets, Sequences, Naturals, Lists

CONSTANTS Chars,     \* character structures
          NULL       \* the null pointer

ASSUME CharsAssumption == IsFiniteSet(Chars) /\ NULL \notin Chars

VARIABLES
    first_fight,     \* head of the list
    last_fight,      \* tail of the list
    next_fight,      \* ch->next_fight
    prev_fight,      \* ch->prev_fight
    fighting,        \* ch->fighting
    sf_ch,           \* stop_fighting's argument ch; NULL when it is not running
    sf_both,         \* stop_fighting's argument fBoth
    fch              \* stop_fighting's loop variable

list == <<first_fight, last_fight, next_fight, prev_fight, fighting>>
frame == <<sf_ch, sf_both, fch>>
vars == <<list, frame>>

PtrToChar == Chars \cup {NULL}

TypeOK ==
    /\ first_fight \in PtrToChar
    /\ last_fight \in PtrToChar
    /\ next_fight \in [Chars -> PtrToChar]
    /\ prev_fight \in [Chars -> PtrToChar]
    /\ fighting \in [Chars -> PtrToChar]
    /\ sf_ch \in PtrToChar
    /\ sf_both \in BOOLEAN
    /\ fch \in PtrToChar

Init ==
    /\ first_fight = NULL
    /\ last_fight = NULL
    /\ next_fight = [c \in Chars |-> NULL]
    /\ prev_fight = [c \in Chars |-> NULL]
    /\ fighting = [c \in Chars |-> NULL]
    /\ sf_ch = NULL
    /\ sf_both = FALSE
    /\ fch = NULL

-----------------------------------------------------------------------------
SlipNoGuard(ch, victim) ==          \* "already fighting" is not tested
    /\ sf_ch = NULL
    /\ next_fight[ch] = NULL /\ prev_fight[ch] = NULL
    /\ fighting' = [fighting EXCEPT ![ch] = victim]
    /\ first_fight' = IF first_fight = NULL THEN ch ELSE first_fight
    /\ next_fight' = [c \in Chars |-> IF c = last_fight THEN ch ELSE next_fight[c]]
    /\ prev_fight' = [prev_fight EXCEPT ![ch] = last_fight]
    /\ last_fight' = ch
    /\ UNCHANGED frame

SlipPushFront(ch, victim) ==        \* linked in at the wrong end
    /\ sf_ch = NULL
    /\ fighting[ch] = NULL
    /\ fighting' = [fighting EXCEPT ![ch] = victim]
    /\ last_fight' = IF last_fight = NULL THEN ch ELSE last_fight
    /\ prev_fight' = [c \in Chars |-> IF c = first_fight THEN ch ELSE prev_fight[c]]
    /\ next_fight' = [next_fight EXCEPT ![ch] = first_fight]
    /\ first_fight' = ch
    /\ UNCHANGED frame

(* Both early returns of set_fighting (already fighting, stale links) only *)
(* log, so they are this action not being enabled.                         *)
SetFighting(ch, victim) ==
    /\ sf_ch = NULL
    /\ fighting[ch] = NULL
    /\ next_fight[ch] = NULL /\ prev_fight[ch] = NULL
    /\ fighting' = [fighting EXCEPT ![ch] = victim]
    /\ first_fight' = IF first_fight = NULL THEN ch ELSE first_fight
    /\ next_fight' = [c \in Chars |-> IF c = last_fight THEN ch ELSE next_fight[c]]
    /\ prev_fight' = [prev_fight EXCEPT ![ch] = last_fight]
    /\ last_fight' = ch
    /\ UNCHANGED frame

SlipSwapped(ch, fBoth) ==           \* called with its arguments swapped
    /\ sf_ch = NULL
    /\ sf_ch' = fBoth
    /\ sf_both' = ch
    /\ fch' = first_fight
    /\ UNCHANGED list

(* Calling stop_fighting(ch, fBoth): the loop starts at the head.           *)
StopFighting(ch, fBoth) ==
    /\ sf_ch = NULL
    /\ sf_ch' = ch
    /\ sf_both' = fBoth
    /\ fch' = first_fight
    /\ UNCHANGED list

(* The loop's test: c itself, or whoever is fighting it when fBoth.         *)
ToStop(c) == c = sf_ch \/ (sf_both /\ fighting[c] = sf_ch)

SlipKeepTail(c) ==                  \* the tail pointer is not moved back
    LET before == prev_fight[c]
        after  == next_fight[c]
    IN  /\ fighting' = [fighting EXCEPT ![c] = NULL]
        /\ next_fight' = [d \in Chars |-> IF d = c THEN NULL
                                          ELSE IF d = before THEN after
                                          ELSE next_fight[d]]
        /\ prev_fight' = [d \in Chars |-> IF d = c THEN NULL
                                          ELSE IF d = after THEN before
                                          ELSE prev_fight[d]]
        /\ first_fight' = IF before = NULL THEN after ELSE first_fight
        /\ UNCHANGED last_fight

(* The four unlinking cases, by which neighbours c has.                     *)
Unlink(c) ==
    LET before == prev_fight[c]
        after  == next_fight[c]
    IN  /\ fighting' = [fighting EXCEPT ![c] = NULL]
        /\ next_fight' = [d \in Chars |-> IF d = c THEN NULL
                                          ELSE IF d = before THEN after
                                          ELSE next_fight[d]]
        /\ prev_fight' = [d \in Chars |-> IF d = c THEN NULL
                                          ELSE IF d = after THEN before
                                          ELSE prev_fight[d]]
        /\ first_fight' = IF before = NULL THEN after ELSE first_fight
        /\ last_fight' = IF after = NULL THEN before ELSE last_fight

SlipNextAfterUnlink ==              \* the successor is read from cleared links
    /\ sf_ch # NULL
    /\ fch # NULL
    /\ IF ToStop(fch) THEN Unlink(fch) ELSE UNCHANGED list
    /\ fch' = next_fight'[fch]
    /\ UNCHANGED <<sf_ch, sf_both>>

(* One iteration: fch_next is read before the links of fch are cleared.    *)
StopStep ==
    /\ sf_ch # NULL
    /\ fch # NULL
    /\ fch' = next_fight[fch]
    /\ IF ToStop(fch) THEN Unlink(fch) ELSE UNCHANGED list
    /\ UNCHANGED <<sf_ch, sf_both>>

(* The loop falls off the end of the list and stop_fighting returns.       *)
StopReturn ==
    /\ sf_ch # NULL
    /\ fch = NULL
    /\ sf_ch' = NULL
    /\ sf_both' = FALSE
    /\ UNCHANGED <<list, fch>>

Next ==
    \/ \E ch, victim \in Chars : SetFighting(ch, victim)
    \/ \E ch \in Chars, fBoth \in BOOLEAN : StopFighting(ch, fBoth)
    \/ StopStep
    \/ StopReturn

(* The server is one thread: a call to stop_fighting, once made, is run to *)
(* its end.                                                                *)
Fairness == WF_vars(StopStep) /\ WF_vars(StopReturn)

Spec == Init /\ [][Next]_vars /\ Fairness

-----------------------------------------------------------------------------
(* s lists, from head to tail, the characters the links thread together.   *)
Threads(s, n) ==
    /\ \A i, j \in 1..n : s[i] = s[j] => i = j
    /\ first_fight = IF n = 0 THEN NULL ELSE s[1]
    /\ last_fight = IF n = 0 THEN NULL ELSE s[n]
    /\ \A i \in 1..n : /\ next_fight[s[i]] = IF i = n THEN NULL ELSE s[i + 1]
                       /\ prev_fight[s[i]] = IF i = 1 THEN NULL ELSE s[i - 1]
                       /\ fighting[s[i]] # NULL
    /\ \A c \in Chars : (\A i \in 1..n : s[i] # c) =>
            fighting[c] = NULL /\ next_fight[c] = NULL /\ prev_fight[c] = NULL

(* The list is never corrupted: from first_fight the next links lead, once *)
(* each, through exactly the characters that are fighting, up to           *)
(* last_fight; the prev links are its mirror image; and nobody outside it  *)
(* has a link left (set_fighting would refuse them for ever).  The code:   *)
(* the linking of set_fighting and the four unlinking cases.               *)
ListIntact ==
    \E n \in 0..Cardinality(Chars) : \E s \in [1..n -> Chars] : Threads(s, n)

(* When stop_fighting's loop runs out it has reached everyone it had to:   *)
(* ch has no opponent, and with fBoth nobody has ch as opponent.  The code:*)
(* extract_char and raw_kill count on it before ch is freed or moved.      *)
StopIsComplete ==
    sf_ch # NULL /\ fch = NULL =>
        /\ fighting[sf_ch] = NULL
        /\ sf_both => \A c \in Chars : fighting[c] # sf_ch

(* Every stop_fighting call returns: the walk cannot be caught in a cycle  *)
(* of the links it is changing.                                            *)
StopReturns == sf_ch # NULL ~> sf_ch = NULL

-----------------------------------------------------------------------------
(* Refinement.  Whoever the running stop_fighting has still to reach is    *)
(* already released in the abstract state: the loop looks atomic.          *)

(* The characters found from first on along the links.                     *)
Linked(first, next) ==
    LET at[i \in Nat] == IF i = 0 THEN first
                         ELSE LET before == at[i - 1]
                              IN  IF before = NULL THEN NULL ELSE next[before]
    IN  [i \in {k \in 1..Cardinality(Chars) : at[k - 1] # NULL} |-> at[i - 1]]

Threading == Linked(first_fight, next_fight)

StillToStop == {c \in Chars : sf_ch # NULL /\ fighting[c] # NULL /\ ToStop(c)}

(* order is Without(Threading, StillToStop); the sets of one element make  *)
(* TLC evaluate the two arguments once.                                    *)
Abstract == INSTANCE FightOrder WITH
    order <- CHOOSE o \in {Without(s, S) : s \in {Threading}, S \in {StillToStop}} : TRUE,
    fighting <- [c \in Chars |-> IF c \in StillToStop THEN NULL ELSE fighting[c]]

(* The pointer-level list implements the abstract order of fighters.       *)
ImplementsFightOrder == Abstract!FightSpec
=============================================================================
