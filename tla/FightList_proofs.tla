-------------------------- MODULE FightList_proofs --------------------------
(***************************************************************************)
(* Proofs about FightList for any finite set of characters: the links are  *)
(* well typed, the list is never corrupted, stop_fighting returns only     *)
(* when everyone it has to release is released, and the pointers implement *)
(* the order of turns that the rest of the fight code is written against.  *)
(***************************************************************************)
EXTENDS FightList, FiniteSetTheorems, FunctionTheorems, WellFoundedInduction,
        NaturalsInduction, SequenceTheorems, TLAPS

(* The characters that ToStop picks are only looked for from fch onwards:  *)
(* the walk is at position k and has left nobody to stop behind it.        *)
WalkAt(s, n) ==
    sf_ch # NULL =>
        \E k \in 1..(n + 1) :
            /\ fch = IF k = n + 1 THEN NULL ELSE s[k]
            /\ \A i \in 1..(k - 1) : ~ToStop(s[i])

(* The inductive invariant: ListIntact alone does not say where in the     *)
(* list the running stop_fighting is, without which its return shows       *)
(* nothing.  The length is left unbounded here; ListBound bounds it.       *)
IInv ==
    /\ TypeOK
    /\ \E n \in Nat : \E s \in [1..n -> Chars] : Threads(s, n) /\ WalkAt(s, n)

(* The library counterpart of "no list is longer than the population": a   *)
(* list without repetitions has at most as many places as there are        *)
(* characters.                                                             *)
LEMMA ListBound ==
    ASSUME NEW n \in Nat, NEW s \in [1..n -> Chars],
           \A i, j \in 1..n : s[i] = s[j] => i = j
    PROVE  n \in 0..Cardinality(Chars)
<1>1. IsFiniteSet(Chars) /\ Cardinality(Chars) \in Nat
  BY CharsAssumption, FS_CardinalityType
<1>2. IsFiniteSet(1..n) /\ Cardinality(1..n) = n
  BY FS_Interval
<1>3. s \in Injection(1..n, Chars)
  BY DEF Injection, IsInjective
<1>4. Cardinality(1..n) <= Cardinality(Chars)
  BY <1>1, <1>3, FS_Injection
<1>5. QED
  BY <1>1, <1>2, <1>4

-----------------------------------------------------------------------------
LEMMA TypeInit == Init => TypeOK
  BY CharsAssumption DEF Init, TypeOK, PtrToChar

LEMMA TypeNext == TypeOK /\ [Next]_vars => TypeOK'
<1> SUFFICES ASSUME TypeOK, [Next]_vars PROVE TypeOK'
  OBVIOUS
<1> USE CharsAssumption DEF TypeOK, PtrToChar
<1>1. ASSUME NEW ch \in Chars, NEW victim \in Chars, SetFighting(ch, victim)
      PROVE TypeOK'
  BY <1>1 DEF SetFighting, frame
<1>2. ASSUME NEW ch \in Chars, NEW fBoth \in BOOLEAN, StopFighting(ch, fBoth)
      PROVE TypeOK'
  BY <1>2 DEF StopFighting, list
<1>3. CASE StopStep
  BY <1>3 DEF StopStep, Unlink, list
<1>4. CASE StopReturn
  BY <1>4 DEF StopReturn, list
<1>5. CASE UNCHANGED vars
  BY <1>5 DEF vars, list, frame
<1>6. QED
  BY <1>1, <1>2, <1>3, <1>4, <1>5 DEF Next

(* Every pointer of the fight list is NULL or a character.                 *)
THEOREM TypeCorrect == Spec => []TypeOK
  BY TypeInit, TypeNext, PTL DEF Spec

-----------------------------------------------------------------------------
LEMMA ThreadInit == Init => IInv
<1> SUFFICES ASSUME Init PROVE IInv
  OBVIOUS
<1>1. TypeOK
  BY TypeInit
<1>2. PICK s \in [1..0 -> Chars] : TRUE
  <2>1. [i \in 1..0 |-> CHOOSE c \in Chars : TRUE] \in [1..0 -> Chars]
    OBVIOUS
  <2>2. QED
    BY <2>1
<1>3. Threads(s, 0) /\ WalkAt(s, 0)
  BY DEF Init, Threads, WalkAt
<1>4. QED
  BY <1>1, <1>3 DEF IInv

(* s with ch after its n elements, and without its k-th.                   *)
Longer(s, n, ch) == [i \in 1..(n + 1) |-> IF i = n + 1 THEN ch ELSE s[i]]
Shorter(s, n, k) == [i \in 1..(n - 1) |-> IF i < k THEN s[i] ELSE s[i + 1]]

(* set_fighting puts a new last element after the list there was.          *)
LEMMA SetFightingKeeps ==
    ASSUME TypeOK, NEW n \in Nat, NEW s \in [1..n -> Chars], Threads(s, n),
           NEW ch \in Chars, NEW victim \in Chars, SetFighting(ch, victim)
    PROVE  /\ Longer(s, n, ch) \in [1..(n + 1) -> Chars]
           /\ Threads(Longer(s, n, ch), n + 1)'
           /\ WalkAt(Longer(s, n, ch), n + 1)'
<1> DEFINE t == [i \in 1..(n + 1) |-> IF i = n + 1 THEN ch ELSE s[i]]
<1>t. Longer(s, n, ch) = t
  BY DEF Longer
<1>1. n + 1 \in Nat /\ t \in [1..(n + 1) -> Chars]
  OBVIOUS
<1>2. \A i \in 1..n : s[i] # ch /\ s[i] \in Chars
  BY DEF Threads, SetFighting
<1>3. \A i, j \in 1..(n + 1) : t[i] = t[j] => i = j
  BY <1>2 DEF Threads
<1>4. /\ n = 0 => first_fight = NULL /\ last_fight = NULL
      /\ n # 0 => first_fight = s[1] /\ last_fight = s[n]
  BY DEF Threads
<1>5. first_fight' = t[1] /\ last_fight' = t[n + 1]
  <2>1. CASE n = 0
    BY <1>4, <2>1 DEF SetFighting
  <2>2. CASE n # 0
    BY <1>4, <1>2, <2>2, CharsAssumption DEF SetFighting
  <2>3. QED
    BY <2>1, <2>2
<1>6. \A i \in 1..(n + 1) :
          /\ next_fight'[t[i]] = IF i = n + 1 THEN NULL ELSE t[i + 1]
          /\ prev_fight'[t[i]] = IF i = 1 THEN NULL ELSE t[i - 1]
          /\ fighting'[t[i]] # NULL
  <2> SUFFICES ASSUME NEW i \in 1..(n + 1)
               PROVE  /\ next_fight'[t[i]] = IF i = n + 1 THEN NULL ELSE t[i + 1]
                      /\ prev_fight'[t[i]] = IF i = 1 THEN NULL ELSE t[i - 1]
                      /\ fighting'[t[i]] # NULL
    OBVIOUS
  <2>1. CASE i = n + 1
    <3>1. t[i] = ch /\ ch # last_fight
      BY <2>1, <1>2, <1>4, CharsAssumption
    <3>2. next_fight'[ch] = NULL /\ prev_fight'[ch] = last_fight /\ fighting'[ch] = victim
      BY <3>1 DEF SetFighting, TypeOK
    <3>3. last_fight = IF i = 1 THEN NULL ELSE t[i - 1]
      BY <2>1, <1>4
    <3>4. QED
      BY <2>1, <3>1, <3>2, <3>3, CharsAssumption
  <2>2. CASE i \in 1..n
    <3>1. t[i] = s[i] /\ s[i] \in Chars /\ s[i] # ch
      BY <2>2, <1>2
    <3>2. prev_fight'[s[i]] = prev_fight[s[i]] /\ fighting'[s[i]] = fighting[s[i]]
      BY <3>1 DEF SetFighting, TypeOK
    <3>3. next_fight'[s[i]] = IF s[i] = last_fight THEN ch ELSE next_fight[s[i]]
      BY <3>1 DEF SetFighting
    <3>4. s[i] = last_fight <=> i = n
      BY <1>4, <2>2 DEF Threads
    <3>5. /\ next_fight[s[i]] = IF i = n THEN NULL ELSE s[i + 1]
          /\ prev_fight[s[i]] = IF i = 1 THEN NULL ELSE s[i - 1]
          /\ fighting[s[i]] # NULL
      BY <2>2 DEF Threads
    <3>6. i # n => t[i + 1] = s[i + 1]
      BY <2>2
    <3>7. i = n => t[i + 1] = ch
      OBVIOUS
    <3>8. i # 1 => t[i - 1] = s[i - 1]
      BY <2>2
    <3>9. i # n + 1
      BY <2>2
    <3>10. QED
      BY <3>1, <3>2, <3>3, <3>4, <3>5, <3>6, <3>7, <3>8, <3>9
  <2>3. QED
    BY <2>1, <2>2
<1>7. ASSUME NEW c \in Chars, \A i \in 1..(n + 1) : t[i] # c
      PROVE  fighting'[c] = NULL /\ next_fight'[c] = NULL /\ prev_fight'[c] = NULL
  <2>1. c # ch
    BY <1>7
  <2>2. \A i \in 1..n : s[i] # c
    BY <1>7
  <2>3. fighting[c] = NULL /\ next_fight[c] = NULL /\ prev_fight[c] = NULL
    BY <2>2 DEF Threads
  <2>4. c # last_fight
    BY <1>4, <2>2, CharsAssumption
  <2>5. QED
    BY <2>1, <2>3, <2>4 DEF SetFighting, TypeOK
<1>8. Threads(t, n + 1)'
  <2> HIDE DEF t
  <2>1. n + 1 # 0
    OBVIOUS
  <2>2. QED
    BY <1>3, <1>5, <1>6, <1>7, <2>1 DEF Threads
<1>9. WalkAt(t, n + 1)'
  BY DEF WalkAt, SetFighting, frame
<1> HIDE DEF t
<1>10. Threads(Longer(s, n, ch), n + 1)' /\ WalkAt(Longer(s, n, ch), n + 1)'
  <2>1. Longer(s, n, ch)' = Longer(s, n, ch)
    BY DEF Longer
  <2>2. QED
    BY <1>t, <1>8, <1>9 DEF Threads, WalkAt
<1>11. QED
  BY <1>1, <1>10, <1>t

-----------------------------------------------------------------------------
(* An iteration of stop_fighting that finds somebody to stop takes exactly *)
(* the element at the walk's position out, and its old successor moves     *)
(* into that position.                                                     *)
LEMMA UnlinkKeeps ==
    ASSUME TypeOK, NEW n \in Nat, NEW s \in [1..n -> Chars], Threads(s, n),
           NEW k \in 1..n, fch = s[k], \A i \in 1..(k - 1) : ~ToStop(s[i]),
           StopStep, ToStop(fch)
    PROVE  /\ n - 1 \in Nat /\ Shorter(s, n, k) \in [1..(n - 1) -> Chars]
           /\ Threads(Shorter(s, n, k), n - 1)'
           /\ WalkAt(Shorter(s, n, k), n - 1)'
<1>2. k \in 1..n /\ fch = s[k] /\ n \in Nat \ {0}
  OBVIOUS
<1>3. fch \in Chars /\ \A i \in 1..n : s[i] \in Chars /\ s[i] # NULL
  BY <1>2, CharsAssumption
<1>4. \A i, j \in 1..n : s[i] = s[j] => i = j
  BY DEF Threads
<1>5. \A i \in 1..n : /\ next_fight[s[i]] = IF i = n THEN NULL ELSE s[i + 1]
                      /\ prev_fight[s[i]] = IF i = 1 THEN NULL ELSE s[i - 1]
                      /\ fighting[s[i]] # NULL
  BY DEF Threads
<1>6. first_fight = s[1] /\ last_fight = s[n]
  BY <1>2 DEF Threads
<1> DEFINE before == IF k = 1 THEN NULL ELSE s[k - 1]
           after  == IF k = n THEN NULL ELSE s[k + 1]
<1>7. prev_fight[fch] = before /\ next_fight[fch] = after
  BY <1>2, <1>5
<1>8. /\ fighting' = [fighting EXCEPT ![fch] = NULL]
      /\ next_fight' = [d \in Chars |-> IF d = fch THEN NULL
                                        ELSE IF d = before THEN after
                                        ELSE next_fight[d]]
      /\ prev_fight' = [d \in Chars |-> IF d = fch THEN NULL
                                        ELSE IF d = after THEN before
                                        ELSE prev_fight[d]]
      /\ first_fight' = IF before = NULL THEN after ELSE first_fight
      /\ last_fight' = IF after = NULL THEN before ELSE last_fight
      /\ fch' = after /\ sf_ch' = sf_ch /\ sf_both' = sf_both
  BY <1>7 DEF StopStep, Unlink
<1> DEFINE m == n - 1
           t == [i \in 1..m |-> IF i < k THEN s[i] ELSE s[i + 1]]
<1>9. m \in Nat /\ t \in [1..m -> Chars]
  BY <1>2
<1>10. \A i \in 1..m : t[i] = s[IF i < k THEN i ELSE i + 1]
                       /\ (IF i < k THEN i ELSE i + 1) \in (1..n) \ {k}
  BY <1>2
<1>11. \A i, j \in 1..m : t[i] = t[j] => i = j
  BY <1>4, <1>10, <1>2
<1>12. /\ first_fight' = IF m = 0 THEN NULL ELSE t[1]
       /\ last_fight' = IF m = 0 THEN NULL ELSE t[m]
  <2>1. first_fight' = IF k = 1 THEN after ELSE s[1]
    BY <1>2, <1>3, <1>6, <1>8
  <2>2. last_fight' = IF k = n THEN before ELSE s[n]
    BY <1>2, <1>3, <1>6, <1>8
  <2>3. m # 0 => t[1] = IF k = 1 THEN s[2] ELSE s[1]
    BY <1>2
  <2>4. m # 0 => t[m] = IF k = n THEN s[n - 1] ELSE s[n]
    BY <1>2
  <2>5. m = 0 => n = 1 /\ k = 1
    BY <1>2
  <2>6. QED
    BY <2>1, <2>2, <2>3, <2>4, <2>5, <1>2
<1>13. ASSUME NEW j \in 1..n, j # k
       PROVE  /\ next_fight'[s[j]] = IF j = k - 1 THEN after
                                     ELSE IF j = n THEN NULL ELSE s[j + 1]
              /\ prev_fight'[s[j]] = IF j = k + 1 THEN before
                                     ELSE IF j = 1 THEN NULL ELSE s[j - 1]
              /\ fighting'[s[j]] # NULL
  <2>1. s[j] \in Chars /\ s[j] # fch /\ s[j] # NULL
    BY <1>2, <1>3, <1>4, <1>13
  <2>2. s[j] = before <=> j = k - 1
    BY <1>2, <1>3, <1>4, <1>13
  <2>3. s[j] = after <=> j = k + 1
    BY <1>2, <1>3, <1>4, <1>13
  <2>4. next_fight'[s[j]] = IF j = k - 1 THEN after ELSE next_fight[s[j]]
    BY <1>8, <2>1, <2>2
  <2>5. prev_fight'[s[j]] = IF j = k + 1 THEN before ELSE prev_fight[s[j]]
    BY <1>8, <2>1, <2>3
  <2>6. fighting'[s[j]] = fighting[s[j]]
    BY <1>8, <2>1 DEF TypeOK
  <2>7. QED
    BY <2>4, <2>5, <2>6, <1>5
<1>14. \A i \in 1..m :
           /\ next_fight'[t[i]] = IF i = m THEN NULL ELSE t[i + 1]
           /\ prev_fight'[t[i]] = IF i = 1 THEN NULL ELSE t[i - 1]
           /\ fighting'[t[i]] # NULL
  <2> SUFFICES ASSUME NEW i \in 1..m
               PROVE  /\ next_fight'[t[i]] = IF i = m THEN NULL ELSE t[i + 1]
                      /\ prev_fight'[t[i]] = IF i = 1 THEN NULL ELSE t[i - 1]
                      /\ fighting'[t[i]] # NULL
    OBVIOUS
  <2>1. CASE i < k
    <3>1. t[i] = s[i] /\ i \in 1..n /\ i # k
      BY <1>2, <2>1
    <3>2. i # m => t[i + 1] = IF i = k - 1 THEN s[k + 1] ELSE s[i + 1]
      BY <1>2, <2>1
    <3>3. i # 1 => t[i - 1] = s[i - 1]
      BY <1>2, <2>1
    <3>4. i = m => (i = k - 1 /\ k = n)
      BY <1>2, <2>1
    <3>5. i # n /\ i # k + 1
      BY <1>2, <2>1
    <3>6. i = k - 1 /\ i # m => k # n
      BY <1>2, <2>1
    <3>7. QED
      BY <1>13, <3>1, <3>2, <3>3, <3>4, <3>5, <3>6
  <2>2. CASE i >= k
    <3>1. t[i] = s[i + 1] /\ i + 1 \in 1..n /\ i + 1 # k /\ i + 1 # k - 1
      BY <1>2, <2>2
    <3>2. i # m => t[i + 1] = s[i + 2]
      BY <1>2, <2>2
    <3>3. i # 1 => t[i - 1] = IF i = k THEN s[k - 1] ELSE s[i]
      BY <1>2, <2>2
    <3>4. /\ i = m <=> i + 1 = n
          /\ i = k <=> i + 1 = k + 1
          /\ i + 1 # 1
      BY <1>2, <2>2
    <3>5. i = 1 => i = k
      BY <1>2, <2>2
    <3>6. next_fight'[t[i]] = IF i + 1 = n THEN NULL ELSE s[i + 2]
      BY <1>13, <3>1
    <3>7. prev_fight'[t[i]] = IF i = k THEN before ELSE s[i]
      BY <1>13, <3>1, <3>4
    <3>8. fighting'[t[i]] # NULL
      BY <1>13, <3>1
    <3>9. QED
      BY <3>2, <3>3, <3>4, <3>5, <3>6, <3>7, <3>8
  <2>3. QED
    BY <2>1, <2>2, <1>2
<1>15. ASSUME NEW c \in Chars, \A i \in 1..m : t[i] # c
       PROVE  fighting'[c] = NULL /\ next_fight'[c] = NULL /\ prev_fight'[c] = NULL
  <2>1. CASE c = fch
    BY <1>3, <1>8, <2>1 DEF TypeOK
  <2>2. CASE c # fch
    <3>1. ASSUME NEW j \in 1..n, j # k PROVE s[j] # c
      <4>1. CASE j < k
        <5>1. j \in 1..m /\ t[j] = s[j]
          BY <1>2, <4>1
        <5>2. QED
          BY <5>1, <1>15
      <4>2. CASE j > k
        <5>1. j - 1 \in 1..m /\ t[j - 1] = s[j]
          BY <1>2, <4>2
        <5>2. QED
          BY <5>1, <1>15
      <4>3. QED
        BY <3>1, <4>1, <4>2, <1>2
    <3>2. \A j \in 1..n : s[j] # c
      BY <3>1, <2>2, <1>2
    <3>3. fighting[c] = NULL /\ next_fight[c] = NULL /\ prev_fight[c] = NULL
      BY <3>2 DEF Threads
    <3>4. c # before /\ c # after
      BY <3>2, <1>2, CharsAssumption
    <3>5. QED
      BY <1>8, <2>2, <3>3, <3>4 DEF TypeOK
  <2>3. QED
    BY <2>1, <2>2
<1>16. Threads(t, m)'
  <2> HIDE DEF t, m
  <2>1. QED
    BY <1>11, <1>12, <1>14, <1>15 DEF Threads
<1>17. WalkAt(t, m)'
  <2>1. k \in 1..(m + 1) /\ fch' = IF k = m + 1 THEN NULL ELSE t[k]
    BY <1>2, <1>8
  <2>2. ASSUME NEW i \in 1..(k - 1) PROVE ~ToStop(t[i])'
    <3>1. i \in 1..n /\ i # k /\ t[i] = s[i]
      BY <1>2
    <3>2. fighting'[s[i]] = fighting[s[i]]
      BY <3>1, <1>2, <1>3, <1>4, <1>8 DEF TypeOK
    <3>3. ~ToStop(s[i])
      OBVIOUS
    <3>4. QED
      BY <3>1, <3>2, <3>3, <1>8 DEF ToStop
  <2> HIDE DEF t, m
  <2>3. QED
    BY <2>1, <2>2 DEF WalkAt
<1>18. m = n - 1 /\ t = Shorter(s, n, k)
  BY DEF Shorter
<1> HIDE DEF t, m
<1>19. Threads(Shorter(s, n, k), n - 1)' /\ WalkAt(Shorter(s, n, k), n - 1)'
  BY <1>16, <1>17, <1>18 DEF Threads, WalkAt
<1>20. QED
  BY <1>9, <1>18, <1>19

(* An iteration that passes somebody by only advances the walk.            *)
LEMMA PassKeeps ==
    ASSUME NEW n \in Nat, NEW s \in [1..n -> Chars], Threads(s, n),
           WalkAt(s, n), StopStep, ~ToStop(fch)
    PROVE  Threads(s, n)' /\ WalkAt(s, n)'
<1>1. UNCHANGED list /\ fch' = next_fight[fch] /\ UNCHANGED <<sf_ch, sf_both>>
  BY DEF StopStep
<1>2. Threads(s, n)'
  BY <1>1 DEF Threads, list
<1>3. PICK k \in 1..(n + 1) : /\ fch = IF k = n + 1 THEN NULL ELSE s[k]
                              /\ \A i \in 1..(k - 1) : ~ToStop(s[i])
  BY DEF WalkAt, StopStep
<1>4. k \in 1..n /\ fch = s[k]
  BY <1>3 DEF StopStep
<1>5. k + 1 \in 1..(n + 1) /\ fch' = IF k + 1 = n + 1 THEN NULL ELSE s[k + 1]
  BY <1>1, <1>4 DEF Threads
<1>6. \A i \in 1..((k + 1) - 1) : ~ToStop(s[i])
  BY <1>3, <1>4
<1>7. \A i \in 1..((k + 1) - 1) : ~ToStop(s[i])'
  BY <1>1, <1>6 DEF ToStop, list
<1>8. QED
  BY <1>2, <1>5, <1>7 DEF WalkAt

LEMMA ThreadNext == IInv /\ [Next]_vars => IInv'
<1> SUFFICES ASSUME IInv, [Next]_vars PROVE IInv'
  OBVIOUS
<1>1. TypeOK /\ TypeOK'
  BY TypeNext DEF IInv
<1>n. PICK n \in Nat : \E s \in [1..n -> Chars] : Threads(s, n) /\ WalkAt(s, n)
  BY DEF IInv
<1>2. PICK s \in [1..n -> Chars] : Threads(s, n) /\ WalkAt(s, n)
  BY <1>n
<1> SUFFICES \E m \in Nat : \E t \in [1..m -> Chars] :
                 Threads(t, m)' /\ WalkAt(t, m)'
  BY <1>1 DEF IInv
<1>3. ASSUME NEW ch \in Chars, NEW victim \in Chars, SetFighting(ch, victim)
      PROVE  \E m \in Nat : \E t \in [1..m -> Chars] :
                 Threads(t, m)' /\ WalkAt(t, m)'
  <2>1. n + 1 \in Nat
    OBVIOUS
  <2>2. QED
    BY <1>1, <1>2, <1>3, <2>1, SetFightingKeeps
<1>4. ASSUME NEW ch \in Chars, NEW fBoth \in BOOLEAN, StopFighting(ch, fBoth)
      PROVE  Threads(s, n)' /\ WalkAt(s, n)'
  <2>1. UNCHANGED list /\ fch' = first_fight
    BY <1>4 DEF StopFighting
  <2>2. Threads(s, n)'
    BY <1>2, <2>1 DEF Threads, list
  <2>3. 1 \in 1..(n + 1) /\ fch' = IF 1 = n + 1 THEN NULL ELSE s[1]
    BY <1>2, <2>1 DEF Threads
  <2>4. \A i \in 1..(1 - 1) : ~ToStop(s[i])'
    OBVIOUS
  <2>5. QED
    BY <2>2, <2>3, <2>4 DEF WalkAt
<1>5. CASE StopStep
  <2>1. CASE ToStop(fch)
    <3>1. PICK k \in 1..(n + 1) : /\ fch = IF k = n + 1 THEN NULL ELSE s[k]
                                  /\ \A i \in 1..(k - 1) : ~ToStop(s[i])
      BY <1>2, <1>5 DEF WalkAt, StopStep
    <3>2. k \in 1..n /\ fch = s[k]
      BY <1>5, <3>1 DEF StopStep
    <3>3. QED
      BY <1>1, <1>2, <1>5, <2>1, <3>1, <3>2, UnlinkKeeps
  <2>2. CASE ~ToStop(fch)
    BY <1>2, <1>5, <2>2, PassKeeps
  <2>3. QED
    BY <2>1, <2>2
<1>6. CASE StopReturn
  BY <1>2, <1>6 DEF StopReturn, Threads, WalkAt, list
<1>7. CASE UNCHANGED vars
  <2>1. UNCHANGED list /\ UNCHANGED frame
    BY <1>7 DEF vars
  <2>2. Threads(s, n)'
    BY <1>2, <2>1 DEF Threads, list
  <2>3. \A c : ToStop(c)' <=> ToStop(c)
    BY <2>1 DEF ToStop, list, frame
  <2>4. WalkAt(s, n)'
    BY <1>2, <2>1, <2>3 DEF WalkAt, frame
  <2>5. QED
    BY <2>2, <2>4
<1>8. QED
  BY <1>2, <1>3, <1>4, <1>5, <1>6, <1>7 DEF Next

THEOREM Threaded == Spec => []IInv
  BY ThreadInit, ThreadNext, PTL DEF Spec

(* The fight list is never corrupted, however set_fighting and             *)
(* stop_fighting are called.                                               *)
THEOREM ListNeverCorrupted == Spec => []ListIntact
<1>1. IInv => ListIntact
  <2> SUFFICES ASSUME IInv PROVE ListIntact
    OBVIOUS
  <2>n. PICK n \in Nat : \E s \in [1..n -> Chars] : Threads(s, n)
    BY DEF IInv
  <2>1. PICK s \in [1..n -> Chars] : Threads(s, n)
    BY <2>n
  <2>2. \A i, j \in 1..n : s[i] = s[j] => i = j
    BY <2>1 DEF Threads
  <2>3. n \in 0..Cardinality(Chars)
    BY <2>2, ListBound
  <2>4. QED
    BY <2>1, <2>3 DEF ListIntact
<1>2. QED
  BY <1>1, Threaded, PTL

(* stop_fighting never returns with the fight it was to stop still on.     *)
THEOREM StopLeavesNobody == Spec => []StopIsComplete
<1>1. IInv => StopIsComplete
  <2> SUFFICES ASSUME IInv, sf_ch # NULL, fch = NULL
               PROVE  /\ fighting[sf_ch] = NULL
                      /\ sf_both => \A c \in Chars : fighting[c] # sf_ch
    BY DEF StopIsComplete
  <2>n. PICK n \in Nat : \E s \in [1..n -> Chars] : Threads(s, n) /\ WalkAt(s, n)
    BY DEF IInv
  <2>1. PICK s \in [1..n -> Chars] : Threads(s, n) /\ WalkAt(s, n)
    BY <2>n
  <2>2. PICK k \in 1..(n + 1) : /\ fch = IF k = n + 1 THEN NULL ELSE s[k]
                                /\ \A i \in 1..(k - 1) : ~ToStop(s[i])
    BY <2>1 DEF WalkAt
  <2>3. k = n + 1
    BY <2>2, CharsAssumption
  <2>4. \A i \in 1..n : ~ToStop(s[i])
    BY <2>2, <2>3
  <2>5. ASSUME NEW c \in Chars, ToStop(c) PROVE fighting[c] = NULL
    BY <2>1, <2>4, <2>5 DEF Threads
  <2>6. sf_ch \in Chars
    BY DEF IInv, TypeOK, PtrToChar
  <2>7. QED
    BY <2>5, <2>6 DEF ToStop
<1>2. QED
  BY <1>1, Threaded, PTL

-----------------------------------------------------------------------------
(* Following the links.  A recursive function is what its equation says,   *)
(* because the equation has a solution and only one.                       *)
Follows(w, first, next) ==
  w = [i \in Nat |-> IF i = 0 THEN first
                     ELSE LET before == w[i - 1]
                          IN  IF before = NULL THEN NULL ELSE next[before]]

LEMMA Least ==
  ASSUME NEW S, S \subseteq Nat, S # {}
  PROVE  \E x \in S : \A y \in S : x <= y
<1>1. IsWellFoundedOn(OpToRel(<,Nat), Nat)
  BY NatLessThanWellFounded
<1>2. OpToRel(<,Nat) = {ss \in Nat \X Nat : ss[1] < ss[2]}
  BY DEF OpToRel
<1>3. \E x \in S : \A y \in S : ~(<<y, x>> \in OpToRel(<,Nat))
  BY <1>1, WFMin
<1>4. \E x \in S : \A y \in S : ~(<<y, x>> \in {ss \in Nat \X Nat : ss[1] < ss[2]})
  BY <1>2, <1>3, Zenon
<1>5. PICK x \in S : \A y \in S : ~(<<y, x>> \in {ss \in Nat \X Nat : ss[1] < ss[2]})
  BY <1>4
<1>6. ASSUME NEW y \in S PROVE x <= y
  <2>1. x \in Nat /\ y \in Nat
    OBVIOUS
  <2>2. ~(<<y, x>>[1] < <<y, x>>[2])
    BY <1>5, <2>1
  <2>3. QED
    BY <2>1, <2>2
<1>7. QED
  BY <1>6

LEMMA OneWay ==
  ASSUME NEW first, NEW next, NEW w, NEW v, Follows(w, first, next), Follows(v, first, next)
  PROVE  w = v
<1> DEFINE D == {i \in Nat : w[i] # v[i]}
<1>1. ASSUME D # {} PROVE FALSE
  <2>1. PICK x \in D : \A y \in D : x <= y
    BY <1>1, Least
  <2>2. w[0] = v[0]
    BY DEF Follows
  <2>3. x \in Nat /\ x # 0 /\ x - 1 \in Nat /\ x - 1 \notin D
    BY <2>1, <2>2
  <2>4. w[x - 1] = v[x - 1]
    BY <2>3
  <2>5. w[x] = v[x]
    BY <2>3, <2>4 DEF Follows
  <2>6. QED
    BY <2>1, <2>5
<1>2. \A i \in Nat : w[i] = v[i]
  BY <1>1
<1>3. QED
  BY <1>2 DEF Follows

(* A sequence whose elements each link to the next one is what is found.   *)
LEMMA LinkedIs ==
  ASSUME NEW first, NEW next, NEW n \in 0 .. Cardinality(Chars), NEW s \in [1 .. n -> Chars],
         first = (IF n = 0 THEN NULL ELSE s[1]),
         \A i \in 1 .. n : next[s[i]] = IF i = n THEN NULL ELSE s[i + 1]
  PROVE  Linked(first, next) = s
<1> DEFINE w == [i \in Nat |-> IF i < n THEN s[i + 1] ELSE NULL]
           at == CHOOSE v : Follows(v, first, next)
<1>0. n \in Nat /\ Cardinality(Chars) \in Nat
  BY CharsAssumption, FS_CardinalityType
<1>1. Follows(w, first, next)
  <2>1. \A i \in Nat : w[i] = IF i = 0 THEN first
                              ELSE IF w[i - 1] = NULL THEN NULL ELSE next[w[i - 1]]
    <3> TAKE i \in Nat
    <3>1. CASE i = 0
      BY <1>0, <3>1
    <3>2. CASE i # 0 /\ i - 1 < n
      <4>1. i \in 1 .. n /\ w[i - 1] = s[i] /\ s[i] # NULL
        BY <1>0, <3>2, CharsAssumption
      <4>2. w[i] = IF i = n THEN NULL ELSE s[i + 1]
        BY <1>0, <3>2
      <4>3. QED
        BY <4>1, <4>2
    <3>3. CASE i # 0 /\ ~(i - 1 < n)
      BY <1>0, <3>3
    <3>4. QED
      BY <3>1, <3>2, <3>3
  <2>2. QED
    BY <2>1 DEF Follows
<1>2. at = w
  BY <1>1, OneWay
<1>3. Linked(first, next) = [i \in {k \in 1 .. Cardinality(Chars) : at[k - 1] # NULL} |-> at[i - 1]]
  BY DEF Linked, Follows
<1> HIDE DEF at
<1>4. {k \in 1 .. Cardinality(Chars) : at[k - 1] # NULL} = 1 .. n
  <2>1. \A k \in 1 .. Cardinality(Chars) : at[k - 1] # NULL <=> k <= n
    <3> TAKE k \in 1 .. Cardinality(Chars)
    <3>1. k - 1 \in Nat /\ at[k - 1] = IF k - 1 < n THEN s[(k - 1) + 1] ELSE NULL
      BY <1>0, <1>2
    <3>2. k <= n => s[k] \in Chars /\ s[k] # NULL
      BY <1>0, CharsAssumption
    <3>3. QED
      BY <1>0, <3>1, <3>2
  <2>2. QED
    BY <1>0, <2>1
<1>5. \A i \in 1 .. n : at[i - 1] = s[i]
  BY <1>0, <1>2
<1>6. QED
  BY <1>3, <1>4, <1>5

-----------------------------------------------------------------------------
(* What Without keeps, and the place it gives to what it keeps.            *)
Kept(o, S) == {i \in DOMAIN o : o[i] \notin S}
Rank(o, S, i) == Cardinality({j \in Kept(o, S) : j <= i})

(* at leads to the places Without keeps, in their order, and misses none.  *)
Places(o, S, n, at) ==
    /\ at \in [1..n -> Kept(o, S)]
    /\ \A i \in Kept(o, S) : \E k \in 1..n : at[k] = i
    /\ \A j, k \in 1..n : j < k => at[j] < at[k]

LEMMA Ranks ==
  ASSUME NEW D, NEW o \in Seq(D), NEW S
  PROVE  /\ Kept(o, S) \subseteq 1 .. Len(o) /\ IsFiniteSet(Kept(o, S))
         /\ Cardinality(Kept(o, S)) \in Nat
         /\ \A i \in Kept(o, S) : Rank(o, S, i) \in 1 .. Cardinality(Kept(o, S))
         /\ \A i, j \in Kept(o, S) : i < j => Rank(o, S, i) < Rank(o, S, j)
<1> DEFINE kept == Kept(o, S)
           upto(i) == {j \in kept : j <= i}
<1>1. kept \subseteq 1 .. Len(o) /\ kept \subseteq Nat /\ Len(o) \in Nat
  BY DEF Kept
<1>2. IsFiniteSet(kept)
  <2>1. IsFiniteSet(1 .. Len(o)) /\ kept \in SUBSET (1 .. Len(o))
    BY <1>1, FS_Interval
  <2> HIDE DEF kept
  <2>2. QED
    BY <2>1, FS_Subset
<1>3. Cardinality(kept) \in Nat
  BY <1>2, FS_CardinalityType
<1>4. \A i : /\ IsFiniteSet(upto(i)) /\ Cardinality(upto(i)) <= Cardinality(kept)
             /\ Cardinality(upto(i)) \in Nat
  <2> TAKE i
  <2>1. upto(i) \in SUBSET kept
    OBVIOUS
  <2> HIDE DEF upto, kept
  <2>2. IsFiniteSet(upto(i)) /\ Cardinality(upto(i)) <= Cardinality(kept)
    BY <1>2, <2>1, FS_Subset
  <2>3. QED
    BY <2>2, FS_CardinalityType
<1>5. ASSUME NEW i \in kept PROVE Cardinality(upto(i)) # 0
  <2>1. i \in upto(i)
    BY <1>1
  <2> HIDE DEF upto
  <2>2. QED
    BY <1>4, <2>1, FS_EmptySet
<1>6. ASSUME NEW i \in kept, NEW j \in kept, i < j
      PROVE  Cardinality(upto(i)) < Cardinality(upto(j))
  <2>1. upto(i) \in SUBSET upto(j) /\ j \in upto(j) /\ j \notin upto(i)
    BY <1>1, <1>6
  <2> HIDE DEF upto, kept
  <2>2. Cardinality(upto(i)) <= Cardinality(upto(j)) /\ Cardinality(upto(i)) # Cardinality(upto(j))
    BY <1>4, <2>1, FS_Subset
  <2>3. QED
    BY <1>4, <2>2
<1>7. \A i : Rank(o, S, i) = Cardinality(upto(i))
  BY DEF Rank
<1> HIDE DEF upto
<1>8. QED
  BY <1>1, <1>2, <1>3, <1>4, <1>5, <1>6, <1>7

LEMMA PlacesExist ==
  ASSUME NEW D, NEW o \in Seq(D), NEW S
  PROVE  \E n \in Nat : \E at : Places(o, S, n, at)
<1> DEFINE kept == Kept(o, S)
           n == Cardinality(kept)
           r == [i \in kept |-> Rank(o, S, i)]
           at == [k \in 1 .. n |-> CHOOSE i \in kept : Rank(o, S, i) = k]
<1>1. /\ kept \subseteq 1 .. Len(o) /\ IsFiniteSet(kept) /\ n \in Nat
      /\ \A i \in kept : Rank(o, S, i) \in 1 .. n
      /\ \A i, j \in kept : i < j => Rank(o, S, i) < Rank(o, S, j)
  BY Ranks
<1>2. \A i, j \in kept : i \in Nat /\ j \in Nat /\ (i # j => i < j \/ j < i)
  BY <1>1
<1> HIDE DEF kept, n
<1>3. \A i, j \in kept : Rank(o, S, i) = Rank(o, S, j) => i = j
  BY <1>1, <1>2
<1>4. r \in Injection(kept, 1 .. n)
  BY <1>1, <1>3 DEF Injection, IsInjective
<1>5. Cardinality(1 .. n) = Cardinality(kept)
  BY <1>1, FS_Interval DEF n
<1>6. r \in Surjection(kept, 1 .. n)
  <2>1. IsFiniteSet(1 .. n)
    BY <1>1, FS_Interval
  <2> HIDE DEF r
  <2>2. QED
    BY <1>4, <1>5, <2>1, FS_Injection
<1>7. \A k \in 1 .. n : \E i \in kept : Rank(o, S, i) = k
  BY <1>6 DEF Surjection
<1>8. \A k \in 1 .. n : at[k] \in kept /\ Rank(o, S, at[k]) = k
  BY <1>7
<1>10. at \in [1 .. n -> kept]
  BY <1>8
<1> HIDE DEF at
<1>11. \A i \in kept : \E k \in 1 .. n : at[k] = i
  <2> TAKE i \in kept
  <2>1. Rank(o, S, i) \in 1 .. n
    BY <1>1
  <2>2. at[Rank(o, S, i)] = i
    BY <2>1, <1>8, <1>3
  <2>3. QED
    BY <2>1, <2>2
<1>12. \A j, k \in 1 .. n : j < k => at[j] < at[k]
  <2> TAKE j, k \in 1 .. n
  <2>1. at[j] \in kept /\ at[k] \in kept /\ Rank(o, S, at[j]) = j /\ Rank(o, S, at[k]) = k
    BY <1>8
  <2>2. at[k] < at[j] => k < j
    BY <2>1, <1>1
  <2>3. at[j] = at[k] => j = k
    BY <2>1
  <2>4. j < k => ~(k < j) /\ j # k
    BY <1>1
  <2>5. QED
    BY <2>1, <2>2, <2>3, <2>4, <1>2
<1>13. Places(o, S, n, at)
  BY <1>10, <1>11, <1>12 DEF kept, Places
<1>14. QED
  BY <1>1, <1>13

(* Such a way through the places is all there is to Without.               *)
LEMMA WithoutIs ==
  ASSUME NEW D, NEW o \in Seq(D), NEW S, NEW n \in Nat, NEW at, Places(o, S, n, at)
  PROVE  Without(o, S) = [k \in 1..n |-> o[at[k]]]
<1> DEFINE kept == Kept(o, S)
<1>1. /\ at \in [1..n -> kept]
      /\ \A i \in kept : \E k \in 1..n : at[k] = i
      /\ \A j, k \in 1..n : j < k => at[j] < at[k]
  BY DEF Places
<1>2. kept \subseteq Nat
  BY DEF Kept
<1>3. \A j, k \in 1..n : at[j] \in Nat /\ at[k] \in Nat /\ (at[j] = at[k] => j = k)
  <2> TAKE j, k \in 1..n
  <2>1. at[j] \in Nat /\ at[k] \in Nat
    BY <1>1, <1>2
  <2>2. j < k \/ k < j \/ j = k
    OBVIOUS
  <2>3. QED
    BY <1>1, <2>1, <2>2
<1>4. \A j, k \in 1..n : at[j] <= at[k] <=> j <= k
  <2> TAKE j, k \in 1..n
  <2>1. j < k \/ k < j \/ j = k
    OBVIOUS
  <2>2. QED
    BY <1>1, <1>3, <2>1
<1> HIDE DEF kept
<1>5. \A k \in 1..n : Rank(o, S, at[k]) = k
  <2> TAKE k \in 1..n
  <2> DEFINE upto == {j \in kept : j <= at[k]}
             f == [j \in 1..k |-> at[j]]
  <2>1. k \in Nat /\ 1..k \subseteq 1..n
    OBVIOUS
  <2>2. \A j \in 1..k : at[j] \in upto
    BY <1>1, <1>4, <2>1
  <2>3. f \in [1..k -> upto]
    BY <2>2
  <2>4. \A i \in upto : \E j \in 1..k : f[j] = i
    <3> TAKE i \in upto
    <3>1. PICK j \in 1..n : at[j] = i
      BY <1>1
    <3>2. j <= k
      BY <1>4, <3>1
    <3>3. j \in 1..k
      BY <3>2
    <3>4. QED
      BY <3>1, <3>3
  <2>5. \A i, j \in 1..k : f[i] = f[j] => i = j
    BY <1>3, <2>1
  <2> HIDE DEF upto, f
  <2>6. f \in Bijection(1..k, upto)
    BY <2>3, <2>4, <2>5 DEF Bijection, Injection, IsInjective, Surjection
  <2>7. Cardinality(upto) = k
    BY <2>1, <2>6, FS_CountingElements DEF ExistsBijection
  <2>8. QED
    BY <2>7 DEF Rank, upto, kept
<1>6. Cardinality(kept) = n
  <2>1. at \in Bijection(1..n, kept)
    BY <1>1, <1>3 DEF Bijection, Injection, IsInjective, Surjection
  <2>2. QED
    BY <2>1, FS_CountingElements DEF ExistsBijection
<1>7. \A k \in 1..n : (CHOOSE i \in kept : Rank(o, S, i) = k) = at[k]
  <2> TAKE k \in 1..n
  <2>1. at[k] \in kept /\ Rank(o, S, at[k]) = k
    BY <1>1, <1>5
  <2>2. ASSUME NEW i \in kept, Rank(o, S, i) = k PROVE i = at[k]
    <3>1. PICK j \in 1..n : at[j] = i
      BY <1>1
    <3>2. j = k
      BY <1>5, <2>2, <3>1
    <3>3. QED
      BY <3>1, <3>2
  <2>3. QED
    BY <2>1, <2>2
<1>8. Without(o, S) = [k \in 1..Cardinality(kept) |-> o[CHOOSE i \in kept : Rank(o, S, i) = k]]
  BY DEF Without, Kept, Rank, kept
<1>9. QED
  BY <1>6, <1>7, <1>8

(* Nothing is taken out of a sequence without anything.                    *)
LEMMA WithoutNobody ==
  ASSUME NEW n \in Nat, NEW s \in [1..n -> Chars]
  PROVE  Without(s, {}) = s
<1> DEFINE at == [k \in 1..n |-> k]
<1>1. s \in Seq(Chars) /\ Len(s) = n
  OBVIOUS
<1>2. Kept(s, {}) = 1..n
  BY <1>1 DEF Kept
<1>3. Places(s, {}, n, at)
  BY <1>2 DEF Places
<1>4. Without(s, {}) = [k \in 1..n |-> s[at[k]]]
  BY <1>1, <1>3, WithoutIs
<1>5. QED
  BY <1>4

(* To take one of S out first, and then the others, makes no difference.   *)
LEMMA OneByOne ==
  ASSUME NEW n \in Nat, NEW s \in [1..n -> Chars], NEW S, NEW k \in 1..n, s[k] \in S,
         \A i, j \in 1..n : s[i] = s[j] => i = j
  PROVE  Without(Shorter(s, n, k), S \ {s[k]}) = Without(s, S)
<1> DEFINE t == Shorter(s, n, k)
           R == S \ {s[k]}
           down(i) == IF i < k THEN i ELSE i - 1
<1>1. s \in Seq(Chars) /\ Len(s) = n
  OBVIOUS
<1>2. n - 1 \in Nat /\ t \in [1..(n - 1) -> Chars]
  BY DEF Shorter
<1>3. t \in Seq(Chars) /\ Len(t) = n - 1
  BY <1>2
<1>4. \A i \in 1..n : i # k => down(i) \in 1..(n - 1) /\ t[down(i)] = s[i]
  <2> TAKE i \in 1..n
  <2> HAVE i # k
  <2>1. down(i) \in 1..(n - 1)
    OBVIOUS
  <2>2. t[down(i)] = IF down(i) < k THEN s[down(i)] ELSE s[down(i) + 1]
    BY <2>1 DEF Shorter
  <2>3. QED
    BY <2>1, <2>2
<1>5. \A j \in 1..(n - 1) : \E i \in 1..n : i # k /\ down(i) = j
  <2> TAKE j \in 1..(n - 1)
  <2>1. CASE j < k
    <3>1. j \in 1..n /\ j # k /\ down(j) = j
      BY <2>1
    <3>2. QED
      BY <3>1
  <2>2. CASE ~(j < k)
    <3>1. j + 1 \in 1..n /\ j + 1 # k /\ down(j + 1) = j
      BY <2>2
    <3>2. QED
      BY <3>1
  <2>3. QED
    BY <2>1, <2>2
<1>6. \A i, j \in 1..n : i # k /\ j # k /\ i < j => down(i) < down(j)
  OBVIOUS
<1>7. \A i \in Kept(s, S) : i \in 1..n /\ i # k /\ s[i] \notin S
  BY <1>1 DEF Kept
<1>8. \A i \in Kept(s, S) : down(i) \in Kept(t, R)
  BY <1>3, <1>4, <1>7 DEF Kept
<1>9. \A j \in Kept(t, R) : \E i \in Kept(s, S) : down(i) = j
  <2> TAKE j \in Kept(t, R)
  <2>1. j \in 1..(n - 1) /\ t[j] \notin R
    BY <1>3 DEF Kept
  <2>2. PICK i \in 1..n : i # k /\ down(i) = j
    BY <1>5, <2>1
  <2>3. s[i] \notin R /\ s[i] # s[k]
    BY <1>4, <2>1, <2>2
  <2>4. i \in Kept(s, S)
    BY <1>1, <2>3 DEF Kept
  <2>5. QED
    BY <2>2, <2>4
<1>10. PICK m \in Nat : \E at : Places(s, S, m, at)
  BY <1>1, PlacesExist
<1>11. PICK at : Places(s, S, m, at)
  BY <1>10
<1> DEFINE bt == [j \in 1..m |-> down(at[j])]
<1>12. /\ at \in [1..m -> Kept(s, S)]
       /\ \A i \in Kept(s, S) : \E j \in 1..m : at[j] = i
       /\ \A i, j \in 1..m : i < j => at[i] < at[j]
  BY <1>11 DEF Places
<1> HIDE DEF t, R, down
<1>13. bt \in [1..m -> Kept(t, R)]
  BY <1>8, <1>12
<1>14. \A j \in Kept(t, R) : \E i \in 1..m : bt[i] = j
  <2> TAKE j \in Kept(t, R)
  <2>1. PICK i \in Kept(s, S) : down(i) = j
    BY <1>9
  <2>2. PICK l \in 1..m : at[l] = i
    BY <1>12
  <2>3. QED
    BY <2>1, <2>2
<1>15. \A i, j \in 1..m : i < j => bt[i] < bt[j]
  BY <1>6, <1>7, <1>12
<1>16. Places(t, R, m, bt)
  <2> HIDE DEF bt
  <2>1. QED
    BY <1>13, <1>14, <1>15 DEF Places
<1>17. Without(t, R) = [j \in 1..m |-> t[bt[j]]]
  BY <1>3, <1>16, WithoutIs
<1>18. Without(s, S) = [j \in 1..m |-> s[at[j]]]
  BY <1>1, <1>11, WithoutIs
<1>19. \A j \in 1..m : t[bt[j]] = s[at[j]]
  BY <1>4, <1>7, <1>12
<1>20. QED
  BY <1>17, <1>18, <1>19 DEF t, R

-----------------------------------------------------------------------------
(* The refinement.  The abstract order and the abstract opponents, without *)
(* what TLC needs to be quick.                                             *)
Order == Without(Threading, StillToStop)
Opponents == [c \in Chars |-> IF c \in StillToStop THEN NULL ELSE fighting[c]]

LEMMA MappedOrder ==
  ASSUME NEW t, NEW S
  PROVE  (CHOOSE o \in {Without(t1, S1) : t1 \in {t}, S1 \in {S}} : TRUE) = Without(t, S)
<1>1. {Without(t1, S1) : t1 \in {t}, S1 \in {S}} = {Without(t, S)}
  OBVIOUS
<1>2. QED
  BY <1>1

LEMMA ThreadingIs ==
  ASSUME NEW n \in Nat, NEW s \in [1..n -> Chars], Threads(s, n)
  PROVE  Threading = s
<1>1. n \in 0..Cardinality(Chars)
  BY ListBound DEF Threads
<1>2. QED
  <2>1. /\ first_fight = IF n = 0 THEN NULL ELSE s[1]
        /\ \A i \in 1..n : next_fight[s[i]] = IF i = n THEN NULL ELSE s[i + 1]
    BY DEF Threads
  <2>2. Linked(first_fight, next_fight) = s
    BY <1>1, <2>1, LinkedIs
  <2>3. QED
    BY <2>2 DEF Threading

LEMMA ThreadingIsNext ==
  ASSUME NEW n \in Nat, NEW s \in [1..n -> Chars], Threads(s, n)'
  PROVE  Threading' = s
<1>1. /\ \A i, j \in 1..n : s[i] = s[j] => i = j
      /\ first_fight' = IF n = 0 THEN NULL ELSE s[1]
      /\ \A i \in 1..n : next_fight'[s[i]] = IF i = n THEN NULL ELSE s[i + 1]
  BY DEF Threads
<1>2. n \in 0..Cardinality(Chars)
  BY <1>1, ListBound
<1>3. Linked(first_fight', next_fight') = s
  BY <1>1, <1>2, LinkedIs
<1>4. QED
  BY <1>3 DEF Threading

LEMMA SameReleased ==
  ASSUME NEW f, NEW ch, NEW fBoth
  PROVE  Abstract!Released(f, ch, fBoth) =
             {c \in Chars : f[c] # NULL /\ (c = ch \/ (fBoth /\ f[c] = ch))}
  BY DEF Abstract!Released

LEMMA SameWithout == \A o, S : Abstract!Without(o, S) = Without(o, S)
  BY Zenon DEF Abstract!Without, Without, Abstract!Cardinality, Cardinality

(* What the abstract specification says once the mapping is read as above. *)
LEMMA Mapped ==
         /\ Abstract!FightInit <=> Order = << >> /\ Opponents = [c \in Chars |-> NULL]
         /\ \A ch, victim \in Chars :
                Abstract!Engage(ch, victim) <=>
                    /\ Opponents[ch] = NULL
                    /\ Order' = Append(Order, ch)
                    /\ Opponents' = [Opponents EXCEPT ![ch] = victim]
         /\ \A ch \in Chars, fBoth \in BOOLEAN :
                Abstract!Disengage(ch, fBoth) <=>
                    LET out == Abstract!Released(Opponents, ch, fBoth)
                    IN  /\ Order' = Without(Order, out)
                        /\ Opponents' = [c \in Chars |-> IF c \in out THEN NULL ELSE Opponents[c]]
         /\ UNCHANGED Abstract!fightVars <=> UNCHANGED <<Order, Opponents>>
<1> DEFINE o == CHOOSE o \in {Without(s, S) : s \in {Threading}, S \in {StillToStop}} : TRUE
<1>1. o = Order
  BY MappedOrder DEF Order
<1>2. o' = Order'
  BY MappedOrder DEF Order
<1>3. Abstract!FightInit <=> Order = << >> /\ Opponents = [c \in Chars |-> NULL]
  BY <1>1 DEF Abstract!FightInit, Opponents
<1>4. ASSUME NEW ch \in Chars, NEW victim \in Chars
      PROVE  Abstract!Engage(ch, victim) <=>
                    /\ Opponents[ch] = NULL
                    /\ Order' = Append(Order, ch)
                    /\ Opponents' = [Opponents EXCEPT ![ch] = victim]
  BY <1>1, <1>2 DEF Abstract!Engage, Opponents
<1>5. ASSUME NEW ch \in Chars, NEW fBoth \in BOOLEAN
      PROVE  Abstract!Disengage(ch, fBoth) <=>
                    LET out == Abstract!Released(Opponents, ch, fBoth)
                    IN  /\ Order' = Without(Order, out)
                        /\ Opponents' = [c \in Chars |-> IF c \in out THEN NULL ELSE Opponents[c]]
  BY <1>1, <1>2, SameWithout DEF Abstract!Disengage, Abstract!Disengaged, Opponents
<1>6. UNCHANGED Abstract!fightVars <=> UNCHANGED <<Order, Opponents>>
  BY <1>1, <1>2 DEF Abstract!fightVars, Opponents
<1>7. QED
  BY <1>3, <1>4, <1>5, <1>6

LEMMA NobodyStill == sf_ch = NULL => StillToStop = {}
  BY DEF StillToStop

(* With nobody left to stop the abstract state is what the links say.      *)
LEMMA Plain ==
  ASSUME NEW n \in Nat, NEW s \in [1..n -> Chars], Threads(s, n), TypeOK,
         StillToStop = {}
  PROVE  Order = s /\ Opponents = fighting
<1>1. Order = s
  BY ThreadingIs, WithoutNobody DEF Order
<1>2. Opponents = fighting
  BY DEF Opponents, TypeOK
<1>3. QED
  BY <1>1, <1>2

LEMMA PlainNext ==
  ASSUME NEW n \in Nat, NEW s \in [1..n -> Chars], Threads(s, n)', TypeOK',
         StillToStop' = {}
  PROVE  Order' = s /\ Opponents' = fighting'
<1>1. Order' = Without(Threading', StillToStop')
  BY DEF Order
<1>2. Order' = s
  BY <1>1, ThreadingIsNext, WithoutNobody
<1>3. Opponents' = fighting'
  BY DEF Opponents, TypeOK
<1>4. QED
  BY <1>2, <1>3

LEMMA StartsAbstract == Init => Abstract!FightInit
<1> SUFFICES ASSUME Init PROVE Abstract!FightInit
  OBVIOUS
<1> DEFINE s == << >>
<1>1. s \in [1..0 -> Chars] /\ Threads(s, 0)
  BY DEF Init, Threads
<1>2. StillToStop = {}
  BY NobodyStill DEF Init
<1>3. Order = << >> /\ Opponents = fighting
  BY <1>1, <1>2, TypeInit, Plain
<1>4. QED
  BY <1>3, Mapped DEF Init

(* set_fighting takes up the fight.                                        *)
LEMMA SetFightingEngages ==
  ASSUME TypeOK, TypeOK', NEW n \in Nat, NEW s \in [1..n -> Chars], Threads(s, n),
         NEW ch \in Chars, NEW victim \in Chars, SetFighting(ch, victim)
  PROVE  Abstract!Engage(ch, victim)
<1>1. StillToStop = {} /\ StillToStop' = {}
  BY DEF SetFighting, frame, StillToStop
<1>2. Order = s /\ Opponents = fighting
  BY <1>1, Plain
<1>3. /\ Longer(s, n, ch) \in [1..(n + 1) -> Chars]
      /\ Threads(Longer(s, n, ch), n + 1)'
  BY SetFightingKeeps
<1>4. Order' = Longer(s, n, ch) /\ Opponents' = fighting'
  <2>1. n + 1 \in Nat
    OBVIOUS
  <2>2. QED
    BY <1>1, <1>3, <2>1, PlainNext
<1>5. Longer(s, n, ch) = Append(s, ch)
  <2>1. s \in Seq(Chars) /\ Len(s) = n
    OBVIOUS
  <2>2. /\ Append(s, ch) \in Seq(Chars) /\ Len(Append(s, ch)) = n + 1
        /\ \A i \in 1..n : Append(s, ch)[i] = s[i]
        /\ Append(s, ch)[n + 1] = ch
    BY <2>1, AppendProperties
  <2>3. Longer(s, n, ch) \in Seq(Chars) /\ Len(Longer(s, n, ch)) = n + 1
    BY <1>3
  <2>4. \A i \in 1..(n + 1) : Longer(s, n, ch)[i] = Append(s, ch)[i]
    BY <2>2 DEF Longer
  <2>5. QED
    BY <2>2, <2>3, <2>4, SeqEqual
<1>6. fighting[ch] = NULL /\ fighting' = [fighting EXCEPT ![ch] = victim]
  BY DEF SetFighting
<1>7. QED
  BY <1>2, <1>4, <1>5, <1>6, Mapped

(* The call of stop_fighting releases them all ...                         *)
LEMMA StopFightingDisengages ==
  ASSUME TypeOK, NEW n \in Nat, NEW s \in [1..n -> Chars], Threads(s, n),
         NEW ch \in Chars, NEW fBoth \in BOOLEAN, StopFighting(ch, fBoth)
  PROVE  Abstract!Disengage(ch, fBoth)
<1> DEFINE out == {c \in Chars : fighting[c] # NULL /\ (c = ch \/ (fBoth /\ fighting[c] = ch))}
<1>1. StillToStop = {} /\ ch # NULL
  BY NobodyStill, CharsAssumption DEF StopFighting
<1>2. Order = s /\ Opponents = fighting
  BY <1>1, Plain
<1>3. StillToStop' = out
  BY <1>1 DEF StopFighting, list, StillToStop, ToStop
<1>4. Threading' = Threading
  BY DEF StopFighting, list, Threading
<1>5. Threading = s
  BY ThreadingIs
<1>6. Order' = Without(Order, out)
  BY <1>2, <1>3, <1>4, <1>5 DEF Order
<1>7. Opponents' = [c \in Chars |-> IF c \in out THEN NULL ELSE fighting[c]]
  BY <1>3 DEF Opponents, StopFighting, list
<1>8. Abstract!Released(Opponents, ch, fBoth) = out
  BY <1>2, SameReleased
<1> HIDE DEF out
<1>9. QED
  BY <1>2, <1>6, <1>7, <1>8, Mapped

(* ... and the iterations that follow change nothing any more.             *)
LEMMA StopStepStutters ==
  ASSUME TypeOK, NEW n \in Nat, NEW s \in [1..n -> Chars], Threads(s, n),
         WalkAt(s, n), StopStep
  PROVE  UNCHANGED <<Order, Opponents>>
<1>1. CASE ~ToStop(fch)
  <2>1. UNCHANGED list /\ UNCHANGED <<sf_ch, sf_both>>
    BY <1>1 DEF StopStep
  <2>2. Threading' = Threading /\ StillToStop' = StillToStop
    BY <2>1 DEF list, Threading, StillToStop, ToStop
  <2>3. QED
    BY <2>1, <2>2 DEF Order, Opponents, list
<1>2. CASE ToStop(fch)
  <2>1. PICK k \in 1..n : fch = s[k] /\ \A i \in 1..(k - 1) : ~ToStop(s[i])
    BY DEF WalkAt, StopStep
  <2>2. /\ n - 1 \in Nat /\ Shorter(s, n, k) \in [1..(n - 1) -> Chars]
        /\ Threads(Shorter(s, n, k), n - 1)'
    BY <1>2, <2>1, UnlinkKeeps
  <2>3. fch \in Chars /\ fighting[fch] # NULL /\ sf_ch # NULL
    BY <2>1 DEF Threads, StopStep
  <2>4. fighting' = [fighting EXCEPT ![fch] = NULL] /\ UNCHANGED <<sf_ch, sf_both>>
    BY <1>2 DEF StopStep, Unlink
  <2>5. \A c \in Chars : fighting'[c] = IF c = fch THEN NULL ELSE fighting[c]
    BY <2>4 DEF TypeOK
  <2>6. fch \in StillToStop /\ StillToStop' = StillToStop \ {fch}
    BY <1>2, <2>3, <2>4, <2>5 DEF StillToStop, ToStop
  <2>7. Threading = s /\ Threading' = Shorter(s, n, k)
    BY <2>2, ThreadingIs, ThreadingIsNext
  <2>8. Without(Shorter(s, n, k), StillToStop \ {s[k]}) = Without(s, StillToStop)
    <3>1. s[k] \in StillToStop
      BY <2>1, <2>6
    <3>2. \A i, j \in 1..n : s[i] = s[j] => i = j
      BY DEF Threads
    <3>3. QED
      BY <3>1, <3>2, OneByOne
  <2>9. Order' = Order
    BY <2>1, <2>6, <2>7, <2>8 DEF Order
  <2>10. Opponents' = Opponents
    BY <2>5, <2>6 DEF Opponents
  <2>11. QED
    BY <2>9, <2>10
<1>3. QED
  BY <1>1, <1>2

LEMMA StopReturnStutters ==
  ASSUME TypeOK, NEW n \in Nat, NEW s \in [1..n -> Chars], Threads(s, n),
         WalkAt(s, n), StopReturn
  PROVE  UNCHANGED <<Order, Opponents>>
<1>1. \A i \in 1..n : ~ToStop(s[i])
  BY CharsAssumption DEF WalkAt, StopReturn
<1>2. \A c \in Chars : ToStop(c) => fighting[c] = NULL
  BY <1>1 DEF Threads
<1>3. StillToStop = {} /\ StillToStop' = {}
  BY <1>2 DEF StopReturn, StillToStop
<1>4. Threading' = Threading /\ fighting' = fighting
  BY DEF StopReturn, list, Threading
<1>5. QED
  BY <1>3, <1>4 DEF Order, Opponents

LEMMA StepsAbstract == IInv /\ [Next]_vars => [Abstract!FightNext]_(Abstract!fightVars)
<1> SUFFICES ASSUME IInv, [Next]_vars
             PROVE  Abstract!FightNext \/ UNCHANGED Abstract!fightVars
  OBVIOUS
<1>1. TypeOK /\ TypeOK'
  BY TypeNext DEF IInv
<1>n. PICK n \in Nat : \E s \in [1..n -> Chars] : Threads(s, n) /\ WalkAt(s, n)
  BY DEF IInv
<1>2. PICK s \in [1..n -> Chars] : Threads(s, n) /\ WalkAt(s, n)
  BY <1>n
<1>3. ASSUME NEW ch \in Chars, NEW victim \in Chars, SetFighting(ch, victim)
      PROVE  Abstract!FightNext
  BY <1>1, <1>2, <1>3, SetFightingEngages DEF Abstract!FightNext
<1>4. ASSUME NEW ch \in Chars, NEW fBoth \in BOOLEAN, StopFighting(ch, fBoth)
      PROVE  Abstract!FightNext
  BY <1>1, <1>2, <1>4, StopFightingDisengages DEF Abstract!FightNext
<1>5. CASE StopStep
  BY <1>1, <1>2, <1>5, StopStepStutters, Mapped
<1>6. CASE StopReturn
  BY <1>1, <1>2, <1>6, StopReturnStutters, Mapped
<1>7. CASE UNCHANGED vars
  <2>1. UNCHANGED list /\ UNCHANGED frame
    BY <1>7 DEF vars
  <2>2. Threading' = Threading /\ StillToStop' = StillToStop /\ fighting' = fighting
    BY <2>1 DEF list, frame, Threading, StillToStop, ToStop
  <2>3. QED
    BY <2>2, Mapped DEF Order, Opponents
<1>8. QED
  BY <1>3, <1>4, <1>5, <1>6, <1>7 DEF Next

(* The pointers implement the order of turns: however the calls come, what *)
(* a caller sees is that a new fighter is last and that a release takes out*)
(* at one stroke whom it names and leaves the others in their order.       *)
THEOREM ListImplementsOrder == Spec => ImplementsFightOrder
  BY StartsAbstract, StepsAbstract, Threaded, PTL
     DEF Spec, ImplementsFightOrder, Abstract!FightSpec
=============================================================================
