--------------------------- MODULE Objects_proofs ---------------------------
(***************************************************************************)
(* Proofs about Objects for any number of structures and characters: every *)
(* structure is in one place and in one list, what a character feels of    *)
(* what it carries is what a fresh count gives, and no step leaves more    *)
(* gold in purses and things together than there was.                      *)
(***************************************************************************)
EXTENDS Objects, SequenceTheorems, FiniteSetTheorems, WellFoundedInduction, TLAPS

(* A set of numbers has a least one.                                       *)
LEMMA Least ==
  ASSUME NEW S, S \subseteq Nat, S # {}
  PROVE  \E x \in S : \A y \in S : x <= y
<1>1. IsWellFoundedOn(OpToRel(<,Nat), Nat)
  BY NatLessThanWellFounded
<1>2. OpToRel(<,Nat) = {ss \in Nat \X Nat : ss[1] < ss[2]}
  BY DEF OpToRel
<1>3. \E x \in S : \A y \in S : ~(<<y, x>> \in OpToRel(<,Nat))
  BY <1>1, WFMin
<1>4. \E x \in S : \A y \in S : ~(<<y, x>> \in {ss \in Nat \X Nat : ss[1] < ss[2]})
  BY <1>2, <1>3, Zenon
<1>5. PICK x \in S : \A y \in S : ~(<<y, x>> \in {ss \in Nat \X Nat : ss[1] < ss[2]})
  BY <1>4
<1>6. ASSUME NEW y \in S PROVE x <= y
  <2>1. x \in Nat /\ y \in Nat
    OBVIOUS
  <2>2. ~(<<y, x>>[1] < <<y, x>>[2])
    BY <1>5, <2>1
  <2>3. QED
    BY <2>1, <2>2
<1>7. QED
  BY <1>6

(* A nonempty set of numbers up to n has a first, with no number before it. *)
LEMMA First ==
  ASSUME NEW n \in Nat, NEW B, B \subseteq 0 .. n, B # {}
  PROVE  \E b \in B : /\ b \in 0 .. n
                      /\ b # 0 => b \in 1 .. n /\ b - 1 \in 0 .. n /\ b - 1 \notin B
<1>1. B \subseteq Nat
  OBVIOUS
<1>2. PICK b \in B : \A k \in B : b <= k
  BY <1>1, Least
<1>3. b \in 0 .. n
  OBVIOUS
<1>4. b - 1 \notin B
  BY <1>2, <1>3
<1>5. QED
  BY <1>3, <1>4

(* Induction from 0 up to n, and recursion: what is defined step by step,  *)
(* each value from the one before it, exists and is where each step leads. *)
LEMMA Upward ==
  ASSUME NEW n \in Nat, NEW G, 0 \in G, \A k \in 1 .. n : k - 1 \in G => k \in G
  PROVE  \A k \in 0 .. n : k \in G
<1> DEFINE B == {k \in 0 .. n : k \notin G}
<1>1. ASSUME B # {} PROVE FALSE
  <2>0. B \subseteq 0 .. n
    OBVIOUS
  <2>1. PICK b \in B : /\ b \in 0 .. n
                       /\ b # 0 => b \in 1 .. n /\ b - 1 \in 0 .. n /\ b - 1 \notin B
    BY <1>1, <2>0, First
  <2>2. b # 0
    BY <2>1
  <2>3. b \in 1 .. n /\ b - 1 \in G
    BY <2>1, <2>2
  <2>4. QED
    BY <2>1, <2>3
<1>2. QED
  BY <1>1

Runs(j, F, D, a, n) == /\ j = [k \in 0 .. n |-> IF k = 0 THEN a ELSE F[k][j[k - 1]]]
                       /\ \A k \in 0 .. n : j[k] \in D[k]

(* A walk that steps by F from a stays in D, and is the one there is.       *)
LEMMA Recursion ==
  ASSUME NEW n \in Nat, NEW F, NEW D, NEW a, a \in D[0],
         \A k \in 1 .. n : \A x \in D[k - 1] : F[k][x] \in D[k]
  PROVE  \E j : Runs(j, F, D, a, n)
<1> DEFINE G == {m \in 0 .. n : \E j : Runs(j, F, D, a, m)}
<1>1. 0 \in G
  <2> DEFINE j == [k \in 0 .. 0 |-> a]
  <2>1. j = [k \in 0 .. 0 |-> IF k = 0 THEN a ELSE F[k][j[k - 1]]]
    OBVIOUS
  <2>2. Runs(j, F, D, a, 0)
    BY <2>1 DEF Runs
  <2>3. QED
    BY <2>2
<1>2. ASSUME NEW m \in 1 .. n, m - 1 \in G PROVE m \in G
  <2>1. PICK j : Runs(j, F, D, a, m - 1)
    BY <1>2
  <2>2. /\ \A k \in 0 .. m - 1 : j[k] = IF k = 0 THEN a ELSE F[k][j[k - 1]]
        /\ \A k \in 0 .. m - 1 : j[k] \in D[k]
    BY <2>1 DEF Runs
  <2> DEFINE i == [k \in 0 .. m |-> IF k = m THEN F[m][j[m - 1]] ELSE j[k]]
  <2>3. \A k \in 0 .. m - 1 : i[k] = j[k]
    OBVIOUS
  <2>4. i[m] = F[m][j[m - 1]] /\ m # 0 /\ m - 1 \in 0 .. m - 1
    OBVIOUS
  <2>5. DOMAIN i = 0 .. m /\ i = [k \in 0 .. m |-> i[k]]
    OBVIOUS
  <2> HIDE DEF i
  <2>6. ASSUME NEW k \in 0 .. m
        PROVE  i[k] = (IF k = 0 THEN a ELSE F[k][i[k - 1]]) /\ i[k] \in D[k]
    <3>1. CASE k = m
      <4>1. i[m - 1] = j[m - 1] /\ j[m - 1] \in D[m - 1]
        BY <2>2, <2>3, <2>4
      <4>2. F[m][j[m - 1]] \in D[m]
        BY <4>1
      <4>3. QED
        BY <2>4, <3>1, <4>1, <4>2
    <3>2. CASE k # m
      <4>1. k \in 0 .. m - 1 /\ (k # 0 => k - 1 \in 0 .. m - 1)
        BY <3>2
      <4>2. i[k] = j[k] /\ (k # 0 => i[k - 1] = j[k - 1])
        BY <2>3, <4>1
      <4>3. QED
        BY <2>2, <4>1, <4>2
    <3>3. QED
      BY <3>1, <3>2
  <2>7. i = [k \in 0 .. m |-> IF k = 0 THEN a ELSE F[k][i[k - 1]]]
    BY <2>5, <2>6
  <2>8. Runs(i, F, D, a, m)
    BY <2>6, <2>7 DEF Runs
  <2>9. m \in 0 .. n
    OBVIOUS
  <2>10. QED
    BY <2>8, <2>9
<1>3. \A k \in 1 .. n : k - 1 \in G => k \in G
  BY <1>2
<1> HIDE DEF G
<1>4. \A k \in 0 .. n : k \in G
  BY <1>1, <1>3, Upward
<1>5. n \in G
  BY <1>4
<1>6. QED
  BY <1>5 DEF G

-----------------------------------------------------------------------------
(* What is left of a list.                                                 *)
Kept(o, S) == {i \in DOMAIN o : o[i] \notin S}
Rank(o, S, i) == Cardinality({j \in Kept(o, S) : j <= i})

(* Ranks count up by one, from 1 to the number kept.                        *)
LEMMA Ranks ==
  ASSUME NEW D, NEW o \in Seq(D), NEW S
  PROVE  /\ Kept(o, S) \subseteq 1 .. Len(o) /\ IsFiniteSet(Kept(o, S))
         /\ Cardinality(Kept(o, S)) \in Nat
         /\ \A i \in Kept(o, S) : Rank(o, S, i) \in 1 .. Cardinality(Kept(o, S))
         /\ \A i, j \in Kept(o, S) : i < j => Rank(o, S, i) < Rank(o, S, j)
<1> DEFINE kept == Kept(o, S)
           upto(i) == {j \in kept : j <= i}
<1>1. kept \subseteq 1 .. Len(o) /\ kept \subseteq Nat /\ Len(o) \in Nat
  BY DEF Kept
<1>2. IsFiniteSet(kept)
  <2>1. IsFiniteSet(1 .. Len(o)) /\ kept \in SUBSET (1 .. Len(o))
    BY <1>1, FS_Interval
  <2> HIDE DEF kept
  <2>2. QED
    BY <2>1, FS_Subset
<1>3. Cardinality(kept) \in Nat
  BY <1>2, FS_CardinalityType
<1>4. \A i : /\ IsFiniteSet(upto(i)) /\ Cardinality(upto(i)) <= Cardinality(kept)
             /\ Cardinality(upto(i)) \in Nat
  <2> TAKE i
  <2>1. upto(i) \in SUBSET kept
    OBVIOUS
  <2> HIDE DEF upto, kept
  <2>2. IsFiniteSet(upto(i)) /\ Cardinality(upto(i)) <= Cardinality(kept)
    BY <1>2, <2>1, FS_Subset
  <2>3. QED
    BY <2>2, FS_CardinalityType
<1>5. ASSUME NEW i \in kept PROVE Cardinality(upto(i)) # 0
  <2>1. i \in upto(i)
    BY <1>1
  <2> HIDE DEF upto
  <2>2. QED
    BY <1>4, <2>1, FS_EmptySet
<1>6. ASSUME NEW i \in kept, NEW j \in kept, i < j
      PROVE  Cardinality(upto(i)) < Cardinality(upto(j))
  <2>1. upto(i) \in SUBSET upto(j) /\ j \in upto(j) /\ j \notin upto(i)
    BY <1>1, <1>6
  <2> HIDE DEF upto, kept
  <2>2. Cardinality(upto(i)) <= Cardinality(upto(j)) /\ Cardinality(upto(i)) # Cardinality(upto(j))
    BY <1>4, <2>1, FS_Subset
  <2>3. QED
    BY <1>4, <2>2
<1>7. \A i : Rank(o, S, i) = Cardinality(upto(i))
  BY DEF Rank
<1> HIDE DEF upto
<1>8. QED
  BY <1>1, <1>2, <1>3, <1>4, <1>5, <1>6, <1>7

(* at finds what Without keeps, in its order.                              *)
Keeping(o, S, n, at) ==
  /\ at \in [1 .. n -> Kept(o, S)]
  /\ Without(o, S) \in Seq(Objs) /\ Len(Without(o, S)) = n
  /\ \A k \in 1 .. n : Without(o, S)[k] = o[at[k]]
  /\ \A i \in Kept(o, S) : \E k \in 1 .. n : at[k] = i
  /\ \A j, k \in 1 .. n : j < k => at[j] < at[k]

(* Without keeps, in order, exactly what is not in S.                       *)
LEMMA WithoutKeeps ==
  ASSUME NEW o \in Seq(Objs), NEW S
  PROVE  \E n \in Nat : \E at : Keeping(o, S, n, at)
<1> DEFINE kept == Kept(o, S)
           n == Cardinality(kept)
           r == [i \in kept |-> Rank(o, S, i)]
           at == [k \in 1 .. n |-> CHOOSE i \in kept : Rank(o, S, i) = k]
<1>1. /\ kept \subseteq 1 .. Len(o) /\ IsFiniteSet(kept) /\ n \in Nat
      /\ \A i \in kept : Rank(o, S, i) \in 1 .. n
      /\ \A i, j \in kept : i < j => Rank(o, S, i) < Rank(o, S, j)
  BY Ranks
<1>2. \A i, j \in kept : i \in Nat /\ j \in Nat /\ (i # j => i < j \/ j < i)
  BY <1>1
<1> HIDE DEF kept, n
<1>3. \A i, j \in kept : Rank(o, S, i) = Rank(o, S, j) => i = j
  BY <1>1, <1>2
<1>4. r \in Injection(kept, 1 .. n)
  BY <1>1, <1>3 DEF Injection, IsInjective
<1>5. Cardinality(1 .. n) = Cardinality(kept)
  BY <1>1, FS_Interval DEF n
<1>6. r \in Surjection(kept, 1 .. n)
  <2>1. IsFiniteSet(1 .. n)
    BY <1>1, FS_Interval
  <2> HIDE DEF r
  <2>2. QED
    BY <1>4, <1>5, <2>1, FS_Injection
<1>7. \A k \in 1 .. n : \E i \in kept : Rank(o, S, i) = k
  BY <1>6 DEF Surjection
<1>8. \A k \in 1 .. n : at[k] \in kept /\ Rank(o, S, at[k]) = k
  BY <1>7
<1>9. Without(o, S) = [k \in 1 .. n |-> o[at[k]]]
  BY DEF Without, Kept, Rank, kept, n
<1>10. at \in [1 .. n -> kept]
  BY <1>8
<1> HIDE DEF at
<1>11. \A i \in kept : \E k \in 1 .. n : at[k] = i
  <2> TAKE i \in kept
  <2>1. Rank(o, S, i) \in 1 .. n
    BY <1>1
  <2>2. at[Rank(o, S, i)] = i
    BY <2>1, <1>8, <1>3
  <2>3. QED
    BY <2>1, <2>2
<1>12. \A j, k \in 1 .. n : j < k => at[j] < at[k]
  <2> TAKE j, k \in 1 .. n
  <2>1. at[j] \in kept /\ at[k] \in kept /\ Rank(o, S, at[j]) = j /\ Rank(o, S, at[k]) = k
    BY <1>8
  <2>2. at[k] < at[j] => k < j
    BY <2>1, <1>1
  <2>3. at[j] = at[k] => j = k
    BY <2>1
  <2>4. j < k => ~(k < j) /\ j # k
    BY <1>1
  <2>5. QED
    BY <2>1, <2>2, <2>3, <2>4, <1>2
<1>13. \A k \in 1 .. n : o[at[k]] \in Objs
  <2> TAKE k \in 1 .. n
  <2>1. at[k] \in 1 .. Len(o)
    BY <1>1, <1>10
  <2>2. QED
    BY <2>1
<1>14. /\ Without(o, S) \in Seq(Objs) /\ Len(Without(o, S)) = n
       /\ \A k \in 1 .. n : Without(o, S)[k] = o[at[k]]
  BY <1>1, <1>9, <1>13
<1>15. Keeping(o, S, n, at)
  BY <1>10, <1>11, <1>12, <1>14 DEF kept, Keeping
<1>16. QED
  BY <1>1, <1>15

(* A list without repetitions, and what it holds.                          *)
Listed(s) == s \in Seq(Objs) /\ IsInjective(s)

(* What a sequence of structures is made of.                                *)
LEMMA SeqIs ==
  ASSUME NEW s \in Seq(Objs)
  PROVE  /\ Len(s) \in Nat /\ DOMAIN s = 1 .. Len(s)
         /\ \A k \in 1 .. Len(s) : s[k] \in Objs /\ s[k] \in ToSet(s)
         /\ \A x \in ToSet(s) : x \in Objs /\ \E k \in 1 .. Len(s) : s[k] = x
         /\ ToSet(s) \subseteq Objs
         /\ \A x : Contains(s, x) <=> x \in ToSet(s)
  BY DEF ToSet, Contains

(* Taking things out of a list leaves the others, and doubles nothing.      *)
LEMMA WithoutIs ==
  ASSUME NEW s \in Seq(Objs), NEW S
  PROVE  /\ Without(s, S) \in Seq(Objs)
         /\ ToSet(Without(s, S)) = ToSet(s) \ S
         /\ IsInjective(s) => IsInjective(Without(s, S))
<1>1. PICK n \in Nat : \E at : Keeping(s, S, n, at)
  BY WithoutKeeps
<1>2. PICK at : Keeping(s, S, n, at)
  BY <1>1
<1> DEFINE w == Without(s, S)
<1>3. w \in Seq(Objs) /\ Len(w) = n /\ DOMAIN w = 1 .. n /\ DOMAIN s = 1 .. Len(s) /\ Len(s) \in Nat
  BY <1>2 DEF Keeping
<1>4. \A k \in 1 .. n : /\ at[k] \in 1 .. Len(s) /\ s[at[k]] \notin S /\ w[k] = s[at[k]]
  BY <1>2, <1>3 DEF Kept, Keeping
<1>5. \A i \in 1 .. Len(s) : s[i] \notin S => \E k \in 1 .. n : at[k] = i
  BY <1>2, <1>3 DEF Kept, Keeping
<1>6. \A j, k \in 1 .. n : j < k => at[j] < at[k]
  BY <1>2 DEF Keeping
<1> HIDE DEF w
<1>7. ToSet(w) = ToSet(s) \ S
  <2>1. ToSet(w) \subseteq ToSet(s) \ S
    BY <1>3, <1>4 DEF ToSet
  <2>2. ASSUME NEW i \in 1 .. Len(s), s[i] \notin S PROVE s[i] \in ToSet(w)
    BY <1>3, <1>4, <1>5, <2>2 DEF ToSet
  <2>3. QED
    BY <1>3, <2>1, <2>2 DEF ToSet
<1>8. ASSUME IsInjective(s) PROVE IsInjective(w)
  <2>1. ASSUME NEW j \in 1 .. n, NEW k \in 1 .. n, w[j] = w[k] PROVE j = k
    <3>1. at[j] = at[k] /\ at[j] \in Nat
      BY <1>3, <1>4, <1>8, <2>1 DEF IsInjective
    <3>2. ~(at[j] < at[k]) /\ ~(at[k] < at[j])
      BY <3>1
    <3>3. QED
      BY <1>6, <3>2
  <2>2. QED
    BY <1>3, <2>1 DEF IsInjective
<1>9. QED
  BY <1>3, <1>7, <1>8 DEF w

(* Taking out one thing that is in the list makes it one shorter.           *)
LEMMA WithoutOne ==
  ASSUME NEW s, Listed(s), NEW o \in ToSet(s)
  PROVE  Len(Without(s, {o})) = Len(s) - 1
<1> DEFINE kept == Kept(s, {o})
<1>1. s \in Seq(Objs) /\ Len(s) \in Nat /\ DOMAIN s = 1 .. Len(s)
  BY DEF Listed
<1>2. PICK i \in 1 .. Len(s) : s[i] = o
  BY <1>1 DEF ToSet
<1>3. kept = (1 .. Len(s)) \ {i}
  BY <1>1, <1>2 DEF Kept, Listed, IsInjective
<1>4. IsFiniteSet(1 .. Len(s)) /\ Cardinality(1 .. Len(s)) = Len(s)
  BY <1>1, FS_Interval
<1>5. Cardinality((1 .. Len(s)) \ {i}) = Cardinality(1 .. Len(s)) - 1
  BY <1>2, <1>4, FS_RemoveElement
<1>6. Cardinality(kept) \in Nat
  BY <1>1, Ranks
<1>7. Without(s, {o}) = [k \in 1 .. Cardinality(kept) |->
                           s[CHOOSE j \in kept : Rank(s, {o}, j) = k]]
  BY DEF Without, Kept, Rank
<1> HIDE DEF kept
<1>8. Len(Without(s, {o})) = Cardinality(kept)
  BY <1>6, <1>7
<1>9. QED
  BY <1>3, <1>4, <1>5, <1>8

(* Putting something new in front of a list.                                *)
LEMMA InFront ==
  ASSUME NEW s \in Seq(Objs), NEW o \in Objs
  PROVE  /\ <<o>> \o s \in Seq(Objs) /\ Len(<<o>> \o s) = Len(s) + 1
         /\ ToSet(<<o>> \o s) = ToSet(s) \cup {o}
         /\ IsInjective(s) /\ o \notin ToSet(s) => IsInjective(<<o>> \o s)
<1> DEFINE t == <<o>> \o s
<1>1. /\ t \in Seq(Objs) /\ Len(t) = Len(s) + 1 /\ Len(s) \in Nat
      /\ t[1] = o /\ \A k \in 1 .. Len(s) : t[k + 1] = s[k]
  OBVIOUS
<1> HIDE DEF t
<1>2. DOMAIN t = 1 .. Len(s) + 1 /\ DOMAIN s = 1 .. Len(s)
  BY <1>1
<1>3. \A k \in 1 .. Len(s) + 1 : k = 1 \/ (k - 1 \in 1 .. Len(s) /\ t[k] = s[k - 1])
  BY <1>1
<1>4. \A k \in 1 .. Len(s) : k + 1 \in 1 .. Len(s) + 1
  BY <1>1
<1>5. ToSet(t) = ToSet(s) \cup {o}
  <2>1. ASSUME NEW k \in 1 .. Len(s) + 1 PROVE t[k] \in ToSet(s) \cup {o}
    <3>1. CASE k = 1
      BY <1>1, <3>1
    <3>2. CASE k # 1
      BY <1>2, <1>3, <3>2 DEF ToSet
    <3>3. QED
      BY <3>1, <3>2
  <2>2. ToSet(s) \cup {o} \subseteq ToSet(t)
    <3>1. o \in ToSet(t)
      BY <1>1, <1>2 DEF ToSet
    <3>2. ASSUME NEW k \in 1 .. Len(s) PROVE s[k] \in ToSet(t)
      BY <1>1, <1>2, <1>4 DEF ToSet
    <3>3. QED
      BY <1>2, <3>1, <3>2 DEF ToSet
  <2>3. ToSet(t) \subseteq ToSet(s) \cup {o}
    BY <1>2, <2>1 DEF ToSet
  <2>4. QED
    BY <2>2, <2>3
<1>6. ASSUME IsInjective(s), o \notin ToSet(s) PROVE IsInjective(t)
  <2>1. \A k \in 1 .. Len(s) : s[k] # o
    BY <1>2, <1>6 DEF ToSet
  <2>2. ASSUME NEW j \in 1 .. Len(s) + 1, NEW k \in 1 .. Len(s) + 1, t[j] = t[k]
        PROVE  j = k
    <3>1. CASE j = 1 \/ k = 1
      BY <1>1, <1>3, <2>1, <2>2, <3>1
    <3>2. CASE j # 1 /\ k # 1
      <4>1. j - 1 \in 1 .. Len(s) /\ k - 1 \in 1 .. Len(s) /\ s[j - 1] = s[k - 1]
        BY <1>3, <2>2, <3>2
      <4>2. j - 1 = k - 1
        BY <1>2, <1>6, <4>1 DEF IsInjective
      <4>3. QED
        BY <1>1, <4>2
    <3>3. QED
      BY <3>1, <3>2
  <2>3. QED
    BY <1>2, <2>2 DEF IsInjective
<1>7. QED
  BY <1>1, <1>5, <1>6 DEF t

(* One list after another.                                                  *)
LEMMA Concat ==
  ASSUME NEW s \in Seq(Objs), NEW t \in Seq(Objs)
  PROVE  /\ s \o t \in Seq(Objs)
         /\ ToSet(s \o t) = ToSet(s) \cup ToSet(t)
         /\ IsInjective(s \o t) <=>
              IsInjective(s) /\ IsInjective(t) /\ ToSet(s) \cap ToSet(t) = {}
<1> DEFINE u == s \o t
           m == Len(s)
           n == Len(t)
<1>1. /\ u \in Seq(Objs) /\ Len(u) = m + n /\ m \in Nat /\ n \in Nat
      /\ \A k \in 1 .. m : u[k] = s[k]
      /\ \A k \in 1 .. n : u[m + k] = t[k]
  OBVIOUS
<1>0. DOMAIN s = 1 .. m /\ DOMAIN t = 1 .. n
  OBVIOUS
<1> HIDE DEF u, m, n
<1>2. DOMAIN u = 1 .. m + n
  BY <1>1
<1>3. \A k \in 1 .. m + n : k \in 1 .. m \/ (k - m \in 1 .. n /\ u[k] = t[k - m])
  <2> TAKE k \in 1 .. m + n
  <2>1. CASE k > m
    <3>1. k - m \in 1 .. n /\ m + (k - m) = k
      BY <1>1, <2>1
    <3>2. u[m + (k - m)] = t[k - m]
      BY <1>1, <3>1
    <3>3. QED
      BY <3>1, <3>2
  <2>2. QED
    BY <1>1, <2>1
<1>4. /\ \A k \in 1 .. m : k \in 1 .. m + n
      /\ \A k \in 1 .. n : m + k \in 1 .. m + n
  BY <1>1
<1>5. ToSet(u) = ToSet(s) \cup ToSet(t)
  <2>1. ToSet(u) \subseteq ToSet(s) \cup ToSet(t)
    BY <1>0, <1>1, <1>2, <1>3 DEF ToSet
  <2>2. ToSet(s) \subseteq ToSet(u)
    BY <1>0, <1>1, <1>2, <1>4 DEF ToSet
  <2>3. ASSUME NEW k \in 1 .. n PROVE t[k] \in ToSet(u)
    BY <1>1, <1>2, <1>4 DEF ToSet
  <2>4. QED
    BY <1>0, <2>1, <2>2, <2>3 DEF ToSet
<1>6. ASSUME IsInjective(s), IsInjective(t), ToSet(s) \cap ToSet(t) = {} PROVE IsInjective(u)
  <2>1. \A j \in 1 .. m, k \in 1 .. n : s[j] # t[k]
    BY <1>0, <1>6 DEF ToSet
  <2>2. ASSUME NEW j \in 1 .. m + n, NEW k \in 1 .. m + n, u[j] = u[k] PROVE j = k
    <3>1. CASE j \in 1 .. m /\ k \in 1 .. m
      BY <1>0, <1>1, <1>6, <2>2, <3>1 DEF IsInjective
    <3>2. CASE j \in 1 .. m /\ k \notin 1 .. m
      BY <1>1, <1>3, <2>1, <2>2, <3>2
    <3>3. CASE j \notin 1 .. m /\ k \in 1 .. m
      BY <1>1, <1>3, <2>1, <2>2, <3>3
    <3>4. CASE j \notin 1 .. m /\ k \notin 1 .. m
      <4>1. j - m \in 1 .. n /\ k - m \in 1 .. n /\ t[j - m] = t[k - m]
        BY <1>3, <2>2, <3>4
      <4>2. j - m = k - m
        BY <1>0, <1>6, <4>1 DEF IsInjective
      <4>3. QED
        BY <1>1, <4>2
    <3>5. QED
      BY <3>1, <3>2, <3>3, <3>4
  <2>3. QED
    BY <1>2, <2>2 DEF IsInjective
<1>7. ASSUME IsInjective(u) PROVE IsInjective(s) /\ IsInjective(t) /\ ToSet(s) \cap ToSet(t) = {}
  <2>0. \A j, k \in 1 .. m + n : u[j] = u[k] => j = k
    BY <1>2, <1>7 DEF IsInjective
  <2>1. IsInjective(s)
    BY <1>0, <1>1, <1>4, <2>0 DEF IsInjective
  <2>2. IsInjective(t)
    <3>1. ASSUME NEW j \in 1 .. n, NEW k \in 1 .. n, t[j] = t[k] PROVE j = k
      <4>1. u[m + j] = u[m + k] /\ m + j \in 1 .. m + n /\ m + k \in 1 .. m + n
        BY <1>1, <1>4, <3>1
      <4>2. m + j = m + k
        BY <2>0, <4>1
      <4>3. QED
        BY <1>1, <4>2
    <3>2. QED
      BY <1>0, <3>1 DEF IsInjective
  <2>3. ASSUME NEW j \in 1 .. m, NEW k \in 1 .. n, s[j] = t[k] PROVE FALSE
    <3>1. u[j] = u[m + k] /\ j \in 1 .. m + n /\ m + k \in 1 .. m + n
      BY <1>1, <1>4, <2>3
    <3>2. j = m + k
      BY <2>0, <3>1
    <3>3. QED
      BY <1>1, <3>2
  <2>4. QED
    BY <1>0, <2>1, <2>2, <2>3 DEF ToSet
<1>8. QED
  BY <1>1, <1>5, <1>6, <1>7 DEF u

(* A list backwards holds what it held.                                     *)
LEMMA Reversed ==
  ASSUME NEW s \in Seq(Objs)
  PROVE  /\ Reverse(s) \in Seq(Objs) /\ ToSet(Reverse(s)) = ToSet(s)
         /\ IsInjective(s) => IsInjective(Reverse(s))
<1> DEFINE n == Len(s)
           r == [i \in 1 .. n |-> s[(n - i) + 1]]
<1>0. n \in Nat /\ DOMAIN s = 1 .. n
  OBVIOUS
<1>1. \A i \in 1 .. n : (n - i) + 1 \in 1 .. n /\ (n - ((n - i) + 1)) + 1 = i
  BY <1>0
<1>2. r \in Seq(Objs) /\ DOMAIN r = 1 .. n
  BY <1>0, <1>1
<1>3. ToSet(r) = ToSet(s)
  <2>1. ToSet(r) \subseteq ToSet(s)
    BY <1>0, <1>1, <1>2 DEF ToSet
  <2>2. ASSUME NEW i \in 1 .. n PROVE s[i] \in ToSet(r)
    <3>1. r[(n - i) + 1] = s[i]
      BY <1>0, <1>1
    <3>2. QED
      BY <1>1, <1>2, <3>1 DEF ToSet
  <2>3. QED
    BY <1>0, <2>1, <2>2 DEF ToSet
<1>4. ASSUME IsInjective(s) PROVE IsInjective(r)
  <2>1. ASSUME NEW j \in 1 .. n, NEW k \in 1 .. n, r[j] = r[k] PROVE j = k
    <3>1. (n - j) + 1 = (n - k) + 1
      BY <1>0, <1>1, <1>4, <2>1 DEF IsInjective
    <3>2. QED
      BY <1>0, <3>1
  <2>2. QED
    BY <1>2, <2>1 DEF IsInjective
<1>5. QED
  BY <1>2, <1>3, <1>4 DEF Reverse

-----------------------------------------------------------------------------
(* Joined follows its steps: the recursion has a solution.                 *)
JoinStep(f, s, j, k) == IF k = 0 THEN << >> ELSE j[k - 1] \o f[s[k]]
(* The partial joins of f on s.                                             *)
Joins(f, s, j) == /\ j \in [0 .. Len(s) -> Seq(Objs)] /\ j[0] = << >>
                  /\ \A k \in 1 .. Len(s) : j[k] = j[k - 1] \o f[s[k]]

(* f gives sequences of structures on s.                                    *)
Gives(f, s) == \A y \in ToSet(s) : f[y] \in Seq(Objs)

(* What that says of the k-th element.                                      *)
LEMMA GivesIs ==
  ASSUME NEW f, NEW s \in Seq(Objs), Gives(f, s)
  PROVE  \A k \in 1 .. Len(s) : f[s[k]] \in Seq(Objs)
  BY SeqIs DEF Gives

(* Joined is a sequence that holds what the joined sequences hold.          *)
LEMMA JoinedIs ==
  ASSUME NEW f, NEW s \in Seq(Objs), Gives(f, s)
  PROVE  \E j : Joins(f, s, j) /\ Joined(f, s) = j[Len(s)]
<1> DEFINE n == Len(s)
           j == CHOOSE x : x = [k \in 0 .. n |-> JoinStep(f, s, x, k)]
<1>0. n \in Nat /\ \A k \in 1 .. n : f[s[k]] \in Seq(Objs)
  BY GivesIs
<1> DEFINE D == [k \in 0 .. n |-> Seq(Objs)]
           F == [k \in 1 .. n |-> [x \in Seq(Objs) |-> x \o f[s[k]]]]
<1>1. PICK i : Runs(i, F, D, << >>, n)
  <2>1. << >> \in D[0]
    BY <1>0
  <2>2. ASSUME NEW k \in 1 .. n, NEW x \in D[k - 1] PROVE F[k][x] \in D[k]
    <3>0. k \in 1 .. n /\ k \in 0 .. n /\ k - 1 \in 0 .. n
      BY <1>0
    <3>a. f[s[k]] \in Seq(Objs)
      BY <1>0
    <3>b. D[k] = Seq(Objs) /\ D[k - 1] = Seq(Objs)
      BY <3>0
    <3>c. x \in Seq(Objs)
      BY <3>b
    <3>d. F[k][x] = x \o f[s[k]]
      BY <3>0, <3>c
    <3>1. x \in Seq(Objs) /\ f[s[k]] \in Seq(Objs) /\ F[k][x] = x \o f[s[k]] /\ D[k] = Seq(Objs)
      BY <3>a, <3>b, <3>c, <3>d
    <3>2. QED
      BY <3>1, Concat
  <2> HIDE DEF F, D, n
  <2>3. QED
    BY <1>0, <2>1, <2>2, Recursion
<1>2. i = [k \in 0 .. n |-> JoinStep(f, s, i, k)]
  <2>1. /\ i = [k \in 0 .. n |-> IF k = 0 THEN << >> ELSE F[k][i[k - 1]]]
        /\ \A k \in 0 .. n : i[k] \in D[k]
    BY <1>1 DEF Runs
  <2>2. ASSUME NEW k \in 0 .. n
        PROVE  (IF k = 0 THEN << >> ELSE F[k][i[k - 1]]) = JoinStep(f, s, i, k)
    <3>1. CASE k = 0
      BY <3>1 DEF JoinStep
    <3>2. CASE k # 0
      <4>1. k \in 1 .. n /\ k - 1 \in 0 .. n
        BY <1>0, <3>2
      <4>2. i[k - 1] \in Seq(Objs)
        BY <2>1, <4>1
      <4>3. F[k][i[k - 1]] = i[k - 1] \o f[s[k]]
        BY <4>1, <4>2
      <4>4. QED
        BY <3>2, <4>3 DEF JoinStep
    <3>3. QED
      BY <3>1, <3>2
  <2> HIDE DEF F, D, n
  <2>3. QED
    BY <2>1, <2>2
<1> HIDE DEF F, D
<1>3. j = [k \in 0 .. n |-> JoinStep(f, s, j, k)]
  BY <1>2
<1>4. Joined(f, s) = j[n]
  BY DEF Joined, JoinStep
<1> HIDE DEF j, n
<1>5. \A k \in 0 .. n : j[k] = JoinStep(f, s, j, k)
  BY <1>3
<1>6. j[0] = << >> /\ \A k \in 1 .. n : j[k] = j[k - 1] \o f[s[k]]
  <2>1. j[0] = << >>
    BY <1>0, <1>5 DEF JoinStep
  <2>2. ASSUME NEW k \in 1 .. n PROVE j[k] = j[k - 1] \o f[s[k]]
    <3>1. k \in 0 .. n /\ k # 0
      BY <1>0
    <3>2. QED
      BY <1>5, <3>1 DEF JoinStep
  <2>3. QED
    BY <2>1, <2>2
<1>7. \A k \in 0 .. n : j[k] \in Seq(Objs)
  <2> DEFINE B == {k \in 0 .. n : j[k] \notin Seq(Objs)}
  <2>1. ASSUME B # {} PROVE FALSE
    <3>0. B \subseteq 0 .. n
      OBVIOUS
    <3>1. PICK b \in B : /\ b \in 0 .. n
                         /\ b # 0 => b \in 1 .. n /\ b - 1 \in 0 .. n /\ b - 1 \notin B
      BY <1>0, <2>1, <3>0, First
    <3>2. b # 0
      <4>1. << >> \in Seq(Objs)
        OBVIOUS
      <4>2. QED
        BY <1>6, <3>1, <4>1
    <3>3. b \in 1 .. n /\ b - 1 \in 0 .. n /\ b - 1 \notin B
      BY <1>0, <3>1, <3>2
    <3>4. j[b - 1] \in Seq(Objs) /\ f[s[b]] \in Seq(Objs)
      BY <1>0, <3>3
    <3>a. j[b - 1] \o f[s[b]] \in Seq(Objs)
      BY <3>4, Concat
    <3>5. j[b] \in Seq(Objs)
      BY <1>6, <3>3, <3>a
    <3>6. QED
      BY <3>1, <3>5
  <2>2. QED
    BY <2>1
<1>8. j \in [0 .. n -> Seq(Objs)]
  BY <1>3, <1>7
<1>9. Joins(f, s, j) /\ Joined(f, s) = j[Len(s)]
  BY <1>4, <1>6, <1>8 DEF Joins, n
<1>10. QED
  BY <1>9

(* What it joins, and when nothing is repeated in it.                      *)
LEMMA JoinedHolds ==
  ASSUME NEW f, NEW s \in Seq(Objs), Gives(f, s)
  PROVE  /\ Joined(f, s) \in Seq(Objs)
         /\ ToSet(Joined(f, s)) = UNION {ToSet(f[y]) : y \in ToSet(s)}
         /\ /\ IsInjective(s)
            /\ \A y \in ToSet(s) : IsInjective(f[y])
            /\ \A y, z \in ToSet(s) : y # z => ToSet(f[y]) \cap ToSet(f[z]) = {}
            => IsInjective(Joined(f, s))
<1> DEFINE n == Len(s)
           before(k) == UNION {ToSet(f[s[i]]) : i \in 1 .. k}
<1>0. n \in Nat /\ \A k \in 1 .. n : s[k] \in Objs /\ f[s[k]] \in Seq(Objs)
  BY GivesIs
<1>1. PICK j : Joins(f, s, j) /\ Joined(f, s) = j[n]
  BY JoinedIs
<1>2. /\ j \in [0 .. n -> Seq(Objs)] /\ j[0] = << >>
      /\ \A k \in 1 .. n : j[k] = j[k - 1] \o f[s[k]]
  BY <1>1 DEF Joins
<1>3. \A k \in 0 .. n : ToSet(j[k]) = before(k)
  <2> DEFINE B == {k \in 0 .. n : ToSet(j[k]) # before(k)}
  <2>1. ASSUME B # {} PROVE FALSE
    <3>0. B \subseteq 0 .. n
      OBVIOUS
    <3>1. PICK b \in B : /\ b \in 0 .. n
                         /\ b # 0 => b \in 1 .. n /\ b - 1 \in 0 .. n /\ b - 1 \notin B
      BY <1>0, <2>1, <3>0, First
    <3>2. b # 0
      <4>1. ToSet(<< >>) = {} /\ before(0) = {}
        BY DEF ToSet
      <4>2. QED
        BY <1>2, <3>1, <4>1
    <3>3. b \in 1 .. n /\ b - 1 \in 0 .. n /\ b - 1 \notin B
      BY <1>0, <3>1, <3>2
    <3>4. ToSet(j[b - 1]) = before(b - 1)
      BY <3>3
    <3>5. 1 .. b = (1 .. b - 1) \cup {b}
      BY <3>3
    <3>6. before(b) = before(b - 1) \cup ToSet(f[s[b]])
      BY <3>5
    <3>a. j[b - 1] \in Seq(Objs) /\ f[s[b]] \in Seq(Objs) /\ j[b] = j[b - 1] \o f[s[b]]
      BY <1>0, <1>2, <3>3
    <3>7. ToSet(j[b]) = ToSet(j[b - 1]) \cup ToSet(f[s[b]])
      BY <3>a, Concat
    <3> HIDE DEF before
    <3>8. QED
      BY <3>1, <3>4, <3>6, <3>7
  <2>2. QED
    BY <2>1
<1>4. ToSet(j[n]) = UNION {ToSet(f[y]) : y \in ToSet(s)}
  <2>1. ToSet(s) = {s[i] : i \in 1 .. n}
    BY DEF ToSet
  <2>2. UNION {ToSet(f[y]) : y \in ToSet(s)} = before(n)
    BY <2>1
  <2> HIDE DEF before
  <2>3. n \in 0 .. n
    BY <1>0
  <2>4. ToSet(j[n]) = before(n)
    BY <1>3, <2>3
  <2>5. QED
    BY <2>2, <2>4
<1>5. ASSUME /\ IsInjective(s)
             /\ \A y \in ToSet(s) : IsInjective(f[y])
             /\ \A y, z \in ToSet(s) : y # z => ToSet(f[y]) \cap ToSet(f[z]) = {}
      PROVE  IsInjective(j[n])
  <2> DEFINE B == {k \in 0 .. n : ~IsInjective(j[k])}
  <2>1. ASSUME B # {} PROVE FALSE
    <3>0. B \subseteq 0 .. n
      OBVIOUS
    <3>1. PICK b \in B : /\ b \in 0 .. n
                         /\ b # 0 => b \in 1 .. n /\ b - 1 \in 0 .. n /\ b - 1 \notin B
      BY <1>0, <2>1, <3>0, First
    <3>2. b # 0
      <4>1. IsInjective(<< >>)
        BY DEF IsInjective
      <4>2. QED
        BY <1>2, <3>1, <4>1
    <3>3. b \in 1 .. n /\ b - 1 \in 0 .. n /\ b - 1 \notin B
      BY <1>0, <3>1, <3>2
    <3>4. IsInjective(j[b - 1]) /\ j[b - 1] \in Seq(Objs) /\ ToSet(j[b - 1]) = before(b - 1)
      BY <1>2, <1>3, <3>3
    <3>5. s[b] \in ToSet(s) /\ IsInjective(f[s[b]]) /\ f[s[b]] \in Seq(Objs)
      BY <1>0, <1>5, <3>3, SeqIs
    <3>6. before(b - 1) \cap ToSet(f[s[b]]) = {}
      <4>1. ASSUME NEW i \in 1 .. b - 1 PROVE ToSet(f[s[i]]) \cap ToSet(f[s[b]]) = {}
        <5>1. i \in 1 .. n /\ i # b
          BY <1>0, <3>3
        <5>2. s[i] # s[b] /\ s[i] \in ToSet(s)
          BY <1>5, <3>3, <5>1, SeqIs DEF IsInjective
        <5>3. QED
          BY <1>5, <3>5, <5>2
      <4>2. QED
        BY <4>1
    <3> HIDE DEF before
    <3>7. IsInjective(j[b - 1] \o f[s[b]])
      BY <3>4, <3>5, <3>6, Concat
    <3>8. QED
      BY <1>2, <3>1, <3>3, <3>7
  <2>2. QED
    BY <1>0, <2>1
<1>6. Joined(f, s) \in Seq(Objs)
  BY <1>0, <1>1, <1>2
<1>7. QED
  BY <1>1, <1>4, <1>5, <1>6

(* Joined looks at no value of f but those on s.                            *)
LEMMA JoinedSame ==
  ASSUME NEW f, NEW g, NEW s \in Seq(Objs), Gives(f, s), Gives(g, s),
         \A y \in ToSet(s) : f[y] = g[y]
  PROVE  Joined(f, s) = Joined(g, s)
<1> DEFINE n == Len(s)
<1>0. n \in Nat /\ \A k \in 1 .. n : s[k] \in ToSet(s)
  BY SeqIs
<1>1. PICK j : Joins(f, s, j) /\ Joined(f, s) = j[n]
  BY JoinedIs
<1>2. PICK i : Joins(g, s, i) /\ Joined(g, s) = i[n]
  BY JoinedIs
<1> DEFINE B == {k \in 0 .. n : j[k] # i[k]}
<1>3. ASSUME B # {} PROVE FALSE
  <2>0. B \subseteq 0 .. n
    OBVIOUS
  <2>1. PICK b \in B : /\ b \in 0 .. n
                       /\ b # 0 => b \in 1 .. n /\ b - 1 \in 0 .. n /\ b - 1 \notin B
    BY <1>0, <1>3, <2>0, First
  <2>2. b # 0
    BY <1>1, <1>2, <2>1 DEF Joins
  <2>3. b \in 1 .. n /\ b - 1 \in 0 .. n /\ b - 1 \notin B
    BY <1>0, <2>1, <2>2
  <2>4. j[b - 1] = i[b - 1] /\ f[s[b]] = g[s[b]]
    BY <1>0, <2>3
  <2>5. j[b] = i[b]
    BY <1>1, <1>2, <2>3, <2>4 DEF Joins
  <2>6. QED
    BY <2>1, <2>5
<1>4. n \in 0 .. n
  BY <1>0
<1>5. QED
  BY <1>1, <1>2, <1>3, <1>4

-----------------------------------------------------------------------------
(* The things that lie in one another.  Grounded: nobody is inside itself; *)
(* any set of things has one with none of them directly in it.             *)
Grounded(g) == \A S \in SUBSET Objs : S # {} => \E x \in S : \A y \in S : g.place[y] # x
Agrees(g) == /\ g.contents \in [Places -> Seq(Objs)]
             /\ g.place \in [Objs -> Places \cup {NULL}]
             /\ \A p \in Places : IsInjective(g.contents[p])
             /\ \A p \in Places : ToSet(g.contents[p]) = {o \in Objs : g.place[o] = p}
Forest(g) == Agrees(g) /\ Grounded(g)
Under(g, x) == ToSet(Doomed(g, x))

(* Structures, characters, the room and NULL are different things.          *)
LEMMA Apart ==
  /\ Objs \subseteq Places /\ Chars \subseteq Places /\ Room \in Places
  /\ NULL \notin Places /\ Room \notin Objs /\ Room \notin Chars
  /\ \A c \in Chars : c \notin Objs /\ c # Room /\ c # NULL
  /\ \A o \in Objs : o # NULL /\ o # Room /\ o \notin Chars
  /\ Objs \subseteq Nat /\ IsFiniteSet(Objs) /\ IsFiniteSet(SUBSET Objs)
<1>1. MaxObjs \in Nat
  BY ObjectsAssumption
<1>2. IsFiniteSet(Objs)
  BY <1>1, FS_Interval DEF Objs
<1>3. /\ NULL \notin Objs /\ Room \notin Objs /\ \A c \in Chars : c \notin Objs
      /\ NULL \notin Chars /\ NULL # Room /\ Room \notin Chars
  BY ObjectsAssumption DEF Objs
<1>4. Objs \subseteq Nat
  BY DEF Objs
<1>5. IsFiniteSet(SUBSET Objs)
  BY <1>2, FS_SUBSET
<1>6. QED
  BY <1>2, <1>3, <1>4, <1>5 DEF Places

(* What the list of a place says when lists and pointers agree.             *)
LEMMA Contents ==
  ASSUME NEW g, Agrees(g), NEW p \in Places
  PROVE  /\ g.contents[p] \in Seq(Objs) /\ IsInjective(g.contents[p])
         /\ \A y : y \in ToSet(g.contents[p]) <=> y \in Objs /\ g.place[y] = p
  BY DEF Agrees

(* The same for what is directly inside a structure.                        *)
LEMMA Children ==
  ASSUME NEW g, Forest(g), NEW x \in Objs
  PROVE  /\ g.contents[x] \in Seq(Objs) /\ IsInjective(g.contents[x])
         /\ \A y \in ToSet(g.contents[x]) : y \in Objs /\ g.place[y] = x
         /\ \A y \in Objs : g.place[y] = x => y \in ToSet(g.contents[x])
<1>1. x \in Places /\ Agrees(g)
  BY Apart DEF Forest
<1>2. QED
  BY <1>1, Contents

(* A tree is freed from the inside out: the recursion has a solution.      *)
FreeStep(g, f, x) == Joined(f, g.contents[x]) \o <<x>>
Solves(g, f, C) ==
  /\ f \in [Objs -> Seq(Objs)]
  /\ \A x \in C : ToSet(g.contents[x]) \subseteq C
  /\ \A x \in C : f[x] = FreeStep(g, f, x)

(* The step of Doomed looks only one level down.                            *)
LEMMA FreeStepIs ==
  ASSUME NEW g, Agrees(g), NEW x \in Objs, NEW f, Gives(f, g.contents[x])
  PROVE  /\ FreeStep(g, f, x) \in Seq(Objs)
         /\ ToSet(FreeStep(g, f, x)) = {x} \cup UNION {ToSet(f[y]) : y \in ToSet(g.contents[x])}
<1>1. g.contents[x] \in Seq(Objs)
  BY Apart, Contents
<1>2. <<x>> \in Seq(Objs) /\ ToSet(<<x>>) = {x}
  BY DEF ToSet
<1>3. /\ Joined(f, g.contents[x]) \in Seq(Objs)
      /\ ToSet(Joined(f, g.contents[x])) = UNION {ToSet(f[y]) : y \in ToSet(g.contents[x])}
  BY <1>1, JoinedHolds
<1>4. QED
  BY <1>2, <1>3, Concat DEF FreeStep

(* A solution of Doomed on a set reaches one structure further.             *)
LEMMA SolvesMore ==
  ASSUME NEW g, Forest(g), NEW f, NEW C \in SUBSET Objs, Solves(g, f, C), C # Objs
  PROVE  \E x \in Objs \ C : \E i : Solves(g, i, C \cup {x})
<1>1. PICK x \in Objs \ C : \A y \in Objs \ C : g.place[y] # x
  <2>1. Objs \ C # {} /\ Objs \ C \in SUBSET Objs
    OBVIOUS
  <2>2. QED
    BY <2>1 DEF Forest, Grounded
<1>2. ToSet(g.contents[x]) \subseteq C
  BY <1>1, Children
<1> DEFINE i == [f EXCEPT ![x] = FreeStep(g, f, x)]
<1>3. f \in [Objs -> Seq(Objs)] /\ FreeStep(g, f, x) \in Seq(Objs)
  <2>1. Gives(f, g.contents[x])
    BY <1>2, Apart, Contents DEF Solves, Gives, Forest
  <2>2. QED
    BY <2>1, FreeStepIs DEF Solves, Forest
<1>4. /\ i \in [Objs -> Seq(Objs)] /\ \A y \in C : i[y] = f[y]
      /\ i[x] = FreeStep(g, f, x)
  BY <1>3
<1> HIDE DEF i
<1>5. ASSUME NEW z \in C \cup {x} PROVE i[z] = FreeStep(g, i, z)
  <2>1. ToSet(g.contents[z]) \subseteq C /\ i[z] = FreeStep(g, f, z)
    BY <1>2, <1>4 DEF Solves
  <2>2. g.contents[z] \in Seq(Objs)
    BY Children
  <2>3. \A y \in ToSet(g.contents[z]) : f[y] = i[y]
    BY <1>4, <2>1
  <2>a. Gives(f, g.contents[z]) /\ Gives(i, g.contents[z])
    BY <1>3, <1>4, <2>2, SeqIs DEF Gives
  <2>4. Joined(f, g.contents[z]) = Joined(i, g.contents[z])
    BY <2>a, <2>2, <2>3, JoinedSame
  <2>5. QED
    BY <2>1, <2>4 DEF FreeStep
<1>6. \A z \in C \cup {x} : ToSet(g.contents[z]) \subseteq C \cup {x}
  BY <1>2 DEF Solves
<1>7. Solves(g, i, C \cup {x})
  BY <1>4, <1>5, <1>6 DEF Solves
<1>8. QED
  BY <1>1, <1>7

(* In a forest the recursion of Doomed has a solution.                      *)
LEMMA DoomedExists ==
  ASSUME NEW g, Forest(g)
  PROVE  \E f : Solves(g, f, Objs)
<1> DEFINE W == {C \in SUBSET Objs : \E f : Solves(g, f, C)}
           N == {Cardinality(Objs \ C) : C \in W}
<1>1. \A C \in SUBSET Objs : IsFiniteSet(Objs \ C) /\ Cardinality(Objs \ C) \in Nat
  BY Apart, FS_Difference, FS_CardinalityType
<1>2. W # {} /\ N # {} /\ N \subseteq Nat
  <2> DEFINE f == [x \in Objs |-> << >>]
  <2>1. f \in [Objs -> Seq(Objs)]
    OBVIOUS
  <2>2. Solves(g, f, {})
    BY <2>1 DEF Solves
  <2>3. {} \in W
    BY <2>2
  <2>4. QED
    BY <1>1, <2>3
<1>3. PICK n \in N : \A m \in N : n <= m
  BY <1>2, Least
<1>4. PICK C \in W : n = Cardinality(Objs \ C)
  BY <1>3
<1>5. PICK f : Solves(g, f, C)
  BY <1>4
<1>6. CASE C # Objs
  <2>1. PICK x \in Objs \ C : \E i : Solves(g, i, C \cup {x})
    BY <1>5, <1>6, SolvesMore
  <2>2. C \cup {x} \in W
    BY <2>1
  <2>3. Objs \ (C \cup {x}) = (Objs \ C) \ {x}
    OBVIOUS
  <2>4. Cardinality((Objs \ C) \ {x}) = Cardinality(Objs \ C) - 1
    BY <1>1, FS_RemoveElement
  <2>5. Cardinality(Objs \ (C \cup {x})) \in N
    BY <2>2
  <2>6. Cardinality(Objs \ (C \cup {x})) = n - 1 /\ n \in Nat
    BY <1>1, <1>4, <2>3, <2>4
  <2> HIDE DEF W, N
  <2>7. n <= n - 1
    BY <1>3, <2>5, <2>6
  <2>8. QED
    BY <2>6, <2>7
<1>7. QED
  BY <1>5, <1>6

(* And Doomed is that solution.                                             *)
LEMMA DoomedIs ==
  ASSUME NEW g, Forest(g)
  PROVE  \E f : Solves(g, f, Objs) /\ \A x \in Objs : Doomed(g, x) = f[x]
<1> DEFINE f == CHOOSE k : k = [x \in Objs |-> FreeStep(g, k, x)]
<1>1. PICK i : Solves(g, i, Objs)
  BY DoomedExists
<1>2. i = [x \in Objs |-> FreeStep(g, i, x)]
  BY <1>1 DEF Solves
<1>3. f = [x \in Objs |-> FreeStep(g, f, x)]
  BY <1>2
<1>4. ASSUME NEW x \in Objs PROVE Doomed(g, x) = f[x]
  BY DEF Doomed, FreeStep
<1> HIDE DEF f
<1>5. \A x \in Objs : f[x] = FreeStep(g, f, x)
  BY <1>3
<1> DEFINE B == {x \in Objs : f[x] \notin Seq(Objs)}
<1>6. ASSUME B # {} PROVE FALSE
  <2>1. PICK x \in B : \A y \in B : g.place[y] # x
    BY <1>6 DEF Forest, Grounded
  <2>2. Gives(f, g.contents[x])
    BY <2>1, Children DEF Gives
  <2>3. f[x] \in Seq(Objs)
    BY <1>5, <2>2, FreeStepIs DEF Forest
  <2>4. QED
    BY <2>1, <2>3
<1>7. f \in [Objs -> Seq(Objs)]
  BY <1>3, <1>6
<1>8. \A x \in Objs : ToSet(g.contents[x]) \subseteq Objs
  BY Children
<1>9. Solves(g, f, Objs)
  BY <1>5, <1>7, <1>8 DEF Solves
<1>10. QED
  BY <1>4, <1>9

-----------------------------------------------------------------------------
(* What is under a thing is the least set that holds it and, of whatever it*)
(* holds, the contents.                                                    *)
Closed(g, S) == \A y \in Objs : g.place[y] \in S => y \in S

(* Under is o and what is under the things directly in it.                  *)
LEMMA UnderIs ==
  ASSUME NEW g, Forest(g), NEW x \in Objs
  PROVE  /\ Doomed(g, x) \in Seq(Objs) /\ Under(g, x) \subseteq Objs /\ x \in Under(g, x)
         /\ \A z : z \in Under(g, x) <=>
              z = x \/ \E y \in Objs : g.place[y] = x /\ z \in Under(g, y)
<1>1. PICK f : Solves(g, f, Objs) /\ \A y \in Objs : Doomed(g, y) = f[y]
  BY DoomedIs
<1>2. /\ f \in [Objs -> Seq(Objs)] /\ f[x] = FreeStep(g, f, x)
      /\ \A y \in Objs : Under(g, y) = ToSet(f[y])
  BY <1>1 DEF Solves, Under
<1>3. Gives(f, g.contents[x])
  BY <1>2, Children DEF Gives
<1>4. Under(g, x) = {x} \cup UNION {ToSet(f[y]) : y \in ToSet(g.contents[x])}
  BY <1>2, <1>3, FreeStepIs DEF Forest
<1>5. \A z : z \in Under(g, x) <=>
              z = x \/ \E y \in Objs : g.place[y] = x /\ z \in Under(g, y)
  <2> TAKE z
  <2>1. z \in Under(g, x) <=> z = x \/ \E y \in ToSet(g.contents[x]) : z \in ToSet(f[y])
    BY <1>4
  <2>2. \A y : y \in ToSet(g.contents[x]) <=> y \in Objs /\ g.place[y] = x
    BY Children
  <2>3. QED
    BY <1>2, <2>1, <2>2
<1>6. Doomed(g, x) \in Seq(Objs)
  BY <1>1, <1>2
<1>7. Under(g, x) \subseteq Objs
  BY <1>6, SeqIs DEF Under
<1>8. QED
  BY <1>5, <1>6, <1>7

(* Under is the least set that holds o and is closed downwards.             *)
LEMMA UnderLeast ==
  ASSUME NEW g, Forest(g), NEW S, Closed(g, S), NEW x \in Objs, x \in S
  PROVE  Under(g, x) \subseteq S
<1> DEFINE B == {y \in Objs : y \in S /\ ~(Under(g, y) \subseteq S)}
<1>1. ASSUME B # {} PROVE FALSE
  <2>1. PICK y \in B : \A z \in B : g.place[z] # y
    BY <1>1 DEF Forest, Grounded
  <2>2. \A z \in Objs : g.place[z] = y => Under(g, z) \subseteq S
    BY <2>1 DEF Closed
  <2>3. Under(g, y) \subseteq S
    BY <2>1, <2>2, UnderIs
  <2>4. QED
    BY <2>1, <2>3
<1>2. QED
  BY <1>1

(* What lies in something under o is under o.                               *)
LEMMA UnderClosed ==
  ASSUME NEW g, Forest(g), NEW x \in Objs
  PROVE  Closed(g, Under(g, x))
<1> DEFINE B == {y \in Objs : ~Closed(g, Under(g, y))}
<1>1. ASSUME B # {} PROVE FALSE
  <2>1. PICK y \in B : \A z \in B : g.place[z] # y
    BY <1>1 DEF Forest, Grounded
  <2>2. ASSUME NEW w \in Objs, g.place[w] \in Under(g, y) PROVE w \in Under(g, y)
    <3>1. CASE g.place[w] = y
      BY <3>1, UnderIs
    <3>2. CASE g.place[w] # y
      <4>1. PICK z \in Objs : g.place[z] = y /\ g.place[w] \in Under(g, z)
        BY <2>1, <2>2, <3>2, UnderIs
      <4>2. Closed(g, Under(g, z))
        BY <2>1, <4>1
      <4>3. w \in Under(g, z)
        BY <4>1, <4>2 DEF Closed
      <4>4. QED
        BY <2>1, <4>1, <4>3, UnderIs
    <3>3. QED
      BY <3>1, <3>2
  <2>3. QED
    BY <2>1, <2>2 DEF Closed
<1>2. QED
  BY <1>1

(* What o's contents lie in, o apart, is under o too.                       *)
LEMMA UnderUp ==
  ASSUME NEW g, Forest(g), NEW x \in Objs, NEW z \in Under(g, x), z # x
  PROVE  g.place[z] \in Under(g, x)
<1> DEFINE S == {w \in Under(g, x) : w = x \/ g.place[w] \in Under(g, x)}
<1>1. Closed(g, Under(g, x)) /\ x \in Under(g, x)
  BY UnderClosed, UnderIs
<1>2. Closed(g, S) /\ x \in S
  BY <1>1 DEF Closed
<1> HIDE DEF S
<1>3. Under(g, x) \subseteq S
  BY <1>2, UnderLeast
<1>4. QED
  BY <1>3 DEF S

(* Under something under o there is nothing but what is under o.            *)
LEMMA UnderDown ==
  ASSUME NEW g, Forest(g), NEW x \in Objs, NEW z \in Under(g, x)
  PROVE  z \in Objs /\ Under(g, z) \subseteq Under(g, x)
<1>1. Closed(g, Under(g, x)) /\ z \in Objs
  BY UnderClosed, UnderIs
<1>2. QED
  BY <1>1, UnderLeast

(* Nothing is under what lies in it.                                       *)
LEMMA NoCircle ==
  ASSUME NEW g, Forest(g), NEW x \in Objs, NEW z \in Objs, g.place[x] = z
  PROVE  z \notin Under(g, x)
<1> SUFFICES ASSUME z \in Under(g, x) PROVE FALSE
  OBVIOUS
<1> DEFINE S == {w \in Objs : w \in Under(g, x) /\ x \in Under(g, w)}
<1>1. x \in S
  BY UnderIs
<1>2. ASSUME NEW w \in S PROVE \E y \in S : g.place[y] = w
  <2>1. Closed(g, Under(g, x))
    BY UnderClosed
  <2>2. CASE w # x
    <3>1. PICK y \in Objs : g.place[y] = w /\ x \in Under(g, y)
      BY <2>2, UnderIs
    <3>2. QED
      BY <2>1, <3>1 DEF Closed
  <2>3. CASE w = x /\ z = x
    BY <1>1, <2>3
  <2>4. CASE w = x /\ z # x
    <3>1. PICK y \in Objs : g.place[y] = x /\ z \in Under(g, y)
      BY <2>4, UnderIs
    <3>2. Closed(g, Under(g, y))
      BY UnderClosed
    <3>3. x \in Under(g, y) /\ y \in Under(g, x)
      BY <2>1, <3>1, <3>2, UnderIs DEF Closed
    <3>4. QED
      BY <2>4, <3>1, <3>3
  <2>5. QED
    BY <2>2, <2>3, <2>4
<1>3. QED
  <2>1. S \in SUBSET Objs /\ S # {}
    BY <1>1
  <2> HIDE DEF S
  <2>2. QED
    BY <1>2, <2>1 DEF Forest, Grounded

(* Two things are apart, or one is under the other.                        *)
LEMMA ApartOrUnder ==
  ASSUME NEW g, Forest(g), NEW x \in Objs, NEW y \in Objs,
         x \notin Under(g, y), y \notin Under(g, x)
  PROVE  Under(g, x) \cap Under(g, y) = {}
<1> DEFINE S == Under(g, x) \ Under(g, y)
<1>1. ASSUME NEW w \in Objs, g.place[w] \in S PROVE w \in S
  <2>1. w \in Under(g, x)
    BY <1>1, UnderClosed DEF Closed
  <2>2. w \in Under(g, y) => w = y
    BY <1>1, UnderUp
  <2>3. QED
    BY <2>1, <2>2
<1>2. Closed(g, S)
  BY <1>1 DEF Closed
<1>3. x \in S
  BY UnderIs
<1> HIDE DEF S
<1>4. Under(g, x) \subseteq S
  BY <1>2, <1>3, UnderLeast
<1>5. QED
  BY <1>4 DEF S

(* What lies in no other thing is under nothing but itself.                 *)
LEMMA NotUnder ==
  ASSUME NEW g, Forest(g), NEW x \in Objs, NEW z \in Objs, z # x, g.place[z] \notin Objs
  PROVE  z \notin Under(g, x)
  BY UnderUp, UnderIs

(* Two things in one place have nothing in common under them.               *)
LEMMA Siblings ==
  ASSUME NEW g, Forest(g), NEW x \in Objs, NEW y \in Objs, x # y, g.place[x] = g.place[y]
  PROVE  Under(g, x) \cap Under(g, y) = {}
<1>1. ASSUME NEW a \in Objs, NEW b \in Objs, a # b, g.place[a] = g.place[b], a \in Under(g, b)
      PROVE  FALSE
  <2>1. g.place[b] \in Under(g, b)
    BY <1>1, UnderUp
  <2>2. g.place[b] \in Objs
    BY <2>1, UnderIs
  <2>3. QED
    BY <2>1, <2>2, NoCircle
<1>2. QED
  BY <1>1, ApartOrUnder

(* Nothing is freed twice.                                                 *)
LEMMA DoomedOnce ==
  ASSUME NEW g, Forest(g), NEW o \in Objs
  PROVE  Listed(Doomed(g, o))
<1>1. PICK f : Solves(g, f, Objs) /\ \A y \in Objs : Doomed(g, y) = f[y]
  BY DoomedIs
<1>2. f \in [Objs -> Seq(Objs)] /\ \A x \in Objs : f[x] = FreeStep(g, f, x)
  BY <1>1 DEF Solves
<1>3. \A y \in Objs : Under(g, y) = ToSet(f[y])
  BY <1>1 DEF Under
<1> DEFINE B == {x \in Objs : ~IsInjective(f[x])}
<1>4. ASSUME B # {} PROVE FALSE
  <2>1. PICK x \in B : \A y \in B : g.place[y] # x
    BY <1>4 DEF Forest, Grounded
  <2> DEFINE s == g.contents[x]
  <2>2. /\ s \in Seq(Objs) /\ IsInjective(s)
        /\ \A y \in ToSet(s) : y \in Objs /\ g.place[y] = x
    BY Children
  <2> HIDE DEF s
  <2>3. Gives(f, s)
    BY <1>2, <2>2 DEF Gives
  <2>4. \A y \in ToSet(s) : IsInjective(f[y])
    BY <2>1, <2>2
  <2>5. \A y, z \in ToSet(s) : y # z => ToSet(f[y]) \cap ToSet(f[z]) = {}
    BY <1>3, <2>2, Siblings
  <2>6. /\ Joined(f, s) \in Seq(Objs) /\ IsInjective(Joined(f, s))
        /\ ToSet(Joined(f, s)) = UNION {ToSet(f[y]) : y \in ToSet(s)}
    BY <2>2, <2>3, <2>4, <2>5, JoinedHolds
  <2>7. \A y \in ToSet(s) : x \notin ToSet(f[y])
    BY <1>3, <2>2, NoCircle
  <2>8. ToSet(<<x>>) = {x} /\ <<x>> \in Seq(Objs) /\ IsInjective(<<x>>)
    BY DEF ToSet, IsInjective
  <2>9. ToSet(Joined(f, s)) \cap ToSet(<<x>>) = {}
    BY <2>6, <2>7, <2>8
  <2>10. IsInjective(Joined(f, s) \o <<x>>)
    BY <2>6, <2>8, <2>9, Concat
  <2>11. IsInjective(f[x])
    BY <1>2, <2>10 DEF FreeStep, s
  <2>12. QED
    BY <2>1, <2>11
<1>5. QED
  BY <1>1, <1>2, <1>4 DEF Listed

(* Whatever lies in something lies, at some depth, in what does not.       *)
LEMMA Outermost ==
  ASSUME NEW g, Forest(g), NEW o \in Objs
  PROVE  \E r \in Objs : o \in Under(g, r) /\ g.place[r] \notin Objs
<1> DEFINE A == {z \in Objs : o \in Under(g, z)}
           Rises(T) == \A z \in T : g.place[z] \in T
           W == {T \in SUBSET Objs : T # {} /\ Rises(T)}
           N == {Cardinality(T) : T \in W}
<1> SUFFICES ASSUME \A r \in A : g.place[r] \in Objs PROVE FALSE
  OBVIOUS
<1>1. A \in W
  <2>1. o \in A
    BY UnderIs
  <2>2. ASSUME NEW z \in A PROVE g.place[z] \in A
    <3>1. g.place[z] \in Objs
      BY <2>2
    <3>2. QED
      BY <3>1, UnderIs
  <2>3. QED
    BY <2>1, <2>2
<1>2. \A T \in SUBSET Objs : IsFiniteSet(T) /\ Cardinality(T) \in Nat
  BY Apart, FS_Subset, FS_CardinalityType
<1>3. N # {} /\ N \subseteq Nat
  BY <1>1, <1>2
<1>4. PICK n \in N : \A m \in N : n <= m
  BY <1>3, Least
<1>5. PICK T \in W : n = Cardinality(T)
  BY <1>4
<1> DEFINE U == {g.place[z] : z \in T}
<1>6. U \subseteq T /\ U \in W
  BY <1>5
<1>7. U = T
  <2>1. n <= Cardinality(U)
    BY <1>4, <1>6
  <2>2. ASSUME U # T PROVE FALSE
    <3>1. IsFiniteSet(T) /\ U \subseteq T /\ T \in SUBSET Objs /\ U \in SUBSET Objs
      BY <1>2, <1>6
    <3> HIDE DEF U
    <3>2. Cardinality(U) <= Cardinality(T) /\ Cardinality(U) # Cardinality(T)
      BY <2>2, <3>1, FS_Subset
    <3>3. Cardinality(U) \in Nat /\ Cardinality(T) \in Nat
      BY <1>2, <3>1
    <3>4. QED
      BY <1>5, <2>1, <3>2, <3>3
  <2>3. QED
    BY <2>2
<1>8. \A x \in T : \E y \in T : g.place[y] = x
  BY <1>7
<1>9. QED
  BY <1>5, <1>8 DEF Forest, Grounded


-----------------------------------------------------------------------------
(* Sums: the recursion has a solution, and sums add up term by term.        *)
Term(w, S, n) == IF n \in S THEN w[n] ELSE 0
TotalStep(w, S, t, n) == IF n = 0 THEN 0 ELSE t[n - 1] + Term(w, S, n)

(* Each term of a total is a number.                                        *)
LEMMA TermIs ==
  ASSUME NEW w \in [Objs -> Int], NEW S
  PROVE  MaxObjs \in Nat /\ \A n \in 1 .. MaxObjs : Term(w, S, n) \in Int
  BY ObjectsAssumption DEF Term, Objs

Sums(w, S, t) == /\ t[0] = 0
                 /\ \A n \in 1 .. MaxObjs : t[n] = t[n - 1] + Term(w, S, n)
                 /\ \A n \in 0 .. MaxObjs : t[n] \in Int

(* Total is the last of its partial sums.                                   *)
LEMMA TotalIs ==
  ASSUME NEW w \in [Objs -> Int], NEW S
  PROVE  \E t : Sums(w, S, t) /\ Total(w, S) = t[MaxObjs]
<1> DEFINE t == CHOOSE x : x = [n \in 0 .. MaxObjs |-> TotalStep(w, S, x, n)]
<1>0. MaxObjs \in Nat /\ \A n \in 1 .. MaxObjs : Term(w, S, n) \in Int
  BY TermIs
<1> DEFINE D == [n \in 0 .. MaxObjs |-> Int]
           F == [n \in 1 .. MaxObjs |-> [x \in Int |-> x + Term(w, S, n)]]
<1>1. PICK i : Runs(i, F, D, 0, MaxObjs)
  <2>1. 0 \in D[0]
    BY <1>0
  <2>2. ASSUME NEW n \in 1 .. MaxObjs, NEW x \in D[n - 1] PROVE F[n][x] \in D[n]
    <3>1. x \in Int /\ Term(w, S, n) \in Int /\ F[n][x] = x + Term(w, S, n) /\ D[n] = Int
      BY <1>0
    <3>2. QED
      BY <3>1
  <2> HIDE DEF F, D
  <2>3. QED
    BY <1>0, <2>1, <2>2, Recursion
<1>2. i = [n \in 0 .. MaxObjs |-> TotalStep(w, S, i, n)]
  <2>1. /\ i = [n \in 0 .. MaxObjs |-> IF n = 0 THEN 0 ELSE F[n][i[n - 1]]]
        /\ \A n \in 0 .. MaxObjs : i[n] \in D[n]
    BY <1>1 DEF Runs
  <2>2. ASSUME NEW n \in 0 .. MaxObjs
        PROVE  (IF n = 0 THEN 0 ELSE F[n][i[n - 1]]) = TotalStep(w, S, i, n)
    <3>1. CASE n = 0
      BY <3>1 DEF TotalStep
    <3>2. CASE n # 0
      <4>1. n \in 1 .. MaxObjs /\ n - 1 \in 0 .. MaxObjs
        BY <1>0, <3>2
      <4>2. i[n - 1] \in Int
        BY <2>1, <4>1
      <4>3. F[n][i[n - 1]] = i[n - 1] + Term(w, S, n)
        BY <4>1, <4>2
      <4>4. QED
        BY <3>2, <4>3 DEF TotalStep
    <3>3. QED
      BY <3>1, <3>2
  <2> HIDE DEF F, D
  <2>3. QED
    BY <2>1, <2>2
<1> HIDE DEF F, D
<1>3. t = [n \in 0 .. MaxObjs |-> TotalStep(w, S, t, n)]
  BY <1>2
<1>4. Total(w, S) = t[MaxObjs]
  BY DEF Total, TotalStep, Term
<1> HIDE DEF t
<1>5. \A n \in 0 .. MaxObjs : t[n] = TotalStep(w, S, t, n)
  BY <1>3
<1>6. t[0] = 0
  BY <1>0, <1>5 DEF TotalStep
<1>7. ASSUME NEW n \in 1 .. MaxObjs PROVE t[n] = t[n - 1] + Term(w, S, n)
  <2>1. n \in 0 .. MaxObjs /\ n # 0
    BY <1>0
  <2>2. QED
    BY <1>5, <2>1 DEF TotalStep
<1> DEFINE B == {n \in 0 .. MaxObjs : t[n] \notin Int}
<1>8. ASSUME B # {} PROVE FALSE
  <2>0. B \subseteq 0 .. MaxObjs
    OBVIOUS
  <2>1. PICK b \in B : /\ b \in 0 .. MaxObjs
                       /\ b # 0 => b \in 1 .. MaxObjs /\ b - 1 \in 0 .. MaxObjs /\ b - 1 \notin B
    BY <1>0, <1>8, <2>0, First
  <2>2. b # 0
    BY <1>6, <2>1
  <2>3. b \in 1 .. MaxObjs /\ t[b - 1] \in Int
    BY <2>1, <2>2
  <2>4. t[b] \in Int
    BY <1>0, <1>7, <2>3
  <2>5. QED
    BY <2>1, <2>4
<1>9. Sums(w, S, t)
  BY <1>6, <1>7, <1>8 DEF Sums
<1>10. QED
  BY <1>4, <1>9

Splits(w, S, v, A, u, C) ==
  /\ w \in [Objs -> Int] /\ v \in [Objs -> Int] /\ u \in [Objs -> Int]
  /\ \A n \in Objs : Term(w, S, n) = Term(v, A, n) + Term(u, C, n)

(* Totals over disjoint sets add up.                                        *)
LEMMA TotalAdds ==
  ASSUME NEW w, NEW S, NEW v, NEW A, NEW u, NEW C, Splits(w, S, v, A, u, C)
  PROVE  /\ Total(w, S) \in Int /\ Total(v, A) \in Int /\ Total(u, C) \in Int
         /\ Total(w, S) = Total(v, A) + Total(u, C)
<1>0. MaxObjs \in Nat /\ \A n \in Objs : /\ Term(w, S, n) \in Int /\ Term(v, A, n) \in Int
                                         /\ Term(u, C, n) \in Int
  BY TermIs DEF Objs, Splits
<1>b. w \in [Objs -> Int] /\ v \in [Objs -> Int] /\ u \in [Objs -> Int]
  BY DEF Splits
<1>1. PICK a : Sums(w, S, a) /\ Total(w, S) = a[MaxObjs]
  BY <1>b, TotalIs
<1>2. PICK b : Sums(v, A, b) /\ Total(v, A) = b[MaxObjs]
  BY <1>b, TotalIs
<1>3. PICK c : Sums(u, C, c) /\ Total(u, C) = c[MaxObjs]
  BY <1>b, TotalIs
<1> DEFINE B == {n \in 0 .. MaxObjs : a[n] # b[n] + c[n]}
<1>4. ASSUME B # {} PROVE FALSE
  <2>0. B \subseteq 0 .. MaxObjs
    OBVIOUS
  <2>1. PICK n \in B : /\ n \in 0 .. MaxObjs
                       /\ n # 0 => n \in 1 .. MaxObjs /\ n - 1 \in 0 .. MaxObjs /\ n - 1 \notin B
    BY <1>0, <1>4, <2>0, First
  <2>2. n # 0
    BY <1>1, <1>2, <1>3, <2>1 DEF Sums
  <2>3. n \in Objs /\ n - 1 \in 0 .. MaxObjs /\ a[n - 1] = b[n - 1] + c[n - 1]
    BY <2>1, <2>2 DEF Objs
  <2>4. /\ a[n] = a[n - 1] + Term(w, S, n)
        /\ b[n] = b[n - 1] + Term(v, A, n)
        /\ c[n] = c[n - 1] + Term(u, C, n)
        /\ a[n - 1] \in Int /\ b[n - 1] \in Int /\ c[n - 1] \in Int
    BY <1>1, <1>2, <1>3, <2>1, <2>2, <2>3 DEF Sums
  <2>5. Term(w, S, n) = Term(v, A, n) + Term(u, C, n)
    BY <2>3 DEF Splits
  <2>6. Term(w, S, n) \in Int /\ Term(v, A, n) \in Int /\ Term(u, C, n) \in Int
    BY <1>0, <2>3
  <2>7. a[n] = b[n] + c[n]
    BY <2>3, <2>4, <2>5, <2>6
  <2>8. QED
    BY <2>1, <2>7
<1>5. MaxObjs \in 0 .. MaxObjs
  BY <1>0
<1>6. QED
  BY <1>1, <1>2, <1>3, <1>4, <1>5 DEF Sums

(* What the proofs use of a sum.                                            *)
LEMMA TotalNone ==
  ASSUME NEW w \in [Objs -> Int]
  PROVE  Total(w, {}) = 0
<1>1. Splits(w, {}, w, {}, w, {})
  BY DEF Term, Splits
<1>2. QED
  BY <1>1, TotalAdds

(* Total looks at no weight but those it adds.                              *)
LEMMA TotalSame ==
  ASSUME NEW w \in [Objs -> Int], NEW v \in [Objs -> Int], NEW S, \A o \in S : w[o] = v[o]
  PROVE  Total(w, S) \in Int /\ Total(w, S) = Total(v, S)
<1>1. ASSUME NEW n \in Objs PROVE Term(w, S, n) = Term(v, S, n) + Term(v, {}, n)
  <2>1. w[n] \in Int /\ v[n] \in Int
    OBVIOUS
  <2>2. QED
    BY <2>1 DEF Term
<1>2. /\ Total(w, S) \in Int /\ Total(v, S) \in Int
      /\ Total(w, S) = Total(v, S) + Total(v, {})
  <2>1. Splits(w, S, v, S, v, {})
    BY <1>1 DEF Splits
  <2>2. QED
    BY <2>1, TotalAdds
<1>3. Total(v, {}) = 0
  BY TotalNone
<1>4. QED
  BY <1>2, <1>3

(* The total over a union of two disjoint sets.                             *)
LEMMA TotalBoth ==
  ASSUME NEW w \in [Objs -> Int], NEW R, NEW S, NEW T, R = S \cup T, S \cap T = {}
  PROVE  /\ Total(w, S) \in Int /\ Total(w, T) \in Int
         /\ Total(w, R) = Total(w, S) + Total(w, T)
<1>1. ASSUME NEW n \in Objs PROVE Term(w, R, n) = Term(w, S, n) + Term(w, T, n)
  <2>1. w[n] \in Int
    OBVIOUS
  <2>2. QED
    BY <2>1 DEF Term
<1>2. Splits(w, R, w, S, w, T)
  BY <1>1 DEF Splits
<1>3. QED
  BY <1>2, TotalAdds

(* The total over a set of one.                                             *)
LEMMA TotalOne ==
  ASSUME NEW w \in [Objs -> Int], NEW o \in Objs
  PROVE  Total(w, {o}) = w[o]
<1>0. MaxObjs \in Nat /\ o \in 1 .. MaxObjs /\ w[o] \in Int
  BY TermIs DEF Objs
<1>1. PICK t : Sums(w, {o}, t) /\ Total(w, {o}) = t[MaxObjs]
  BY TotalIs
<1> DEFINE B == {n \in 0 .. MaxObjs : t[n] # IF n < o THEN 0 ELSE w[o]}
<1>2. ASSUME B # {} PROVE FALSE
  <2>0. B \subseteq 0 .. MaxObjs
    OBVIOUS
  <2>1. PICK n \in B : /\ n \in 0 .. MaxObjs
                       /\ n # 0 => n \in 1 .. MaxObjs /\ n - 1 \in 0 .. MaxObjs /\ n - 1 \notin B
    BY <1>0, <1>2, <2>0, First
  <2>2. n # 0
    BY <1>0, <1>1, <2>1 DEF Sums
  <2>3. n \in 1 .. MaxObjs /\ t[n - 1] = IF n - 1 < o THEN 0 ELSE w[o]
    BY <2>1, <2>2
  <2>4. t[n] = t[n - 1] + Term(w, {o}, n)
    BY <1>1, <2>3 DEF Sums
  <2>5. Term(w, {o}, n) = IF n = o THEN w[o] ELSE 0
    BY DEF Term
  <2>6. t[n] = IF n < o THEN 0 ELSE w[o]
    BY <1>0, <2>3, <2>4, <2>5
  <2>7. QED
    BY <2>1, <2>6
<1>3. MaxObjs \in 0 .. MaxObjs /\ ~(MaxObjs < o)
  BY <1>0
<1>4. QED
  BY <1>1, <1>2, <1>3

(* One thing that gets lighter makes the total that much lighter.           *)
LEMMA TotalLess ==
  ASSUME NEW w \in [Objs -> Int], NEW S, NEW o \in S, o \in Objs, NEW d \in Int
  PROVE  Total([w EXCEPT ![o] = @ - d], S) = Total(w, S) - d
<1> DEFINE v == [w EXCEPT ![o] = @ - d]
           u == [x \in Objs |-> d]
<1>1. v \in [Objs -> Int] /\ u \in [Objs -> Int] /\ \A x \in Objs : w[x] \in Int
  OBVIOUS
<1>2. ASSUME NEW n \in Objs PROVE Term(w, S, n) = Term(v, S, n) + Term(u, {o}, n)
  <2>1. CASE n = o
    <3>1. v[n] = w[n] - d /\ u[n] = d /\ w[n] \in Int
      BY <2>1
    <3> HIDE DEF v, u
    <3>2. QED
      BY <2>1, <3>1 DEF Term
  <2>2. CASE n # o
    <3>1. v[n] = w[n] /\ w[n] \in Int
      BY <2>2
    <3> HIDE DEF v, u
    <3>2. QED
      BY <2>2, <3>1 DEF Term
  <2>3. QED
    BY <2>1, <2>2
<1>3. Total(u, {o}) = d
  BY <1>1, TotalOne
<1> HIDE DEF v, u
<1>a. Splits(w, S, v, S, u, {o})
  BY <1>1, <1>2 DEF Splits
<1>4. /\ Total(w, S) = Total(v, S) + Total(u, {o}) /\ Total(v, S) \in Int
  BY <1>a, TotalAdds
<1>5. QED
  BY <1>3, <1>4 DEF v

-----------------------------------------------------------------------------
(* What each operation on a heap does to its fields.                        *)
SameThings(a, b) == /\ a.made = b.made /\ a.object_list = b.object_list
                    /\ a.obj_free = b.obj_free /\ a.weight = b.weight
                    /\ a.kind = b.kind /\ a.value = b.value

(* The fields of a heap, by their types.                                    *)
LEMMA HeapFields ==
  ASSUME NEW g \in HeapType
  PROVE  /\ g.made \in 0 .. MaxObjs /\ g.object_list \in Seq(Objs) /\ g.obj_free \in Seq(Objs)
         /\ g.contents \in [Places -> Seq(Objs)] /\ g.place \in [Objs -> Places \cup {NULL}]
         /\ g.kind \in [Objs -> Kinds] /\ g.value \in [Objs -> Nat] /\ g.weight \in [Objs -> Nat]
         /\ g.carry_number \in [Chars -> Int] /\ g.carry_weight \in [Chars -> Int]
  BY DEF HeapType

(* Counted changes nothing but one carry_number.                            *)
LEMMA CountedIs ==
  ASSUME NEW g \in HeapType, NEW p \in Places, NEW n \in Int
  PROVE  /\ Counted(g, p, n) \in HeapType /\ SameThings(Counted(g, p, n), g)
         /\ Counted(g, p, n).contents = g.contents /\ Counted(g, p, n).place = g.place
         /\ Counted(g, p, n).carry_weight = g.carry_weight
         /\ \A c \in Chars : Counted(g, p, n).carry_number[c] =
                               IF c = p THEN g.carry_number[c] + n ELSE g.carry_number[c]
<1>1. CASE p \in Chars
  <2> DEFINE r == [g EXCEPT !.carry_number[p] = @ + n]
             m == [g.carry_number EXCEPT ![p] = @ + n]
  <2>1. m \in [Chars -> Int] /\ \A c \in Chars : m[c] = IF c = p THEN g.carry_number[c] + n ELSE g.carry_number[c]
    BY <1>1, HeapFields
  <2>2. r = [g EXCEPT !.carry_number = m]
    BY <1>1, HeapFields DEF HeapType
  <2> HIDE DEF m
  <2>3. r \in HeapType /\ r.carry_number = m /\ SameThings(r, g) /\ r.contents = g.contents
        /\ r.place = g.place /\ r.carry_weight = g.carry_weight
    BY <2>1, <2>2 DEF HeapType, SameThings
  <2>4. Counted(g, p, n) = r
    BY <1>1 DEF Counted
  <2> HIDE DEF r
  <2>5. QED
    BY <2>1, <2>3, <2>4
<1>2. CASE p \notin Chars
  <2>1. Counted(g, p, n) = g
    BY <1>2 DEF Counted
  <2>2. QED
    BY <1>2, <2>1 DEF SameThings
<1>3. QED
  BY <1>1, <1>2

(* Borne changes nothing but the carry_weight of those who bear o.          *)
LEMMA BorneIs ==
  ASSUME NEW g \in HeapType, NEW o \in Objs, NEW n \in Int, Weight(g, o) \in Int
  PROVE  /\ Borne(g, o, n) \in HeapType /\ SameThings(Borne(g, o, n), g)
         /\ Borne(g, o, n).contents = g.contents /\ Borne(g, o, n).place = g.place
         /\ Borne(g, o, n).carry_number = g.carry_number
         /\ \A c \in Chars : Borne(g, o, n).carry_weight[c] =
               IF c \in Bearers(g, o) THEN g.carry_weight[c] + n * Weight(g, o)
               ELSE g.carry_weight[c]
<1> DEFINE m == [c \in Chars |-> IF c \in Bearers(g, o)
                                 THEN g.carry_weight[c] + n * Weight(g, o)
                                 ELSE g.carry_weight[c]]
           r == [g EXCEPT !.carry_weight = m]
<1>1. Borne(g, o, n) = r
  BY DEF Borne
<1>2. m \in [Chars -> Int]
  <2>1. n * Weight(g, o) \in Int
    OBVIOUS
  <2>2. \A c \in Chars : g.carry_weight[c] \in Int
    BY HeapFields
  <2> HIDE DEF Weight
  <2>3. QED
    BY <2>1, <2>2
<1>3. \A c \in Chars : m[c] = IF c \in Bearers(g, o) THEN g.carry_weight[c] + n * Weight(g, o)
                              ELSE g.carry_weight[c]
  OBVIOUS
<1> HIDE DEF m
<1>4. r \in HeapType /\ r.carry_weight = m /\ SameThings(r, g) /\ r.contents = g.contents
      /\ r.place = g.place /\ r.carry_number = g.carry_number
  BY <1>2 DEF HeapType, SameThings
<1> HIDE DEF r
<1>5. QED
  BY <1>1, <1>3, <1>4

-----------------------------------------------------------------------------
(* How what lies under a thing changes with the places of others.          *)
LEMMA UnderSame ==
  ASSUME NEW g, Forest(g), NEW t, Forest(t), NEW x \in Objs,
         \A y \in Objs : y # x /\ (g.place[y] \in Under(g, x) \/ t.place[y] \in Under(g, x))
                           => t.place[y] = g.place[y]
  PROVE  Under(t, x) = Under(g, x)
<1> DEFINE U == Under(g, x)
           V == Under(t, x)
<1>1. U \subseteq Objs /\ x \in U /\ V \subseteq Objs /\ x \in V
  BY UnderIs
<1>2. V \subseteq U
  <2>1. Closed(t, U)
    <3>1. ASSUME NEW y \in Objs, t.place[y] \in U PROVE y \in U
      <4>1. CASE y = x
        BY <1>1, <4>1
      <4>2. CASE y # x
        <5>1. g.place[y] \in U
          BY <3>1, <4>2
        <5>2. QED
          BY <5>1, UnderClosed DEF Closed
      <4>3. QED
        BY <4>1, <4>2
    <3>2. QED
      BY <1>1, <3>1 DEF Closed
  <2>2. QED
    BY <1>1, <2>1, UnderLeast
<1>3. U \subseteq V
  <2>1. Closed(g, V)
    <3>1. ASSUME NEW y \in Objs, g.place[y] \in V PROVE y \in V
      <4>1. CASE y = x
        BY <1>1, <4>1
      <4>2. CASE y # x
        <5>1. t.place[y] \in V
          BY <1>2, <3>1, <4>2
        <5>2. QED
          BY <5>1, UnderClosed DEF Closed
      <4>3. QED
        BY <4>1, <4>2
    <3>2. QED
      BY <1>1, <3>1 DEF Closed
  <2>2. QED
    BY <1>1, <2>1, UnderLeast
<1>4. QED
  BY <1>2, <1>3

(* t is g with the unplaced o put into p.                                   *)
Hooked(g, t, o, p) ==
  /\ Forest(g) /\ Forest(t) /\ o \in Objs /\ p \in Places
  /\ g.place[o] = NULL /\ t.place[o] = p
  /\ \A y \in Objs : y # o => t.place[y] = g.place[y]

(* What is under each thing before and after o is put into p.               *)
LEMMA HookedUnder ==
  ASSUME NEW g, NEW t, NEW o, NEW p, Hooked(g, t, o, p)
  PROVE  /\ Under(t, o) = Under(g, o) /\ p \notin Under(g, o)
         /\ \A x \in Objs : Under(t, x) = IF p \in Under(g, x) THEN Under(g, x) \cup Under(g, o)
                                          ELSE Under(g, x)
<1>0. /\ Forest(g) /\ Forest(t) /\ o \in Objs /\ p \in Places
      /\ g.place[o] = NULL /\ t.place[o] = p
      /\ \A y \in Objs : y # o => t.place[y] = g.place[y]
  BY DEF Hooked
<1>1. Under(t, o) = Under(g, o) /\ Under(g, o) \subseteq Objs
  BY <1>0, UnderSame, UnderIs
<1>2. p \notin Under(g, o)
  <2>1. CASE p \in Objs
    BY <1>0, <1>1, <2>1, NoCircle
  <2>2. CASE p \notin Objs
    BY <1>1, <2>2
  <2>3. QED
    BY <2>1, <2>2
<1>3. ASSUME NEW x \in Objs
      PROVE  Under(t, x) = IF p \in Under(g, x) THEN Under(g, x) \cup Under(g, o) ELSE Under(g, x)
  <2> DEFINE V == Under(t, x)
  <2>0. /\ V \subseteq Objs /\ x \in V /\ Under(g, x) \subseteq Objs /\ x \in Under(g, x)
        /\ o \in Under(g, o)
    BY <1>0, UnderIs
  <2>1. Closed(g, V) /\ Closed(t, V) /\ Closed(g, Under(g, x)) /\ Closed(g, Under(g, o))
    <3>1. Closed(t, V) /\ Closed(g, Under(g, x)) /\ Closed(g, Under(g, o))
      BY <1>0, UnderClosed
    <3>2. ASSUME NEW y \in Objs, g.place[y] \in V PROVE y \in V
      <4>1. y # o /\ t.place[y] \in V
        BY <1>0, <2>0, <3>2, Apart
      <4>2. QED
        BY <3>1, <4>1 DEF Closed
    <3>3. QED
      BY <2>0, <3>1, <3>2 DEF Closed
  <2>2. Under(g, x) \subseteq V
    BY <1>0, <2>0, <2>1, UnderLeast
  <2> HIDE DEF V
  <2>3. CASE p \in Under(g, x)
    <3> DEFINE S == Under(g, x) \cup Under(g, o)
    <3>1. o \in V
      BY <1>0, <2>1, <2>2, <2>3 DEF Closed
    <3>2. Under(g, o) \subseteq V
      BY <1>0, <2>1, <3>1, UnderLeast
    <3>3. Closed(t, S)
      <4>1. ASSUME NEW y \in Objs, t.place[y] \in S PROVE y \in S
        <5>1. CASE y = o
          BY <2>0, <5>1
        <5>2. CASE y # o
          BY <1>0, <2>1, <4>1, <5>2 DEF Closed
        <5>3. QED
          BY <5>1, <5>2
      <4>2. QED
        BY <1>1, <2>0, <4>1 DEF Closed
    <3>4. V \subseteq S
      BY <1>0, <2>0, <3>3, UnderLeast DEF V
    <3>5. QED
      BY <2>2, <2>3, <3>2, <3>4 DEF V
  <2>4. CASE p \notin Under(g, x)
    <3>1. Closed(t, Under(g, x))
      <4>1. ASSUME NEW y \in Objs, t.place[y] \in Under(g, x) PROVE y \in Under(g, x)
        <5>1. y # o
          BY <1>0, <2>4, <4>1
        <5>2. QED
          BY <1>0, <2>1, <4>1, <5>1 DEF Closed
      <4>2. QED
        BY <2>0, <4>1 DEF Closed
    <3>2. V \subseteq Under(g, x)
      BY <1>0, <2>0, <3>1, UnderLeast DEF V
    <3>3. QED
      BY <2>2, <2>4, <3>2 DEF V
  <2>5. QED
    BY <2>3, <2>4
<1>4. QED
  BY <1>1, <1>2, <1>3

(* What is carried is what is under things whose carried_by is c.           *)
LEMMA CarriedIs ==
  ASSUME NEW g, Forest(g), NEW c \in Chars
  PROVE  /\ \A z : z \in Carried(g, c) <=> \E x \in Objs : g.place[x] = c /\ z \in Under(g, x)
         /\ Carried(g, c) \subseteq Objs
<1>1. c \in Places /\ Agrees(g)
  BY Apart DEF Forest
<1>2. \A x : x \in ToSet(g.contents[c]) <=> x \in Objs /\ g.place[x] = c
  BY <1>1, Contents
<1>3. ASSUME NEW z PROVE z \in Carried(g, c) <=> \E x \in Objs : g.place[x] = c /\ z \in Under(g, x)
  BY <1>2 DEF Carried, Under
<1>4. QED
  BY <1>3, UnderIs

(* Nobody carries what is under something that lies elsewhere.             *)
LEMMA NotCarried ==
  ASSUME NEW g, Forest(g), NEW c \in Chars, NEW o \in Objs, g.place[o] \notin Objs, g.place[o] # c
  PROVE  Carried(g, c) \cap Under(g, o) = {}
<1>1. ASSUME NEW x \in Objs, g.place[x] = c PROVE Under(g, x) \cap Under(g, o) = {}
  <2>1. x # o /\ g.place[x] \notin Objs
    BY <1>1, Apart
  <2>2. x \notin Under(g, o) /\ o \notin Under(g, x)
    BY <2>1, NotUnder
  <2>3. QED
    BY <2>2, ApartOrUnder
<1>2. QED
  BY <1>1, CarriedIs

(* Who carries what before and after o is put into p.                       *)
LEMMA HookedCarried ==
  ASSUME NEW g, NEW t, NEW o, NEW p, Hooked(g, t, o, p), NEW c \in Chars
  PROVE  /\ o \in Carried(t, c) <=> p = c \/ p \in Carried(g, c)
         /\ Carried(t, c) = IF o \in Carried(t, c) THEN Carried(g, c) \cup Under(g, o)
                            ELSE Carried(g, c)
         /\ Carried(g, c) \cap Under(g, o) = {}
<1>0. /\ Forest(g) /\ Forest(t) /\ o \in Objs /\ p \in Places
      /\ g.place[o] = NULL /\ t.place[o] = p
      /\ \A y \in Objs : y # o => t.place[y] = g.place[y]
  BY DEF Hooked
<1>1. /\ Under(t, o) = Under(g, o) /\ p \notin Under(g, o) /\ o \in Under(g, o)
      /\ \A x \in Objs : Under(t, x) = IF p \in Under(g, x) THEN Under(g, x) \cup Under(g, o)
                                       ELSE Under(g, x)
  BY <1>0, HookedUnder, UnderIs
<1>2. Carried(g, c) \cap Under(g, o) = {}
  BY <1>0, NotCarried, Apart
<1>3. NULL # c /\ NULL \notin Objs
  BY Apart
<1>4. ASSUME NEW z
      PROVE  z \in Carried(t, c) <=>
               z \in Carried(g, c) \/ ((p = c \/ p \in Carried(g, c)) /\ z \in Under(g, o))
  <2>1. ASSUME NEW x \in Objs, t.place[x] = c, z \in Under(t, x)
        PROVE  z \in Carried(g, c) \/ ((p = c \/ p \in Carried(g, c)) /\ z \in Under(g, o))
    <3>1. CASE x = o
      BY <1>0, <1>1, <2>1, <3>1
    <3>2. CASE x # o
      <4>1. g.place[x] = c
        BY <1>0, <2>1, <3>2
      <4>2. z \in Under(g, x) \/ (p \in Under(g, x) /\ z \in Under(g, o))
        BY <1>1, <2>1
      <4>3. QED
        BY <1>0, <4>1, <4>2, CarriedIs
    <3>3. QED
      BY <3>1, <3>2
  <2>2. ASSUME NEW x \in Objs, g.place[x] = c
        PROVE  /\ t.place[x] = c
               /\ z \in Under(g, x) => z \in Under(t, x)
               /\ p \in Under(g, x) /\ z \in Under(g, o) => z \in Under(t, x)
    BY <1>0, <1>1, <1>3, <2>2
  <2>3. p = c /\ z \in Under(g, o) => z \in Carried(t, c)
    BY <1>0, <1>1, CarriedIs
  <2>4. z \in Carried(t, c) => \E x \in Objs : t.place[x] = c /\ z \in Under(t, x)
    BY <1>0, CarriedIs
  <2>5. z \in Carried(g, c) \/ (p \in Carried(g, c) /\ z \in Under(g, o)) => z \in Carried(t, c)
    <3>1. \A y : y \in Carried(g, c) => \E x \in Objs : g.place[x] = c /\ y \in Under(g, x)
      BY <1>0, CarriedIs
    <3>2. \A x \in Objs : t.place[x] = c /\ z \in Under(t, x) => z \in Carried(t, c)
      BY <1>0, CarriedIs
    <3>3. QED
      BY <2>2, <3>1, <3>2
  <2>6. QED
    BY <2>1, <2>3, <2>4, <2>5
<1>5. QED
  BY <1>1, <1>2, <1>4

-----------------------------------------------------------------------------
(* Putting a thing somewhere, and taking it away.                           *)
LEMMA SameTrees ==
  ASSUME NEW a, NEW b, a.contents = b.contents
  PROVE  /\ \A x : Doomed(a, x) = Doomed(b, x) /\ Under(a, x) = Under(b, x)
         /\ \A c : Carried(a, c) = Carried(b, c)
  BY DEF Doomed, Under, Carried

(* Putting o into what is not under it leaves a forest.                     *)
LEMMA PlacedForest ==
  ASSUME NEW g, NEW t, Forest(g), NEW o \in Objs, NEW p \in Places,
         g.place[o] = NULL, p \notin Under(g, o),
         t.contents = [g.contents EXCEPT ![p] = <<o>> \o @],
         t.place = [g.place EXCEPT ![o] = p]
  PROVE  Hooked(g, t, o, p)
<1>0. /\ g.contents \in [Places -> Seq(Objs)] /\ g.place \in [Objs -> Places \cup {NULL}]
      /\ \A q \in Places : IsInjective(g.contents[q])
      /\ \A q \in Places : ToSet(g.contents[q]) = {y \in Objs : g.place[y] = q}
      /\ Agrees(g) /\ Grounded(g)
  BY DEF Forest, Agrees
<1>1. /\ \A q \in Places : t.contents[q] = IF q = p THEN <<o>> \o g.contents[p] ELSE g.contents[q]
      /\ \A y \in Objs : t.place[y] = IF y = o THEN p ELSE g.place[y]
      /\ t.place \in [Objs -> Places \cup {NULL}]
      /\ DOMAIN t.contents = Places /\ t.contents = [q \in Places |-> t.contents[q]]
  BY <1>0
<1>2. /\ <<o>> \o g.contents[p] \in Seq(Objs)
      /\ ToSet(<<o>> \o g.contents[p]) = ToSet(g.contents[p]) \cup {o}
      /\ IsInjective(<<o>> \o g.contents[p])
  <2>1. g.contents[p] \in Seq(Objs) /\ IsInjective(g.contents[p])
    BY <1>0
  <2>2. o \notin ToSet(g.contents[p])
    BY <1>0, Apart
  <2>3. QED
    BY <2>1, <2>2, InFront
<1>3. \A q \in Places : t.contents[q] \in Seq(Objs) /\ IsInjective(t.contents[q])
  BY <1>0, <1>1, <1>2
<1>4. t.contents \in [Places -> Seq(Objs)]
  BY <1>1, <1>3
<1>5. ASSUME NEW q \in Places PROVE ToSet(t.contents[q]) = {y \in Objs : t.place[y] = q}
  <2>1. CASE q = p
    <3>1. ToSet(t.contents[q]) = {y \in Objs : g.place[y] = q} \cup {o}
      BY <1>0, <1>1, <1>2, <2>1
    <3>2. QED
      BY <1>1, <2>1, <3>1
  <2>2. CASE q # p
    <3>1. ToSet(t.contents[q]) = {y \in Objs : g.place[y] = q} /\ g.place[o] # q
      BY <1>0, <1>1, <2>2, Apart
    <3>2. QED
      BY <1>1, <2>2, <3>1
  <2>3. QED
    BY <2>1, <2>2
<1>6. Agrees(t)
  BY <1>1, <1>3, <1>4, <1>5 DEF Agrees
<1>7. ASSUME NEW S \in SUBSET Objs, S # {} PROVE \E x \in S : \A y \in S : t.place[y] # x
  <2> DEFINE U == Under(g, o)
  <2>1. o \in U /\ U \subseteq Objs
    BY UnderIs
  <2>a. Closed(g, U)
    BY UnderClosed
  <2> HIDE DEF U
  <2>2. CASE S \cap U # {}
    <3>1. PICK x \in S \cap U : \A y \in S \cap U : g.place[y] # x
      <4>1. S \cap U \in SUBSET Objs
        OBVIOUS
      <4>2. QED
        BY <1>0, <2>2, <4>1 DEF Grounded
    <3>2. ASSUME NEW y \in S, t.place[y] = x PROVE FALSE
      <4>1. y # o
        BY <1>1, <3>1, <3>2 DEF U
      <4>2. g.place[y] = x
        BY <1>1, <3>2, <4>1
      <4>3. y \in U
        BY <2>a, <3>1, <4>2 DEF Closed
      <4>4. QED
        BY <3>1, <4>2, <4>3
    <3>3. QED
      BY <3>1, <3>2
  <2>3. CASE S \cap U = {}
    <3>1. PICK x \in S : \A y \in S : g.place[y] # x
      BY <1>0, <1>7 DEF Grounded
    <3>2. o \notin S
      BY <2>1, <2>3
    <3>3. QED
      BY <1>1, <3>1, <3>2
  <2>4. QED
    BY <2>2, <2>3
<1>8. Forest(t)
  BY <1>6, <1>7 DEF Forest, Grounded
<1>9. QED
  BY <1>1, <1>8 DEF Hooked

(* Taking o out of its place leaves a forest.                               *)
LEMMA UnplacedForest ==
  ASSUME NEW g, NEW t, Forest(g), NEW o \in Objs, NEW p \in Places, g.place[o] = p,
         t.contents = [g.contents EXCEPT ![p] = Without(@, {o})],
         t.place = [g.place EXCEPT ![o] = NULL]
  PROVE  Hooked(t, g, o, p)
<1>0. /\ g.contents \in [Places -> Seq(Objs)] /\ g.place \in [Objs -> Places \cup {NULL}]
      /\ \A q \in Places : IsInjective(g.contents[q])
      /\ \A q \in Places : ToSet(g.contents[q]) = {y \in Objs : g.place[y] = q}
      /\ Agrees(g) /\ Grounded(g)
  BY DEF Forest, Agrees
<1>1. /\ \A q \in Places : t.contents[q] = IF q = p THEN Without(g.contents[p], {o}) ELSE g.contents[q]
      /\ \A y \in Objs : t.place[y] = IF y = o THEN NULL ELSE g.place[y]
      /\ t.place \in [Objs -> Places \cup {NULL}]
      /\ DOMAIN t.contents = Places /\ t.contents = [q \in Places |-> t.contents[q]]
  BY <1>0
<1>2. /\ Without(g.contents[p], {o}) \in Seq(Objs)
      /\ ToSet(Without(g.contents[p], {o})) = ToSet(g.contents[p]) \ {o}
      /\ IsInjective(Without(g.contents[p], {o}))
  <2>1. g.contents[p] \in Seq(Objs) /\ IsInjective(g.contents[p])
    BY <1>0
  <2>2. QED
    BY <2>1, WithoutIs
<1>3. ASSUME NEW q \in Places PROVE t.contents[q] \in Seq(Objs) /\ IsInjective(t.contents[q])
  <2>1. CASE q = p
    BY <1>1, <1>2, <2>1
  <2>2. CASE q # p
    <3>1. t.contents[q] = g.contents[q]
      BY <1>1, <2>2
    <3>2. QED
      BY <1>0, <3>1
  <2>3. QED
    BY <2>1, <2>2
<1>4. t.contents \in [Places -> Seq(Objs)]
  BY <1>1, <1>3
<1>5. ASSUME NEW q \in Places PROVE ToSet(t.contents[q]) = {y \in Objs : t.place[y] = q}
  <2>0. q # NULL
    BY Apart
  <2>1. CASE q = p
    <3>1. ToSet(t.contents[q]) = {y \in Objs : g.place[y] = q} \ {o}
      BY <1>0, <1>1, <1>2, <2>1
    <3>2. QED
      BY <1>1, <2>0, <2>1, <3>1
  <2>2. CASE q # p
    <3>1. ToSet(t.contents[q]) = {y \in Objs : g.place[y] = q} /\ g.place[o] # q
      BY <1>0, <1>1, <2>2
    <3>2. QED
      BY <1>1, <2>0, <2>2, <3>1
  <2>3. QED
    BY <2>1, <2>2
<1>6. Agrees(t)
  BY <1>1, <1>3, <1>4, <1>5 DEF Agrees
<1>7. ASSUME NEW S \in SUBSET Objs, S # {} PROVE \E x \in S : \A y \in S : t.place[y] # x
  <2>1. PICK x \in S : \A y \in S : g.place[y] # x
    BY <1>0, <1>7 DEF Grounded
  <2>2. QED
    BY <1>1, <2>1, Apart
<1>8. Forest(t)
  BY <1>6, <1>7 DEF Forest, Grounded
<1>9. QED
  BY <1>1, <1>8 DEF Hooked

PutInto(g, o, p, t) ==
  /\ t \in HeapType /\ SameThings(t, g) /\ Hooked(g, t, o, p)
  /\ t.contents = [g.contents EXCEPT ![p] = <<o>> \o @]
  /\ t.place = [g.place EXCEPT ![o] = p]
  /\ \A c \in Chars : t.carry_number[c] =
       IF c = p THEN g.carry_number[c] + 1 ELSE g.carry_number[c]
  /\ \A c \in Chars : t.carry_weight[c] =
       IF o \in Carried(t, c) THEN g.carry_weight[c] + Total(g.weight, Under(g, o))
       ELSE g.carry_weight[c]
  /\ Total(g.weight, Under(g, o)) \in Int

(* To (obj_to_char, obj_to_room, obj_to_obj) does what PutInto says.        *)
LEMMA ToIs ==
  ASSUME NEW g \in HeapType, Forest(g), NEW o \in Objs, NEW p \in Places,
         g.place[o] = NULL, p \notin Under(g, o), NEW t, t = To(g, o, p)
  PROVE  PutInto(g, o, p, t)
<1> DEFINE a == [g EXCEPT !.contents[p] = <<o>> \o @, !.place[o] = p]
           b == Counted(a, p, 1)
           m == [g.contents EXCEPT ![p] = <<o>> \o @]
           q == [g.place EXCEPT ![o] = p]
<1>1. a = [g EXCEPT !.contents = m, !.place = q]
  BY DEF HeapType
<1>2. m \in [Places -> Seq(Objs)] /\ q \in [Objs -> Places \cup {NULL}]
  <2>1. g.contents[p] \in Seq(Objs)
    BY HeapFields
  <2>2. <<o>> \o g.contents[p] \in Seq(Objs)
    BY <2>1, InFront
  <2>3. QED
    BY <2>2, HeapFields
<1> HIDE DEF m, q
<1>3. /\ a \in HeapType /\ SameThings(a, g) /\ a.contents = m /\ a.place = q
      /\ a.carry_number = g.carry_number /\ a.carry_weight = g.carry_weight
  BY <1>1, <1>2 DEF HeapType, SameThings
<1> HIDE DEF a
<1>4. Hooked(g, a, o, p)
  BY <1>3, PlacedForest DEF m, q
<1>5. /\ b \in HeapType /\ SameThings(b, a) /\ b.contents = a.contents /\ b.place = a.place
      /\ b.carry_weight = a.carry_weight
      /\ \A c \in Chars : b.carry_number[c] =
            IF c = p THEN a.carry_number[c] + 1 ELSE a.carry_number[c]
  BY <1>3, CountedIs
<1>6. t = Borne(b, o, 1)
  BY DEF To, a
<1> HIDE DEF b
<1>7. /\ Weight(b, o) = Total(g.weight, Under(g, o)) /\ Weight(b, o) \in Int
      /\ \A c : Carried(b, c) = Carried(a, c)
  <2>1. Under(b, o) = Under(a, o) /\ \A c : Carried(b, c) = Carried(a, c)
    BY <1>5, SameTrees
  <2>2. Under(a, o) = Under(g, o)
    BY <1>4, HookedUnder
  <2>3. b.weight = g.weight /\ g.weight \in [Objs -> Int]
    BY <1>3, <1>5, HeapFields DEF SameThings
  <2>4. Total(g.weight, Under(g, o)) \in Int
    BY <2>3, TotalSame
  <2>5. Weight(b, o) = Total(b.weight, Under(b, o))
    BY DEF Weight, Under
  <2>6. QED
    BY <2>1, <2>2, <2>3, <2>4, <2>5
<1>8. /\ t \in HeapType /\ SameThings(t, b) /\ t.contents = b.contents /\ t.place = b.place
      /\ t.carry_number = b.carry_number
      /\ \A c \in Chars : t.carry_weight[c] =
           IF c \in Bearers(b, o) THEN b.carry_weight[c] + 1 * Weight(b, o) ELSE b.carry_weight[c]
  BY <1>5, <1>6, <1>7, BorneIs
<1>9. \A c \in Chars : Carried(t, c) = Carried(b, c) /\ (c \in Bearers(b, o) <=> o \in Carried(t, c))
  <2>1. \A c \in Chars : Carried(t, c) = Carried(b, c)
    BY <1>8, SameTrees
  <2>2. QED
    BY <2>1 DEF Bearers
<1>10. SameThings(t, g) /\ Hooked(g, t, o, p)
  <2>1. SameThings(t, g)
    BY <1>3, <1>5, <1>8 DEF SameThings
  <2>2. t.contents = m /\ t.place = q
    BY <1>3, <1>5, <1>8
  <2>3. QED
    BY <2>1, <2>2, PlacedForest DEF m, q
<1>11. ASSUME NEW c \in Chars
       PROVE  t.carry_weight[c] =
                IF o \in Carried(t, c) THEN g.carry_weight[c] + Total(g.weight, Under(g, o))
                ELSE g.carry_weight[c]
  <2>1. 1 * Weight(b, o) = Total(g.weight, Under(g, o))
    BY <1>7
  <2>2. b.carry_weight[c] = g.carry_weight[c]
    BY <1>3, <1>5
  <2>3. QED
    BY <1>8, <1>9, <2>1, <2>2
<1>12. t.contents = [g.contents EXCEPT ![p] = <<o>> \o @] /\ t.place = [g.place EXCEPT ![o] = p]
  BY <1>3, <1>5, <1>8 DEF m, q
<1>13. QED
  BY <1>3, <1>5, <1>7, <1>8, <1>10, <1>11, <1>12 DEF PutInto

TakenFrom(g, o, p, t) ==
  /\ t \in HeapType /\ SameThings(t, g) /\ Hooked(t, g, o, p)
  /\ t.contents = [g.contents EXCEPT ![p] = Without(@, {o})]
  /\ t.place = [g.place EXCEPT ![o] = NULL]
  /\ \A c \in Chars : t.carry_number[c] =
       IF c = p THEN g.carry_number[c] - 1 ELSE g.carry_number[c]
  /\ \A c \in Chars : t.carry_weight[c] =
       IF o \in Carried(g, c) THEN g.carry_weight[c] - Total(g.weight, Under(g, o))
       ELSE g.carry_weight[c]
  /\ Total(g.weight, Under(g, o)) \in Int

(* From (obj_from_char, obj_from_room, obj_from_obj) does as TakenFrom says. *)
LEMMA FromIs ==
  ASSUME NEW g \in HeapType, Forest(g), NEW o \in Objs, NEW p \in Places,
         g.place[o] = p, NEW t, t = From(g, o)
  PROVE  TakenFrom(g, o, p, t)
<1> DEFINE b == Borne(g, o, -1)
           e == Counted(b, p, -1)
           m == [g.contents EXCEPT ![p] = Without(@, {o})]
           q == [g.place EXCEPT ![o] = NULL]
<1>0. Weight(g, o) = Total(g.weight, Under(g, o)) /\ Total(g.weight, Under(g, o)) \in Int
  <2>1. g.weight \in [Objs -> Int]
    BY HeapFields
  <2>2. Total(g.weight, Under(g, o)) \in Int
    BY <2>1, TotalSame
  <2>3. QED
    BY <2>2 DEF Weight, Under
<1>1. /\ b \in HeapType /\ SameThings(b, g) /\ b.contents = g.contents /\ b.place = g.place
      /\ b.carry_number = g.carry_number
      /\ \A c \in Chars : b.carry_weight[c] =
           IF c \in Bearers(g, o) THEN g.carry_weight[c] + (-1) * Weight(g, o) ELSE g.carry_weight[c]
  <2>1. -1 \in Int /\ Weight(g, o) \in Int
    BY <1>0
  <2>2. QED
    BY <2>1, BorneIs
<1> HIDE DEF b
<1>2. /\ e \in HeapType /\ SameThings(e, b) /\ e.contents = b.contents /\ e.place = b.place
      /\ e.carry_weight = b.carry_weight
      /\ \A c \in Chars : e.carry_number[c] =
            IF c = p THEN b.carry_number[c] + (-1) ELSE b.carry_number[c]
  <2>1. -1 \in Int
    OBVIOUS
  <2>2. QED
    BY <1>1, <2>1, CountedIs
<1> HIDE DEF e
<1>3. t = [e EXCEPT !.contents[p] = Without(@, {o}), !.place[o] = NULL]
  BY Apart DEF From, e, b
<1>4. e.contents = g.contents /\ e.place = g.place
  BY <1>1, <1>2
<1>5. t = [e EXCEPT !.contents = m, !.place = q]
  BY <1>2, <1>3, <1>4 DEF HeapType
<1>6. m \in [Places -> Seq(Objs)] /\ q \in [Objs -> Places \cup {NULL}]
  <2>1. g.contents[p] \in Seq(Objs)
    BY HeapFields
  <2>2. Without(g.contents[p], {o}) \in Seq(Objs)
    BY <2>1, WithoutIs
  <2>3. QED
    BY <2>2, HeapFields
<1> HIDE DEF m, q
<1>7. /\ t \in HeapType /\ SameThings(t, e) /\ t.contents = m /\ t.place = q
      /\ t.carry_number = e.carry_number /\ t.carry_weight = e.carry_weight
  BY <1>2, <1>5, <1>6 DEF HeapType, SameThings
<1>8. SameThings(t, g)
  BY <1>1, <1>2, <1>7 DEF SameThings
<1>9. Hooked(t, g, o, p)
  BY <1>7, UnplacedForest DEF m, q
<1>10. ASSUME NEW c \in Chars
       PROVE  t.carry_weight[c] =
                IF o \in Carried(g, c) THEN g.carry_weight[c] - Total(g.weight, Under(g, o))
                ELSE g.carry_weight[c]
  <2>1. c \in Bearers(g, o) <=> o \in Carried(g, c)
    BY DEF Bearers
  <2>2. g.carry_weight[c] \in Int
    BY HeapFields
  <2>3. t.carry_weight[c] = IF c \in Bearers(g, o) THEN g.carry_weight[c] + (-1) * Weight(g, o)
                            ELSE g.carry_weight[c]
    BY <1>1, <1>2, <1>7
  <2>4. QED
    BY <1>0, <2>1, <2>2, <2>3
<1>11. \A c \in Chars : t.carry_number[c] =
              IF c = p THEN g.carry_number[c] - 1 ELSE g.carry_number[c]
  BY <1>1, <1>2, <1>7, HeapFields
<1>12. t.contents = [g.contents EXCEPT ![p] = Without(@, {o})] /\ t.place = [g.place EXCEPT ![o] = NULL]
  BY <1>7 DEF m, q
<1>13. QED
  BY <1>0, <1>7, <1>8, <1>9, <1>10, <1>11, <1>12 DEF TakenFrom

-----------------------------------------------------------------------------
(* A heap in order, but for the things in L, which exist and lie nowhere:  *)
(* they are on their way somewhere.                                        *)
Tidy(g, L) ==
  /\ g \in HeapType /\ Forest(g)
  /\ Listed(g.object_list) /\ Listed(g.obj_free)
  /\ ToSet(g.object_list) \cap ToSet(g.obj_free) = {}
  /\ Live(g) \cup ToSet(g.obj_free) = 1 .. g.made
  /\ \A o \in Objs : o \in Live(g) <=> g.place[o] # NULL \/ o \in L
  /\ \A o \in L : o \in Objs /\ g.place[o] = NULL
  /\ \A o \in Objs : g.place[o] \in Objs => g.place[o] \in Live(g)

(* The sums agree with a count, but for d.                                  *)
Square(g, d) ==
  \A c \in Chars : /\ g.carry_number[c] = Len(g.contents[c])
                   /\ g.carry_weight[c] + d[c] = Total(g.weight, Carried(g, c))

(* To keeps lists tidy and sums right, and o is no longer on its way.       *)
LEMMA ToTidy ==
  ASSUME NEW g, NEW L, Tidy(g, L), NEW d \in [Chars -> Int], Square(g, d),
         NEW o \in L, NEW p \in Places, p \notin Under(g, o), p \in Objs => p \in Live(g),
         NEW t, t = To(g, o, p)
  PROVE  Tidy(t, L \ {o}) /\ Square(t, d)
<1>0. g \in HeapType /\ Forest(g) /\ o \in Objs /\ g.place[o] = NULL /\ p # NULL
  BY Apart DEF Tidy
<1>1. /\ t \in HeapType /\ SameThings(t, g) /\ Hooked(g, t, o, p)
      /\ t.contents = [g.contents EXCEPT ![p] = <<o>> \o @]
      /\ t.place = [g.place EXCEPT ![o] = p]
      /\ \A c \in Chars : t.carry_number[c] =
           IF c = p THEN g.carry_number[c] + 1 ELSE g.carry_number[c]
      /\ \A c \in Chars : t.carry_weight[c] =
           IF o \in Carried(t, c) THEN g.carry_weight[c] + Total(g.weight, Under(g, o))
           ELSE g.carry_weight[c]
      /\ Total(g.weight, Under(g, o)) \in Int
  <2>1. PutInto(g, o, p, t)
    BY <1>0, ToIs
  <2>2. QED
    BY <2>1 DEF PutInto
<1>2. \A y \in Objs : t.place[y] = IF y = o THEN p ELSE g.place[y]
  BY <1>0, <1>1, HeapFields
<1>3. Tidy(t, L \ {o})
  <2>1. Forest(t) /\ Live(t) = Live(g)
    BY <1>1 DEF Hooked, SameThings, Live
  <2>2. /\ Listed(t.object_list) /\ Listed(t.obj_free)
        /\ ToSet(t.object_list) \cap ToSet(t.obj_free) = {}
        /\ Live(t) \cup ToSet(t.obj_free) = 1 .. t.made
    BY <1>1 DEF Tidy, SameThings, Live
  <2>3. /\ \A y \in Objs : y \in Live(g) <=> g.place[y] # NULL \/ y \in L
        /\ \A y \in L : y \in Objs /\ g.place[y] = NULL
        /\ \A y \in Objs : g.place[y] \in Objs => g.place[y] \in Live(g)
    BY DEF Tidy
  <2>4. \A y \in Objs : y \in Live(t) <=> t.place[y] # NULL \/ y \in L \ {o}
    BY <1>0, <1>2, <2>1, <2>3
  <2>5. \A y \in L \ {o} : y \in Objs /\ t.place[y] = NULL
    BY <1>2, <2>3
  <2>6. \A y \in Objs : t.place[y] \in Objs => t.place[y] \in Live(t)
    BY <1>0, <1>2, <2>1, <2>3
  <2>7. QED
    BY <1>1, <2>1, <2>2, <2>4, <2>5, <2>6 DEF Tidy
<1>4. ASSUME NEW c \in Chars
      PROVE  /\ t.carry_number[c] = Len(t.contents[c])
             /\ t.carry_weight[c] + d[c] = Total(t.weight, Carried(t, c))
  <2>0. c \in Places /\ g.contents[c] \in Seq(Objs) /\ t.weight = g.weight /\ g.weight \in [Objs -> Int]
        /\ g.carry_number[c] \in Int /\ g.carry_weight[c] \in Int
    <3>1. c \in Places /\ t.weight = g.weight
      BY <1>1, Apart DEF SameThings
    <3>2. /\ g.contents \in [Places -> Seq(Objs)] /\ g.weight \in [Objs -> Nat]
          /\ g.carry_number \in [Chars -> Int] /\ g.carry_weight \in [Chars -> Int]
      BY <1>0, HeapFields
    <3>3. QED
      BY <3>1, <3>2
  <2>1. g.carry_number[c] = Len(g.contents[c])
        /\ g.carry_weight[c] + d[c] = Total(g.weight, Carried(g, c))
    BY DEF Square
  <2>2. t.carry_number[c] = Len(t.contents[c])
    <3>1. CASE c = p
      <4>1. t.contents[c] = <<o>> \o g.contents[c]
        BY <1>0, <1>1, <3>1, HeapFields
      <4>2. Len(<<o>> \o g.contents[c]) = Len(g.contents[c]) + 1
        BY <1>0, <2>0, InFront
      <4>3. QED
        BY <1>1, <2>1, <3>1, <4>1, <4>2
    <3>2. CASE c # p
      <4>1. t.contents[c] = g.contents[c]
        BY <1>0, <1>1, <2>0, <3>2, HeapFields
      <4>2. QED
        BY <1>1, <2>1, <3>2, <4>1
    <3>3. QED
      BY <3>1, <3>2
  <2>3. /\ Carried(t, c) = IF o \in Carried(t, c) THEN Carried(g, c) \cup Under(g, o)
                           ELSE Carried(g, c)
        /\ Carried(g, c) \cap Under(g, o) = {}
    BY <1>1, HookedCarried
  <2>4. CASE o \in Carried(t, c)
    <3>1. Total(g.weight, Carried(t, c)) = Total(g.weight, Carried(g, c)) + Total(g.weight, Under(g, o))
      <4>1. Carried(t, c) = Carried(g, c) \cup Under(g, o) /\ Carried(g, c) \cap Under(g, o) = {}
        BY <2>3, <2>4
      <4>2. QED
        BY <2>0, <4>1, TotalBoth
    <3>2. t.carry_weight[c] = g.carry_weight[c] + Total(g.weight, Under(g, o))
      BY <1>1, <2>4
    <3>3. d[c] \in Int /\ Total(g.weight, Under(g, o)) \in Int
      BY <1>1
    <3>4. t.carry_weight[c] + d[c] = Total(g.weight, Carried(t, c))
      BY <2>0, <2>1, <3>1, <3>2, <3>3
    <3>5. QED
      BY <2>0, <2>2, <3>4
  <2>5. CASE o \notin Carried(t, c)
    BY <1>1, <2>0, <2>1, <2>2, <2>3, <2>5
  <2>6. QED
    BY <2>4, <2>5
<1>5. QED
  BY <1>3, <1>4 DEF Square

(* From keeps lists tidy and sums right, and leaves o on its way.           *)
LEMMA FromTidy ==
  ASSUME NEW g, NEW L, Tidy(g, L), NEW d \in [Chars -> Int], Square(g, d),
         NEW o \in Objs, g.place[o] # NULL, NEW t, t = From(g, o)
  PROVE  Tidy(t, L \cup {o}) /\ Square(t, d)
<1> DEFINE p == g.place[o]
<1>0. g \in HeapType /\ Forest(g) /\ p \in Places /\ p # NULL
  BY HeapFields DEF Tidy
<1>1. /\ t \in HeapType /\ SameThings(t, g) /\ Hooked(t, g, o, p)
      /\ t.contents = [g.contents EXCEPT ![p] = Without(@, {o})]
      /\ t.place = [g.place EXCEPT ![o] = NULL]
      /\ \A c \in Chars : t.carry_number[c] =
           IF c = p THEN g.carry_number[c] - 1 ELSE g.carry_number[c]
      /\ \A c \in Chars : t.carry_weight[c] =
           IF o \in Carried(g, c) THEN g.carry_weight[c] - Total(g.weight, Under(g, o))
           ELSE g.carry_weight[c]
      /\ Total(g.weight, Under(g, o)) \in Int
  <2>1. TakenFrom(g, o, p, t)
    BY <1>0, FromIs
  <2>2. QED
    BY <2>1 DEF TakenFrom
<1>2. \A y \in Objs : t.place[y] = IF y = o THEN NULL ELSE g.place[y]
  BY <1>0, <1>1, HeapFields
<1>3. Tidy(t, L \cup {o})
  <2>1. Forest(t) /\ Live(t) = Live(g)
    BY <1>1 DEF Hooked, SameThings, Live
  <2>2. /\ Listed(t.object_list) /\ Listed(t.obj_free)
        /\ ToSet(t.object_list) \cap ToSet(t.obj_free) = {}
        /\ Live(t) \cup ToSet(t.obj_free) = 1 .. t.made
    BY <1>1 DEF Tidy, SameThings, Live
  <2>3. /\ \A y \in Objs : y \in Live(g) <=> g.place[y] # NULL \/ y \in L
        /\ \A y \in L : y \in Objs /\ g.place[y] = NULL
        /\ \A y \in Objs : g.place[y] \in Objs => g.place[y] \in Live(g)
    BY DEF Tidy
  <2>4. \A y \in Objs : y \in Live(t) <=> t.place[y] # NULL \/ y \in L \cup {o}
    BY <1>0, <1>2, <2>1, <2>3
  <2>5. \A y \in L \cup {o} : y \in Objs /\ t.place[y] = NULL
    BY <1>2, <2>3
  <2>6. \A y \in Objs : t.place[y] \in Objs => t.place[y] \in Live(t)
    BY <1>2, <2>1, <2>3, Apart
  <2>7. QED
    BY <1>1, <2>1, <2>2, <2>4, <2>5, <2>6 DEF Tidy
<1>4. ASSUME NEW c \in Chars
      PROVE  /\ t.carry_number[c] = Len(t.contents[c])
             /\ t.carry_weight[c] + d[c] = Total(t.weight, Carried(t, c))
  <2>0. c \in Places /\ g.contents[c] \in Seq(Objs) /\ t.weight = g.weight /\ g.weight \in [Objs -> Int]
        /\ g.carry_number[c] \in Int /\ g.carry_weight[c] \in Int
    <3>1. c \in Places /\ t.weight = g.weight
      BY <1>1, Apart DEF SameThings
    <3>2. /\ g.contents \in [Places -> Seq(Objs)] /\ g.weight \in [Objs -> Nat]
          /\ g.carry_number \in [Chars -> Int] /\ g.carry_weight \in [Chars -> Int]
      BY <1>0, HeapFields
    <3>3. QED
      BY <3>1, <3>2
  <2>1. g.carry_number[c] = Len(g.contents[c])
        /\ g.carry_weight[c] + d[c] = Total(g.weight, Carried(g, c))
    BY DEF Square
  <2>2. t.carry_number[c] = Len(t.contents[c])
    <3>1. CASE c = p
      <4>1. t.contents[c] = Without(g.contents[c], {o})
        BY <1>0, <1>1, <3>1, HeapFields
      <4>2. o \in ToSet(g.contents[c]) /\ Listed(g.contents[c])
        BY <1>0, <3>1, Contents DEF Listed, Forest
      <4>3. Len(Without(g.contents[c], {o})) = Len(g.contents[c]) - 1
        BY <4>2, WithoutOne
      <4>4. QED
        BY <1>1, <2>1, <3>1, <4>1, <4>3
    <3>2. CASE c # p
      <4>1. t.contents[c] = g.contents[c]
        BY <1>0, <1>1, <2>0, <3>2, HeapFields
      <4>2. QED
        BY <1>1, <2>1, <3>2, <4>1
    <3>3. QED
      BY <3>1, <3>2
  <2>3. /\ Carried(g, c) = IF o \in Carried(g, c) THEN Carried(t, c) \cup Under(t, o)
                           ELSE Carried(t, c)
        /\ Carried(t, c) \cap Under(t, o) = {} /\ Under(t, o) = Under(g, o)
    BY <1>1, HookedCarried, HookedUnder
  <2>4. CASE o \in Carried(g, c)
    <3>1. /\ Total(g.weight, Carried(g, c)) = Total(g.weight, Carried(t, c)) + Total(g.weight, Under(g, o))
          /\ Total(g.weight, Carried(t, c)) \in Int
      <4>1. Carried(g, c) = Carried(t, c) \cup Under(g, o) /\ Carried(t, c) \cap Under(g, o) = {}
        BY <2>3, <2>4
      <4>2. g.weight \in [Objs -> Int]
        BY <2>0
      <4> DEFINE R == Carried(g, c)
                 S == Carried(t, c)
                 T == Under(g, o)
                 w == g.weight
      <4>3. w \in [Objs -> Int] /\ R = S \cup T /\ S \cap T = {}
        BY <4>1, <4>2
      <4> HIDE DEF R, S, T, w
      <4>4. Total(w, R) = Total(w, S) + Total(w, T) /\ Total(w, S) \in Int
        BY <4>3, TotalBoth
      <4>5. QED
        BY <4>4 DEF R, S, T, w
    <3>2. t.carry_weight[c] = g.carry_weight[c] - Total(g.weight, Under(g, o))
      BY <1>1, <2>4
    <3>3. d[c] \in Int /\ Total(g.weight, Under(g, o)) \in Int
      BY <1>1
    <3>a. g.carry_weight[c] \in Int /\ g.carry_weight[c] + d[c] = Total(g.weight, Carried(g, c))
      BY <2>0, <2>1
    <3>4. t.carry_weight[c] + d[c] = Total(g.weight, Carried(t, c))
      BY <3>a, <3>1, <3>2, <3>3
    <3>5. QED
      BY <2>0, <2>2, <3>4
  <2>5. CASE o \notin Carried(g, c)
    BY <1>1, <2>0, <2>1, <2>2, <2>3, <2>5
  <2>6. QED
    BY <2>4, <2>5
<1>5. QED
  BY <1>3, <1>4 DEF Square

-----------------------------------------------------------------------------
(* Extraction.  RidOf: where things lie that are in no other thing is as   *)
(* it was, but for o, which is gone from there.                            *)
RidOf(g, t, o) == \A y \in Objs, p \in Places \ Objs : t.place[y] = p <=> g.place[y] = p /\ y # o

(* What has a place is in the game, and so is what is on its way.           *)
LEMMA LiveIs ==
  ASSUME NEW g, NEW L, Tidy(g, L)
  PROVE  /\ Live(g) \subseteq Objs /\ L \subseteq Live(g)
         /\ \A o \in Objs : g.place[o] # NULL => o \in Live(g)
<1>1. g.object_list \in Seq(Objs)
  BY DEF Tidy, Listed
<1>2. Live(g) \subseteq Objs
  BY <1>1, SeqIs DEF Live
<1>3. QED
  BY <1>2 DEF Tidy

(* What is under o is under it still when o is taken from its place.        *)
LEMMA Loosened ==
  ASSUME NEW g, NEW L, Tidy(g, L), NEW d \in [Chars -> Int], Square(g, d),
         NEW o \in Live(g), NEW f, f = From(g, o)
  PROVE  /\ Tidy(f, L \cup {o}) /\ Square(f, d) /\ f.place[o] = NULL
         /\ Under(f, o) = Under(g, o)
         /\ \A y \in Objs : y # o => f.place[y] = g.place[y]
         /\ SameThings(f, g)
         /\ g.place[o] # NULL => Hooked(f, g, o, g.place[o])
<1>0. o \in Objs /\ g \in HeapType /\ Forest(g)
  BY LiveIs DEF Tidy
<1>1. CASE g.place[o] = NULL
  <2>1. f = g
    BY <1>1 DEF From
  <2>2. o \in L
    BY <1>0, <1>1 DEF Tidy
  <2>3. L \cup {o} = L
    BY <2>2
  <2>4. QED
    BY <1>1, <2>1, <2>3 DEF SameThings
<1>2. CASE g.place[o] # NULL
  <2>1. g.place[o] \in Places
    BY <1>0, <1>2, HeapFields
  <2>2. TakenFrom(g, o, g.place[o], f)
    BY <1>0, <2>1, FromIs
  <2>3. Hooked(f, g, o, g.place[o]) /\ SameThings(f, g)
    BY <2>2 DEF TakenFrom
  <2>4. Tidy(f, L \cup {o}) /\ Square(f, d)
    BY <1>0, <1>2, FromTidy
  <2>5. Under(f, o) = Under(g, o)
    BY <2>3, HookedUnder
  <2>6. f.place[o] = NULL /\ \A y \in Objs : y # o => f.place[y] = g.place[y]
    BY <2>3 DEF Hooked
  <2>7. QED
    BY <2>3, <2>4, <2>5, <2>6
<1>3. QED
  BY <1>1, <1>2

Loses(f, t, o) ==
  /\ t.contents = [p \in Places |-> IF p \in Under(f, o) THEN << >> ELSE f.contents[p]]
  /\ t.place = [x \in Objs |-> IF x \in Under(f, o) THEN NULL ELSE f.place[x]]
  /\ t.object_list = Without(f.object_list, Under(f, o))
  /\ ToSet(t.obj_free) = Under(f, o) \cup ToSet(f.obj_free) /\ Listed(t.obj_free)
  /\ t.made = f.made /\ t.weight = f.weight
  /\ t.carry_number = f.carry_number /\ t.carry_weight = f.carry_weight

(* Unlinking all of a branch leaves a forest.                               *)
LEMMA LosesForest ==
  ASSUME NEW f, NEW t, NEW o \in Objs, Forest(f), f.place[o] = NULL, Loses(f, t, o)
  PROVE  /\ Forest(t)
         /\ \A x \in Objs : x \in Under(f, o) <=> x = o \/ f.place[x] \in Under(f, o)
<1> DEFINE gone == Under(f, o)
<1>0. /\ f.contents \in [Places -> Seq(Objs)] /\ f.place \in [Objs -> Places \cup {NULL}]
      /\ \A q \in Places : IsInjective(f.contents[q])
      /\ \A q \in Places : ToSet(f.contents[q]) = {y \in Objs : f.place[y] = q}
      /\ Grounded(f)
  BY DEF Forest, Agrees
<1>1. gone \subseteq Objs /\ o \in gone
  BY UnderIs
<1>2. \A x \in Objs : x \in gone <=> x = o \/ f.place[x] \in gone
  BY <1>1, UnderClosed, UnderUp DEF Closed
<1> HIDE DEF gone
<1>3. /\ \A p \in Places : t.contents[p] = IF p \in gone THEN << >> ELSE f.contents[p]
      /\ \A x \in Objs : t.place[x] = IF x \in gone THEN NULL ELSE f.place[x]
      /\ t.contents = [p \in Places |-> t.contents[p]] /\ t.place = [x \in Objs |-> t.place[x]]
  BY DEF Loses, gone
<1>4. << >> \in Seq(Objs) /\ IsInjective(<< >>) /\ ToSet(<< >>) = {}
  BY DEF IsInjective, ToSet
<1>5. \A p \in Places : t.contents[p] \in Seq(Objs) /\ IsInjective(t.contents[p])
  BY <1>0, <1>3, <1>4
<1>6. \A x \in Objs : t.place[x] \in Places \cup {NULL}
  BY <1>0, <1>3
<1>7. ASSUME NEW q \in Places PROVE ToSet(t.contents[q]) = {y \in Objs : t.place[y] = q}
  <2>0. q # NULL
    BY Apart
  <2>1. CASE q \in gone
    <3>1. \A y \in Objs : t.place[y] # q
      BY <1>2, <1>3, <2>0, <2>1
    <3>2. QED
      BY <1>3, <1>4, <2>1, <3>1
  <2>2. CASE q \notin gone
    <3>1. \A y \in Objs : t.place[y] = q <=> f.place[y] = q
      BY <1>1, <1>2, <1>3, <2>0, <2>2
    <3>2. ToSet(t.contents[q]) = {y \in Objs : f.place[y] = q}
      BY <1>0, <1>3, <2>2
    <3>3. QED
      BY <3>1, <3>2
  <2>3. QED
    BY <2>1, <2>2
<1>8. Agrees(t)
  BY <1>3, <1>5, <1>6, <1>7 DEF Agrees
<1>9. ASSUME NEW S \in SUBSET Objs, S # {} PROVE \E x \in S : \A y \in S : t.place[y] # x
  <2>1. PICK x \in S : \A y \in S : f.place[y] # x
    BY <1>0, <1>9 DEF Grounded
  <2>2. QED
    BY <1>3, <2>1, Apart
<1>10. QED
  BY <1>2, <1>8, <1>9 DEF Forest, Grounded, gone

(* Freeing all of a loose branch keeps lists tidy and sums right.           *)
LEMMA LosesTidy ==
  ASSUME NEW f, NEW M, Tidy(f, M), NEW d \in [Chars -> Int], Square(f, d), NEW o \in M,
         NEW t \in HeapType, Loses(f, t, o)
  PROVE  Tidy(t, M \ {o}) /\ Square(t, d)
<1> DEFINE gone == Under(f, o)
<1>0. o \in Objs /\ f.place[o] = NULL /\ Forest(f) /\ f \in HeapType
  BY DEF Tidy
<1>1. gone \subseteq Objs /\ o \in gone
  BY <1>0, UnderIs
<1>2. Forest(t) /\ \A x \in Objs : x \in gone <=> x = o \/ f.place[x] \in gone
  BY <1>0, LosesForest
<1>3. /\ \A p \in Places : t.contents[p] = IF p \in gone THEN << >> ELSE f.contents[p]
      /\ \A x \in Objs : t.place[x] = IF x \in gone THEN NULL ELSE f.place[x]
      /\ t.object_list = Without(f.object_list, gone)
      /\ ToSet(t.obj_free) = gone \cup ToSet(f.obj_free) /\ Listed(t.obj_free)
      /\ t.made = f.made /\ t.weight = f.weight
      /\ t.carry_number = f.carry_number /\ t.carry_weight = f.carry_weight
  BY DEF Loses
<1>4. /\ Listed(f.object_list) /\ Listed(f.obj_free)
      /\ Live(f) \cap ToSet(f.obj_free) = {} /\ Live(f) \cup ToSet(f.obj_free) = 1 .. f.made
      /\ \A y \in Objs : y \in Live(f) <=> f.place[y] # NULL \/ y \in M
      /\ \A y \in M : y \in Objs /\ f.place[y] = NULL
      /\ \A y \in Objs : f.place[y] \in Objs => f.place[y] \in Live(f)
  BY DEF Tidy, Live
<1> HIDE DEF gone
<1>5. Listed(t.object_list) /\ Live(t) = Live(f) \ gone
  BY <1>3, <1>4, WithoutIs DEF Listed, Live
<1>a. NULL \notin gone
  BY <1>1, Apart
<1>6. ASSUME NEW x \in gone PROVE x \in Live(f)
  <2>1. x \in Objs /\ (x = o \/ f.place[x] # NULL)
    BY <1>1, <1>2, <1>a
  <2>2. QED
    BY <1>4, <2>1
<1>7. /\ ToSet(t.object_list) \cap ToSet(t.obj_free) = {}
      /\ Live(t) \cup ToSet(t.obj_free) = 1 .. t.made
  BY <1>3, <1>4, <1>5, <1>6 DEF Live
<1>8. \A y \in M \ {o} : y \in Objs /\ t.place[y] = NULL /\ y \notin gone
  <2>1. ASSUME NEW y \in M \ {o} PROVE y \in Objs /\ f.place[y] = NULL /\ y \notin gone
    BY <1>2, <1>4, <1>a
  <2>2. QED
    BY <1>3, <2>1
<1>9. ASSUME NEW y \in Objs PROVE y \in Live(t) <=> t.place[y] # NULL \/ y \in M \ {o}
  <2>1. CASE y \in gone
    BY <1>3, <1>5, <1>8, <2>1
  <2>2. CASE y \notin gone
    <3>1. y # o /\ t.place[y] = f.place[y]
      BY <1>1, <1>3, <2>2
    <3>2. QED
      BY <1>4, <1>5, <2>2, <3>1
  <2>3. QED
    BY <2>1, <2>2
<1>10. ASSUME NEW y \in Objs, t.place[y] \in Objs PROVE t.place[y] \in Live(t)
  <2>1. y \notin gone /\ t.place[y] = f.place[y]
    BY <1>3, <1>10, Apart
  <2>2. f.place[y] \notin gone /\ f.place[y] \in Live(f)
    BY <1>2, <1>4, <1>10, <2>1
  <2>3. QED
    BY <1>5, <2>1, <2>2
<1>11. Tidy(t, M \ {o})
  BY <1>2, <1>3, <1>5, <1>7, <1>8, <1>9, <1>10 DEF Tidy
<1>12. ASSUME NEW c \in Chars
       PROVE  t.contents[c] = f.contents[c] /\ Carried(t, c) = Carried(f, c)
  <2>0. c \in Places /\ c \notin Objs /\ c # NULL
    BY Apart
  <2>1. t.contents[c] = f.contents[c]
    BY <1>1, <1>3, <2>0
  <2>2. ASSUME NEW x \in Objs, f.place[x] = c PROVE t.place[x] = c /\ Under(t, x) = Under(f, x)
    <3>1. x # o /\ f.place[x] \notin Objs /\ f.place[o] \notin Objs
      BY <1>0, <2>0, <2>2, Apart
    <3>2. x \notin gone /\ o \notin Under(f, x)
      BY <1>0, <3>1, NotUnder DEF gone
    <3>3. Under(f, x) \cap gone = {}
      BY <1>0, <3>2, ApartOrUnder DEF gone
    <3>4. Closed(f, Under(f, x)) /\ NULL \notin Under(f, x)
      BY <1>0, UnderClosed, UnderIs, Apart
    <3>5. ASSUME NEW y \in Objs, f.place[y] \in Under(f, x) \/ t.place[y] \in Under(f, x)
          PROVE  t.place[y] = f.place[y]
      <4>1. CASE y \in gone
        <5>1. f.place[y] \in Under(f, x)
          BY <1>3, <3>4, <3>5, <4>1
        <5>2. y \in Under(f, x)
          BY <3>4, <5>1 DEF Closed
        <5>3. QED
          BY <3>3, <4>1, <5>2
      <4>2. CASE y \notin gone
        BY <1>3, <4>2
      <4>3. QED
        BY <4>1, <4>2
    <3>6. Under(t, x) = Under(f, x)
      BY <1>0, <1>2, <3>5, UnderSame
    <3>7. QED
      BY <1>3, <2>2, <3>2, <3>6
  <2>3. \A x \in Objs : t.place[x] = c => f.place[x] = c
    BY <1>3, <2>0
  <2>4. ASSUME NEW z PROVE z \in Carried(t, c) <=> z \in Carried(f, c)
    <3>1. z \in Carried(t, c) <=> \E x \in Objs : t.place[x] = c /\ z \in Under(t, x)
      BY <1>2, CarriedIs
    <3>2. z \in Carried(f, c) <=> \E x \in Objs : f.place[x] = c /\ z \in Under(f, x)
      BY <1>0, CarriedIs
    <3>3. QED
      BY <2>2, <2>3, <3>1, <3>2
  <2>5. Carried(t, c) = Carried(f, c)
    BY <2>4
  <2>6. QED
    BY <2>1, <2>5
<1>13. Square(t, d)
  BY <1>3, <1>12 DEF Square
<1>14. QED
  BY <1>11, <1>13

(* Which is what the inner calls of extract_obj do.                         *)
LEMMA FreedTidy ==
  ASSUME NEW g, NEW L, Tidy(g, L), NEW d \in [Chars -> Int], Square(g, d),
         NEW o \in Live(g), NEW t, t = Freed(g, o)
  PROVE  Tidy(t, L \ {o}) /\ Square(t, d) /\ RidOf(g, t, o) /\ t.made = g.made
<1> DEFINE f == From(g, o)
           gone == Under(f, o)
           m == [p \in Places |-> IF p \in gone THEN << >> ELSE f.contents[p]]
           q == [x \in Objs |-> IF x \in gone THEN NULL ELSE f.place[x]]
           l == Without(f.object_list, gone)
           e == Reverse(Doomed(g, o)) \o f.obj_free
<1>0. o \in Objs /\ Forest(g)
  BY LiveIs DEF Tidy
<1>1. /\ Tidy(f, L \cup {o}) /\ Square(f, d) /\ f.place[o] = NULL
      /\ gone = Under(g, o) /\ \A y \in Objs : y # o => f.place[y] = g.place[y]
      /\ f.made = g.made
  BY Loosened DEF SameThings
<1>2. f \in HeapType /\ Listed(f.object_list) /\ Listed(f.obj_free) /\ Forest(f)
      /\ Live(f) \cap ToSet(f.obj_free) = {}
  BY <1>1 DEF Tidy, Live
<1>3. t = [f EXCEPT !.contents = m, !.place = q, !.object_list = l, !.obj_free = e]
  <2>1. ToSet(Doomed(g, o)) = gone
    BY <1>1 DEF Under
  <2> HIDE DEF gone
  <2>2. t = [f EXCEPT !.contents = [p \in Places |-> IF p \in gone THEN << >> ELSE @[p]],
                      !.place = [x \in Objs |-> IF x \in gone THEN NULL ELSE @[x]],
                      !.object_list = Without(@, gone),
                      !.obj_free = Reverse(Doomed(g, o)) \o @]
    BY <2>1 DEF Freed, f
  <2>3. QED
    BY <1>2, <2>2 DEF HeapType
<1>4. gone \subseteq Objs /\ o \in gone /\ gone \subseteq Live(f)
  <2>1. gone \subseteq Objs /\ o \in gone
    BY <1>0, <1>2, UnderIs
  <2>2. ASSUME NEW x \in gone PROVE x \in Live(f)
    <3>1. CASE x = o
      BY <1>1, <3>1 DEF Tidy
    <3>2. CASE x # o
      <4>1. f.place[x] \in gone
        BY <1>0, <1>2, <3>2, UnderUp
      <4>2. f.place[x] # NULL /\ x \in Objs
        BY <2>1, <4>1, Apart
      <4>3. QED
        BY <1>1, <4>2, LiveIs
    <3>3. QED
      BY <3>1, <3>2
  <2>3. QED
    BY <2>1, <2>2
<1>5. e \in Seq(Objs) /\ ToSet(e) = gone \cup ToSet(f.obj_free) /\ IsInjective(e)
  <2>1. Listed(Doomed(g, o)) /\ ToSet(Doomed(g, o)) = gone
    BY <1>0, <1>1, DoomedOnce DEF Under
  <2>2. /\ Reverse(Doomed(g, o)) \in Seq(Objs) /\ IsInjective(Reverse(Doomed(g, o)))
        /\ ToSet(Reverse(Doomed(g, o))) = gone
    BY <2>1, Reversed DEF Listed
  <2>3. f.obj_free \in Seq(Objs) /\ IsInjective(f.obj_free) /\ gone \cap ToSet(f.obj_free) = {}
    BY <1>2, <1>4 DEF Listed
  <2>4. QED
    BY <2>2, <2>3, Concat
<1> HIDE DEF f, gone, e
<1>6. m \in [Places -> Seq(Objs)] /\ q \in [Objs -> Places \cup {NULL}] /\ l \in Seq(Objs)
  <2>1. /\ f.contents \in [Places -> Seq(Objs)] /\ f.place \in [Objs -> Places \cup {NULL}]
    BY <1>2, HeapFields
  <2>2. << >> \in Seq(Objs)
    OBVIOUS
  <2>3. l \in Seq(Objs)
    BY <1>2, WithoutIs DEF Listed
  <2> HIDE DEF l
  <2>4. m \in [Places -> Seq(Objs)]
    BY <2>1, <2>2
  <2>5. q \in [Objs -> Places \cup {NULL}]
    BY <2>1
  <2>6. QED
    BY <2>3, <2>4, <2>5
<1> HIDE DEF m, q, l
<1>7. /\ t \in HeapType /\ t.contents = m /\ t.place = q /\ t.object_list = l /\ t.obj_free = e
      /\ t.made = f.made /\ t.weight = f.weight
      /\ t.carry_number = f.carry_number /\ t.carry_weight = f.carry_weight
  BY <1>2, <1>3, <1>5, <1>6 DEF HeapType
<1>8. Loses(f, t, o)
  BY <1>5, <1>7 DEF Loses, Listed, m, q, l, gone
<1>9. Tidy(t, (L \cup {o}) \ {o}) /\ Square(t, d)
  BY <1>1, <1>7, <1>8, LosesTidy
<1>10. Tidy(t, L \ {o})
  <2>1. (L \cup {o}) \ {o} = L \ {o}
    OBVIOUS
  <2>2. QED
    BY <1>9, <2>1
<1>11. ASSUME NEW y \in Objs, NEW p \in Places \ Objs
       PROVE  t.place[y] = p <=> g.place[y] = p /\ y # o
  <2>1. t.place[y] = IF y \in gone THEN NULL ELSE f.place[y]
    BY <1>7 DEF q
  <2>2. y \in gone /\ y # o => g.place[y] \in gone
    BY <1>0, <1>1, UnderUp
  <2>3. p # NULL
    BY Apart
  <2>4. QED
    BY <1>1, <1>4, <2>1, <2>2, <2>3
<1>12. QED
  BY <1>1, <1>7, <1>9, <1>10, <1>11 DEF RidOf

(* extract_obj keeps lists tidy and sums right.                             *)
LEMMA ExtractedTidy ==
  ASSUME NEW g, NEW L, Tidy(g, L), NEW d \in [Chars -> Int], Square(g, d),
         NEW o \in Objs, NEW t, t = Extracted(g, o)
  PROVE  Tidy(t, L \ {o}) /\ Square(t, d) /\ RidOf(g, t, o) /\ t.made = g.made
<1>1. CASE o \in Live(g)
  <2>1. t = Freed(g, o)
    BY <1>1 DEF Extracted
  <2>2. QED
    BY <1>1, <2>1, FreedTidy
<1>2. CASE o \notin Live(g)
  <2>1. t = g
    BY <1>2 DEF Extracted
  <2>2. L \ {o} = L /\ g.place[o] = NULL
    BY <1>2, LiveIs
  <2>3. RidOf(g, g, o)
    BY <2>2, Apart DEF RidOf
  <2>4. QED
    BY <2>1, <2>2, <2>3
<1>3. QED
  BY <1>1, <1>2

(* Things may be gone, but those that are left are worth what they were.    *)
Pruned(g, t) == t.value = g.value /\ t.kind = g.kind /\ Live(t) \subseteq Live(g)

(* Freeing o loses it, and what is in it, and changes nothing of the rest.  *)
LEMMA FreedPrunes ==
  ASSUME NEW g, NEW L, Tidy(g, L), NEW d \in [Chars -> Int], Square(g, d),
         NEW o \in Live(g), NEW t, t = Freed(g, o)
  PROVE  Pruned(g, t) /\ o \notin Live(t)
<1> DEFINE f == From(g, o)
           gone == ToSet(Doomed(g, o))
           l == Without(f.object_list, gone)
<1>a. Tidy(f, L \cup {o}) /\ SameThings(f, g)
  BY Loosened
<1>1. f \in HeapType /\ SameThings(f, g) /\ Live(f) = Live(g) /\ f.object_list \in Seq(Objs)
  <2> HIDE DEF f
  <2>1. f \in HeapType /\ SameThings(f, g)
    BY <1>a DEF Tidy
  <2>2. QED
    BY <2>1, HeapFields DEF SameThings, Live
<1>2. o \in gone
  BY LiveIs, UnderIs DEF Tidy, Under
<1>3. t = [f EXCEPT !.contents = [p \in Places |-> IF p \in gone THEN << >> ELSE @[p]],
                    !.place = [x \in Objs |-> IF x \in gone THEN NULL ELSE @[x]],
                    !.object_list = Without(@, gone),
                    !.obj_free = Reverse(Doomed(g, o)) \o @]
  BY DEF Freed
<1> HIDE DEF f, gone
<1>4. t.value = f.value /\ t.kind = f.kind /\ t.object_list = l
  BY <1>1, <1>3 DEF HeapType
<1>5. ToSet(l) = ToSet(f.object_list) \ gone
  BY <1>1, WithoutIs
<1>6. Live(t) = Live(g) \ gone
  BY <1>1, <1>4, <1>5 DEF Live
<1>7. QED
  BY <1>1, <1>2, <1>4, <1>6 DEF Pruned, SameThings

(* So does extract_obj.                                                     *)
LEMMA ExtractedPrunes ==
  ASSUME NEW g, NEW L, Tidy(g, L), NEW d \in [Chars -> Int], Square(g, d),
         NEW o \in Objs, NEW t, t = Extracted(g, o)
  PROVE  Pruned(g, t) /\ o \notin Live(t)
<1>1. CASE o \in Live(g)
  <2>1. t = Freed(g, o)
    BY <1>1 DEF Extracted
  <2>2. QED
    BY <1>1, <2>1, FreedPrunes
<1>2. CASE o \notin Live(g)
  BY <1>2 DEF Extracted, Pruned
<1>3. QED
  BY <1>1, <1>2

(* Moving o from its place to one that is not under it keeps both too.      *)
LEMMA MovedTidy ==
  ASSUME NEW g, NEW L, Tidy(g, L), NEW d \in [Chars -> Int], Square(g, d),
         NEW o \in Objs, g.place[o] # NULL, NEW p \in Places, p \notin Under(g, o),
         p \in Objs => p \in Live(g), NEW t, t = Moved(g, o, p)
  PROVE  /\ Tidy(t, L) /\ Square(t, d) /\ t.made = g.made /\ Pruned(g, t)
         /\ \A y \in Objs : t.place[y] = IF y = o THEN p ELSE g.place[y]
<1> DEFINE f == From(g, o)
<1>0. o \in Live(g) /\ p # NULL
  BY LiveIs, Apart
<1>1. /\ Tidy(f, L \cup {o}) /\ Square(f, d) /\ f.place[o] = NULL /\ Under(f, o) = Under(g, o)
      /\ SameThings(f, g) /\ \A y \in Objs : y # o => f.place[y] = g.place[y]
  BY <1>0, Loosened
<1>2. t = To(f, o, p)
  BY DEF Moved
<1> HIDE DEF f
<1>3. Live(f) = Live(g) /\ f.made = g.made /\ o \in L \cup {o} /\ p \notin Under(f, o)
  BY <1>1 DEF SameThings, Live
<1>4. Tidy(t, (L \cup {o}) \ {o}) /\ Square(t, d)
  BY <1>1, <1>2, <1>3, ToTidy
<1>5. (L \cup {o}) \ {o} = L
  BY DEF Tidy
<1>6. Tidy(t, L)
  BY <1>4, <1>5
<1>7. PutInto(f, o, p, t)
  <2>1. f \in HeapType /\ Forest(f)
    BY <1>1 DEF Tidy
  <2>2. QED
    BY <1>1, <1>2, <1>3, <2>1, ToIs
<1>8. /\ t.made = f.made /\ t.place[o] = p
      /\ \A y \in Objs : y # o => t.place[y] = f.place[y]
  BY <1>7 DEF PutInto, SameThings, Hooked
<1>a. Pruned(g, t)
  BY <1>1, <1>3, <1>7 DEF PutInto, SameThings, Live, Pruned
<1>9. QED
  BY <1>1, <1>3, <1>4, <1>6, <1>8, <1>a

-----------------------------------------------------------------------------
(* A new thing.                                                             *)
LEMMA FreshIs ==
  ASSUME NEW g, NEW L, Tidy(g, L), NEW n \in Nat \ {0}, CanCreate(g, n), NEW o, o = Fresh(g)
  PROVE  /\ o \in Objs /\ o \notin Live(g) /\ g.place[o] = NULL
         /\ \A y \in Objs : g.place[y] # o
         /\ g.obj_free = << >> => g.made + 1 \in 0 .. MaxObjs /\ o = g.made + 1
         /\ g.obj_free # << >> => o = Head(g.obj_free) /\ g.made \in 0 .. MaxObjs
<1>0. /\ g \in HeapType /\ Listed(g.obj_free) /\ Live(g) \cap ToSet(g.obj_free) = {}
      /\ Live(g) \cup ToSet(g.obj_free) = 1 .. g.made
      /\ \A y \in Objs : g.place[y] \in Objs => g.place[y] \in Live(g)
      /\ \A y \in Objs : g.place[y] # NULL => y \in Live(g)
  BY DEF Tidy, Live
<1>1. g.made \in 0 .. MaxObjs /\ g.obj_free \in Seq(Objs) /\ MaxObjs \in Nat
  BY <1>0, HeapFields, ObjectsAssumption
<1>2. CASE g.obj_free = << >>
  <2>1. o = g.made + 1 /\ Len(g.obj_free) = 0
    BY <1>2 DEF Fresh
  <2>2. MaxObjs - g.made >= n
    BY <1>1, <2>1 DEF CanCreate
  <2>3. o \in Objs /\ o \notin 1 .. g.made /\ g.made + 1 \in 0 .. MaxObjs
    BY <1>1, <2>1, <2>2 DEF Objs
  <2>4. o \notin Live(g)
    BY <1>0, <2>3
  <2>5. QED
    BY <1>0, <1>2, <2>1, <2>3, <2>4
<1>3. CASE g.obj_free # << >>
  <2>1. o = Head(g.obj_free) /\ o = g.obj_free[1] /\ 1 \in 1 .. Len(g.obj_free)
    BY <1>1, <1>3 DEF Fresh
  <2>2. o \in Objs /\ o \in ToSet(g.obj_free)
    BY <1>1, <2>1, SeqIs
  <2>3. o \notin Live(g)
    BY <1>0, <2>2
  <2>4. QED
    BY <1>0, <1>1, <1>3, <2>1, <2>2, <2>3
<1>4. QED
  BY <1>2, <1>3

Makes(g, t, o, k, v) ==
  t.kind = [g.kind EXCEPT ![o] = k] /\ t.value = [g.value EXCEPT ![o] = v]

(* What create_object changes.                                              *)
LEMMA CreatedIs ==
  ASSUME NEW g, NEW L, Tidy(g, L), NEW n \in Nat \ {0}, CanCreate(g, n),
         NEW k \in Kinds, NEW v \in Nat, NEW o, o = Fresh(g), NEW t, t = Created(g, k, v)
  PROVE  /\ t \in HeapType
         /\ t.made = IF g.obj_free = << >> THEN g.made + 1 ELSE g.made
         /\ t.obj_free = IF g.obj_free = << >> THEN g.obj_free ELSE Tail(g.obj_free)
         /\ t.object_list = <<o>> \o g.object_list
         /\ t.contents = g.contents /\ t.place = g.place
         /\ \A y \in Objs : y # o => t.weight[y] = g.weight[y]
         /\ t.carry_number = g.carry_number /\ t.carry_weight = g.carry_weight
         /\ Makes(g, t, o, k, v)
<1> DEFINE a == IF g.obj_free = << >> THEN g.made + 1 ELSE g.made
           b == IF g.obj_free = << >> THEN g.obj_free ELSE Tail(g.obj_free)
           e == <<o>> \o g.object_list
           x == [g.kind EXCEPT ![o] = k]
           y == [g.value EXCEPT ![o] = v]
           z == [g.weight EXCEPT ![o] = IF k \in {"item", "corpse"} THEN 2 ELSE 1]
<1>0. g \in HeapType /\ g.object_list \in Seq(Objs) /\ g.obj_free \in Seq(Objs)
      /\ g.made \in 0 .. MaxObjs
  BY HeapFields DEF Tidy
<1>1. /\ o \in Objs /\ (g.obj_free = << >> => g.made + 1 \in 0 .. MaxObjs)
  BY FreshIs
<1>2. a \in 0 .. MaxObjs
  BY <1>0, <1>1
<1>3. b \in Seq(Objs)
  BY <1>0
<1>4. e \in Seq(Objs)
  BY <1>0, <1>1, InFront
<1>5. x \in [Objs -> Kinds] /\ y \in [Objs -> Nat] /\ z \in [Objs -> Nat]
  <2>1. g.kind \in [Objs -> Kinds] /\ g.value \in [Objs -> Nat] /\ g.weight \in [Objs -> Nat]
    BY <1>0, HeapFields
  <2>2. QED
    BY <2>1
<1>6. \A w \in Objs : w # o => z[w] = g.weight[w]
  <2>1. g.weight \in [Objs -> Nat]
    BY <1>0, HeapFields
  <2>2. QED
    BY <2>1
<1>7. t = [g EXCEPT !.made = a, !.obj_free = b, !.object_list = e, !.kind = x, !.value = y,
                    !.weight = z]
  BY <1>0 DEF HeapType, Created
<1> HIDE DEF a, b, e, x, y, z
<1>8. /\ t \in HeapType /\ t.made = a /\ t.obj_free = b /\ t.object_list = e /\ t.weight = z
      /\ t.contents = g.contents /\ t.place = g.place /\ t.kind = x /\ t.value = y
      /\ t.carry_number = g.carry_number /\ t.carry_weight = g.carry_weight
  BY <1>0, <1>2, <1>3, <1>4, <1>5, <1>7 DEF HeapType
<1>9. QED
  BY <1>6, <1>8 DEF a, b, e, x, y, Makes

(* A list and its head.                                                     *)
LEMMA TailIs ==
  ASSUME NEW s, Listed(s), s # << >>
  PROVE  /\ Listed(Tail(s)) /\ Head(s) \in Objs /\ Head(s) \notin ToSet(Tail(s))
         /\ ToSet(s) = ToSet(Tail(s)) \cup {Head(s)}
<1> DEFINE r == Tail(s)
           n == Len(s)
<1>1. s \in Seq(Objs) /\ IsInjective(s) /\ n \in Nat /\ n # 0 /\ DOMAIN s = 1 .. n
  BY DEF Listed
<1>2. /\ r \in Seq(Objs) /\ Len(r) = n - 1 /\ Head(s) = s[1]
      /\ \A i \in 1 .. n - 1 : r[i] = s[i + 1]
  BY <1>1
<1>3. DOMAIN r = 1 .. n - 1
  BY <1>2, SeqIs
<1> HIDE DEF r, n
<1>4. \A i, j \in 1 .. n : s[i] = s[j] => i = j
  BY <1>1 DEF IsInjective
<1>5. ASSUME NEW i \in 1 .. n - 1, NEW j \in 1 .. n - 1, r[i] = r[j] PROVE i = j
  <2>1. i + 1 \in 1 .. n /\ j + 1 \in 1 .. n /\ s[i + 1] = s[j + 1]
    BY <1>1, <1>2, <1>5
  <2>2. QED
    BY <1>4, <2>1
<1>6. IsInjective(r)
  BY <1>3, <1>5 DEF IsInjective
<1>7. 1 \in 1 .. n /\ s[1] \in Objs
  BY <1>1
<1>8. ASSUME NEW i \in 1 .. n - 1 PROVE r[i] # s[1] /\ r[i] \in ToSet(s)
  <2>1. i + 1 \in 1 .. n /\ i + 1 # 1 /\ r[i] = s[i + 1]
    BY <1>1, <1>2
  <2>2. s[i + 1] # s[1] /\ s[i + 1] \in ToSet(s)
    BY <1>1, <1>4, <1>7, <2>1, SeqIs DEF n
  <2>3. QED
    BY <2>1, <2>2
<1>9. ASSUME NEW i \in 1 .. n PROVE s[i] = s[1] \/ s[i] \in ToSet(r)
  <2>1. CASE i = 1
    BY <2>1
  <2>2. CASE i # 1
    <3>1. i - 1 \in 1 .. n - 1 /\ r[i - 1] = s[i]
      BY <1>1, <1>2, <2>2
    <3>2. QED
      BY <1>3, <3>1 DEF ToSet
  <2>3. QED
    BY <2>1, <2>2
<1>10. ToSet(s) = {s[i] : i \in 1 .. n} /\ ToSet(r) = {r[i] : i \in 1 .. n - 1}
  BY <1>1, <1>3 DEF ToSet
<1>11. s[1] \in ToSet(s) /\ s[1] \notin ToSet(r)
  BY <1>7, <1>8, <1>10
<1>12. ToSet(s) = ToSet(r) \cup {s[1]}
  BY <1>8, <1>9, <1>10, <1>11
<1>13. QED
  BY <1>2, <1>6, <1>7, <1>11, <1>12 DEF Listed, r

(* create_object keeps lists tidy and sums right; the new thing is loose.   *)
LEMMA CreatedTidy ==
  ASSUME NEW g, NEW L, Tidy(g, L), NEW d \in [Chars -> Int], Square(g, d),
         NEW n \in Nat \ {0}, CanCreate(g, n),
         NEW k \in Kinds, NEW v \in Nat, NEW o, o = Fresh(g), NEW t, t = Created(g, k, v)
  PROVE  /\ Tidy(t, L \cup {o}) /\ Square(t, d) /\ t.contents = g.contents /\ t.place = g.place
         /\ o \in Objs /\ o \notin Live(g) /\ Live(t) = Live(g) \cup {o} /\ Under(t, o) = {o}
         /\ g.place[o] = NULL /\ CanCreate(t, n - 1)
<1>0. /\ g \in HeapType /\ Forest(g) /\ Listed(g.object_list) /\ Listed(g.obj_free)
      /\ ToSet(g.object_list) \cap ToSet(g.obj_free) = {} /\ g.made \in 0 .. MaxObjs
      /\ Live(g) = ToSet(g.object_list)
      /\ ToSet(g.object_list) \cup ToSet(g.obj_free) = 1 .. g.made
      /\ \A y \in Objs : y \in Live(g) <=> g.place[y] # NULL \/ y \in L
      /\ \A y \in L : y \in Objs /\ g.place[y] = NULL
      /\ \A y \in Objs : g.place[y] \in Objs => g.place[y] \in Live(g)
  BY HeapFields DEF Tidy, Live
<1>1. /\ o \in Objs /\ o \notin Live(g) /\ g.place[o] = NULL
      /\ \A y \in Objs : g.place[y] # o
      /\ (g.obj_free = << >> => g.made + 1 \in 0 .. MaxObjs /\ o = g.made + 1)
      /\ (g.obj_free # << >> => o = Head(g.obj_free))
  BY FreshIs
<1>2. /\ t \in HeapType
      /\ t.made = IF g.obj_free = << >> THEN g.made + 1 ELSE g.made
      /\ t.obj_free = IF g.obj_free = << >> THEN g.obj_free ELSE Tail(g.obj_free)
      /\ t.object_list = <<o>> \o g.object_list
      /\ t.contents = g.contents /\ t.place = g.place
      /\ \A y \in Objs : y # o => t.weight[y] = g.weight[y]
      /\ t.carry_number = g.carry_number /\ t.carry_weight = g.carry_weight
  BY CreatedIs
<1>3. Forest(t)
  <2>1. Agrees(g) /\ Grounded(g) /\ t.contents = g.contents /\ t.place = g.place
    BY <1>0, <1>2 DEF Forest
  <2>2. Agrees(t)
    BY <2>1 DEF Agrees
  <2>3. Grounded(t)
    BY <2>1 DEF Grounded
  <2>4. QED
    BY <2>2, <2>3 DEF Forest
<1>4. Listed(t.object_list) /\ Live(t) = Live(g) \cup {o}
  BY <1>0, <1>1, <1>2, InFront DEF Listed, Live
<1>5. /\ Listed(t.obj_free) /\ o \notin ToSet(t.obj_free)
      /\ ToSet(t.obj_free) \subseteq ToSet(g.obj_free)
      /\ {o} \cup ToSet(g.object_list) \cup ToSet(t.obj_free) = 1 .. t.made
  <2>1. CASE g.obj_free = << >>
    <3>1. t.obj_free = << >> /\ t.made = g.made + 1 /\ o = g.made + 1 /\ ToSet(t.obj_free) = {}
          /\ ToSet(g.obj_free) = {}
      BY <1>1, <1>2, <2>1 DEF ToSet
    <3>2. 1 .. t.made = (1 .. g.made) \cup {o}
      BY <1>0, <3>1
    <3>3. QED
      BY <1>0, <2>1, <3>1, <3>2
  <2>2. CASE g.obj_free # << >>
    <3>1. t.obj_free = Tail(g.obj_free) /\ t.made = g.made /\ o = Head(g.obj_free)
      BY <1>1, <1>2, <2>2
    <3>2. /\ Listed(t.obj_free) /\ o \notin ToSet(t.obj_free)
          /\ ToSet(g.obj_free) = ToSet(t.obj_free) \cup {o}
      BY <1>0, <2>2, <3>1, TailIs
    <3>3. QED
      BY <1>0, <3>1, <3>2
  <2>3. QED
    BY <2>1, <2>2
<1>6. /\ ToSet(t.object_list) \cap ToSet(t.obj_free) = {}
      /\ Live(t) \cup ToSet(t.obj_free) = 1 .. t.made
  BY <1>0, <1>4, <1>5 DEF Live
<1>7. \A y \in Objs : y \in Live(t) <=> t.place[y] # NULL \/ y \in L \cup {o}
  BY <1>0, <1>2, <1>4
<1>8. \A y \in L \cup {o} : y \in Objs /\ t.place[y] = NULL
  BY <1>0, <1>1, <1>2
<1>9. \A y \in Objs : t.place[y] \in Objs => t.place[y] \in Live(t)
  BY <1>0, <1>2, <1>4
<1>10. Tidy(t, L \cup {o})
  BY <1>2, <1>3, <1>4, <1>5, <1>6, <1>7, <1>8, <1>9 DEF Tidy
<1>11. Under(t, o) = {o}
  <2>1. Closed(t, {o})
    BY <1>1, <1>2 DEF Closed
  <2>a. o \in {o} /\ o \in Objs
    BY <1>1
  <2>2. Under(t, o) \subseteq {o} /\ o \in Under(t, o)
    BY <1>3, <2>1, <2>a, UnderLeast, UnderIs
  <2>3. QED
    BY <2>2
<1>12. ASSUME NEW c \in Chars
       PROVE  /\ t.carry_number[c] = Len(t.contents[c])
              /\ t.carry_weight[c] + d[c] = Total(t.weight, Carried(t, c))
  <2>1. Carried(t, c) = Carried(g, c)
    BY <1>2, SameTrees
  <2>2. o \notin Carried(g, c)
    <3>1. g.place[o] \notin Objs /\ g.place[o] # c
      BY <1>1, Apart
    <3>2. Carried(g, c) \cap Under(g, o) = {} /\ o \in Under(g, o)
      BY <1>0, <1>1, <3>1, NotCarried, UnderIs
    <3>3. QED
      BY <3>2
  <2>3. Carried(g, c) \subseteq Objs
    BY <1>0, CarriedIs
  <2>4. \A y \in Carried(g, c) : t.weight[y] = g.weight[y]
    BY <1>2, <2>2, <2>3
  <2>5. t.weight \in [Objs -> Int] /\ g.weight \in [Objs -> Int]
    BY <1>0, <1>2, HeapFields
  <2>6. Total(t.weight, Carried(g, c)) = Total(g.weight, Carried(g, c))
    BY <2>4, <2>5, TotalSame
  <2>7. QED
    BY <1>2, <2>1, <2>6 DEF Square
<1>13. CanCreate(t, n - 1)
  <2>0. Len(g.obj_free) + MaxObjs - g.made >= n /\ MaxObjs \in Nat
    BY ObjectsAssumption DEF CanCreate
  <2>1. CASE g.obj_free = << >>
    <3>1. t.obj_free = << >> /\ t.made = g.made + 1 /\ Len(t.obj_free) = 0 /\ Len(g.obj_free) = 0
      BY <1>2, <2>1
    <3>2. QED
      BY <1>0, <2>0, <3>1 DEF CanCreate
  <2>2. CASE g.obj_free # << >>
    <3>1. t.obj_free = Tail(g.obj_free) /\ t.made = g.made /\ g.obj_free \in Seq(Objs)
      BY <1>0, <1>2, <2>2 DEF Listed
    <3>2. Len(t.obj_free) = Len(g.obj_free) - 1 /\ Len(g.obj_free) \in Nat
      BY <2>2, <3>1
    <3>3. QED
      BY <1>0, <2>0, <3>1, <3>2 DEF CanCreate
  <2>3. QED
    BY <2>1, <2>2
<1>14. QED
  BY <1>1, <1>2, <1>4, <1>10, <1>11, <1>12, <1>13 DEF Square

(* create_money puts one new thing in its place and keeps both.             *)
LEMMA MoneyTidy ==
  ASSUME NEW g, NEW L, Tidy(g, L), NEW d \in [Chars -> Int], Square(g, d),
         NEW n \in Nat \ {0}, CanCreate(g, n), NEW amount \in Nat,
         NEW p \in Places, p \in Objs => p \in Live(g), NEW t \in MoneyIn(g, amount, p)
  PROVE  /\ Tidy(t, L) /\ Square(t, d) /\ Live(g) \subseteq Live(t)
         /\ \E o \in Objs : /\ o \notin Live(g)
                            /\ \A y \in Objs : t.place[y] = IF y = o THEN p ELSE g.place[y]
<1> DEFINE o == Fresh(g)
<1>1. PICK m : (\E k \in Kinds, v \in Nat : m = Created(g, k, v)) /\ t = To(m, o, p)
  <2>1. PICK m \in IF amount = 1 THEN {Created(g, "coin", v) : v \in CoinCost}
                   ELSE {Created(g, "coins", amount)} : t = To(m, o, p)
    BY DEF MoneyIn
  <2>2. CoinCost \subseteq Nat /\ "coin" \in Kinds /\ "coins" \in Kinds
    BY ObjectsAssumption DEF Kinds
  <2>3. CASE amount = 1
    <3>1. PICK v \in CoinCost : m = Created(g, "coin", v)
      BY <2>1, <2>3
    <3>2. QED
      BY <2>1, <2>2, <3>1
  <2>4. CASE amount # 1
    <3>1. m = Created(g, "coins", amount)
      BY <2>1, <2>4
    <3>2. QED
      BY <2>1, <2>2, <3>1
  <2>5. QED
    BY <2>3, <2>4
<1>2. PICK k \in Kinds, v \in Nat : m = Created(g, k, v)
  BY <1>1
<1> HIDE DEF o
<1>3. /\ Tidy(m, L \cup {o}) /\ Square(m, d) /\ m.contents = g.contents /\ m.place = g.place
      /\ o \in Objs /\ o \notin Live(g) /\ Live(m) = Live(g) \cup {o} /\ Under(m, o) = {o}
      /\ g.place[o] = NULL
  BY <1>2, CreatedTidy DEF o
<1>4. o \in L \cup {o} /\ p \notin Under(m, o) /\ (p \in Objs => p \in Live(m))
  <2>1. p # o
    BY <1>3
  <2>2. QED
    BY <1>3, <2>1
<1>5. Tidy(t, (L \cup {o}) \ {o}) /\ Square(t, d)
  BY <1>1, <1>3, <1>4, ToTidy
<1>6. (L \cup {o}) \ {o} = L
  BY <1>3, LiveIs
<1>7. PutInto(m, o, p, t)
  <2>1. m \in HeapType /\ Forest(m) /\ m.place[o] = NULL
    BY <1>3 DEF Tidy
  <2>2. QED
    BY <1>1, <1>3, <1>4, <2>1, ToIs
<1>8. /\ Live(t) = Live(m) /\ t.place[o] = p /\ \A y \in Objs : y # o => t.place[y] = m.place[y]
  BY <1>7 DEF PutInto, SameThings, Hooked, Live
<1>9. Tidy(t, L)
  BY <1>5, <1>6
<1>10. QED
  BY <1>3, <1>5, <1>8, <1>9

(* A walk that extracts everything it meets.                                *)
Cleared(h, x, s, k) ==
  \A y \in Objs, p \in Places \ Objs :
     x.place[y] = p <=> h.place[y] = p /\ \A i \in 1 .. k : s[i] # y

(* One more thing of the list cleared.                                      *)
LEMMA ClearedMore ==
  ASSUME NEW h, NEW x, NEW t, NEW s \in Seq(Objs), NEW k \in 1 .. Len(s),
         Cleared(h, x, s, k - 1), RidOf(x, t, s[k])
  PROVE  Cleared(h, t, s, k)
<1>1. \A y : (\A i \in 1 .. k : s[i] # y) <=> (\A i \in 1 .. k - 1 : s[i] # y) /\ y # s[k]
  <2>1. 1 .. k = (1 .. k - 1) \cup {k}
    OBVIOUS
  <2>2. QED
    BY <2>1
<1>2. QED
  BY <1>1 DEF Cleared, RidOf

AllGone(h, t, s) == /\ Pruned(h, t) /\ ToSet(s) \cap Live(t) = {}
                    /\ s = << >> => t = h

(* Extracting a list of things that lie in one place rids it of them all.   *)
LEMMA AllExtracted ==
  ASSUME NEW h, Tidy(h, {}), NEW d \in [Chars -> Int], Square(h, d), NEW s \in Seq(Objs),
         NEW t, t = ExtractedAll(h, s)
  PROVE  /\ Tidy(t, {}) /\ Square(t, d) /\ t.made = h.made
         /\ \A y \in Objs, p \in Places \ Objs : t.place[y] = p <=> h.place[y] = p /\ y \notin ToSet(s)
         /\ AllGone(h, t, s)
<1> DEFINE n == Len(s)
           Good(k, x) == /\ Tidy(x, {}) /\ Square(x, d) /\ x.made = h.made /\ Cleared(h, x, s, k)
                         /\ Pruned(h, x) /\ \A i \in 1 .. k : s[i] \notin Live(x)
           D == [k \in 0 .. n |-> {x \in HeapType : Good(k, x)}]
           F == [k \in 1 .. n |-> [x \in HeapType |-> Extracted(x, s[k])]]
           g == CHOOSE x : x = [k \in 0 .. n |-> IF k = 0 THEN h ELSE Extracted(x[k - 1], s[k])]
<1>0. n \in Nat /\ \A k \in 1 .. n : s[k] \in Objs
  BY SeqIs
<1>1. t = g[n]
  BY DEF ExtractedAll
<1>2. /\ \A k \in 0 .. n : \A x : x \in D[k] <=> x \in HeapType /\ Good(k, x)
      /\ \A k \in 1 .. n : \A x \in HeapType : F[k][x] = Extracted(x, s[k])
  OBVIOUS
<1> HIDE DEF D, F
<1>3. h \in D[0]
  <2>1. Cleared(h, h, s, 0)
    BY DEF Cleared
  <2>a. Pruned(h, h)
    BY DEF Pruned
  <2>2. 0 \in 0 .. n /\ h \in HeapType /\ Good(0, h)
    BY <1>0, <2>1, <2>a DEF Tidy
  <2>3. QED
    BY <1>2, <2>2
<1>4. ASSUME NEW k \in 1 .. n, NEW x \in D[k - 1] PROVE Extracted(x, s[k]) \in D[k] /\ x \in HeapType
  <2>1. k - 1 \in 0 .. n /\ k \in 0 .. n
    BY <1>0
  <2>2. x \in HeapType /\ Good(k - 1, x)
    BY <1>2, <2>1
  <2> DEFINE e == Extracted(x, s[k])
  <2>3. Tidy(e, {} \ {s[k]}) /\ Square(e, d) /\ RidOf(x, e, s[k]) /\ e.made = x.made
    BY <1>0, <2>2, ExtractedTidy
  <2>a. Pruned(x, e) /\ s[k] \notin Live(e)
    BY <1>0, <2>2, ExtractedPrunes
  <2> HIDE DEF e
  <2>4. {} \ {s[k]} = {}
    OBVIOUS
  <2>5. Cleared(h, e, s, k)
    BY <2>2, <2>3, ClearedMore
  <2>b. Pruned(h, e) /\ \A i \in 1 .. k : s[i] \notin Live(e)
    <3>1. \A i \in 1 .. k : i = k \/ i \in 1 .. k - 1
      BY <1>0
    <3>2. QED
      BY <2>2, <2>a, <3>1 DEF Pruned
  <2>6. Good(k, e) /\ e \in HeapType
    BY <2>2, <2>3, <2>4, <2>5, <2>b DEF Tidy
  <2>7. QED
    BY <1>2, <2>1, <2>2, <2>6 DEF e
<1> HIDE DEF Good, n, g
<1>5. g = [k \in 0 .. n |-> IF k = 0 THEN h ELSE Extracted(g[k - 1], s[k])]
  <2>1. \A k \in 1 .. n : \A x \in D[k - 1] : F[k][x] \in D[k]
    BY <1>2, <1>4
  <2>2. PICK j : Runs(j, F, D, h, n)
    BY <1>0, <1>3, <2>1, Recursion
  <2>3. /\ j = [k \in 0 .. n |-> IF k = 0 THEN h ELSE F[k][j[k - 1]]]
        /\ \A k \in 0 .. n : j[k] \in D[k]
    BY <2>2 DEF Runs
  <2>4. ASSUME NEW k \in 0 .. n
        PROVE  (IF k = 0 THEN h ELSE F[k][j[k - 1]]) = IF k = 0 THEN h ELSE Extracted(j[k - 1], s[k])
    <3>1. CASE k = 0
      BY <3>1
    <3>2. CASE k # 0
      <4>1. k \in 1 .. n /\ k - 1 \in 0 .. n
        BY <1>0, <3>2
      <4>2. j[k - 1] \in HeapType
        BY <1>4, <2>3, <4>1
      <4>3. QED
        BY <1>2, <3>2, <4>1, <4>2
    <3>3. QED
      BY <3>1, <3>2
  <2>5. j = [k \in 0 .. n |-> IF k = 0 THEN h ELSE Extracted(j[k - 1], s[k])]
    BY <2>3, <2>4
  <2>6. QED
    BY <2>5 DEF g
<1>6. g[0] = h /\ \A k \in 1 .. n : g[k] = Extracted(g[k - 1], s[k])
  <2>1. 0 \in 0 .. n /\ \A k \in 1 .. n : k \in 0 .. n /\ k # 0
    BY <1>0
  <2>2. \A k \in 0 .. n : g[k] = IF k = 0 THEN h ELSE Extracted(g[k - 1], s[k])
    BY <1>5
  <2>3. QED
    BY <2>1, <2>2
<1> DEFINE G == {k \in 0 .. n : g[k] \in D[k]}
<1>7. 0 \in G
  BY <1>0, <1>3, <1>6
<1>8. ASSUME NEW k \in 1 .. n, k - 1 \in G PROVE k \in G
  <2>1. g[k - 1] \in D[k - 1]
    BY <1>8
  <2>2. g[k] \in D[k] /\ k \in 0 .. n
    BY <1>0, <1>4, <1>6, <2>1
  <2>3. QED
    BY <2>2
<1> HIDE DEF G
<1>9. \A k \in 0 .. n : k \in G
  BY <1>0, <1>7, <1>8, Upward
<1>10. n \in 0 .. n /\ n \in G
  BY <1>0, <1>9
<1>11. Good(n, t)
  BY <1>1, <1>2, <1>10 DEF G
<1>12. \A y : y \in ToSet(s) <=> \E i \in 1 .. n : s[i] = y
  BY SeqIs DEF n
<1>a. ASSUME s = << >> PROVE t = h
  <2>1. n = 0
    BY <1>a DEF n
  <2>2. QED
    BY <1>1, <1>6, <2>1
<1>13. QED
  BY <1>11, <1>12, <1>a DEF Good, Cleared, AllGone

(* The loop of make_corpse over all that c carries.                         *)
BuryStep(x, o, corpse, vanishing) ==
  IF o \in vanishing THEN Extracted(x, o) ELSE Moved(x, o, corpse)

(* The loop of make_corpse takes all of the list into the corpse.           *)
LEMMA BuriedTidy ==
  ASSUME NEW corpse \in Objs, NEW M, corpse \in M, NEW h, Tidy(h, M), NEW d \in [Chars -> Int], Square(h, d),
         NEW c \in Chars, NEW s, Listed(s), \A y \in ToSet(s) : h.place[y] = c,
         NEW vanishing, NEW t, t = Buried(h, s, corpse, vanishing)
  PROVE  /\ Tidy(t, M) /\ Square(t, d) /\ t.made = h.made /\ Pruned(h, t)
         /\ \A y \in Objs, p \in Places \ Objs : t.place[y] = p <=> h.place[y] = p /\ y \notin ToSet(s)
<1> DEFINE n == Len(s)
           Good(k, x) == /\ Tidy(x, M) /\ Square(x, d) /\ x.made = h.made /\ Cleared(h, x, s, k)
                         /\ Pruned(h, x)
           D == [k \in 0 .. n |-> {x \in HeapType : Good(k, x)}]
           F == [k \in 1 .. n |-> [x \in HeapType |-> BuryStep(x, s[k], corpse, vanishing)]]
           g == CHOOSE x : x = [k \in 0 .. n |-> IF k = 0 THEN h ELSE BuryStep(x[k - 1], s[k], corpse, vanishing)]
<1>a. s \in Seq(Objs) /\ IsInjective(s)
  BY DEF Listed
<1>0. n \in Nat /\ \A k \in 1 .. n : s[k] \in Objs
  BY <1>a, SeqIs
<1>1. t = g[n]
  BY DEF Buried, BuryStep
<1>2. /\ \A k \in 0 .. n : \A x : x \in D[k] <=> x \in HeapType /\ Good(k, x)
      /\ \A k \in 1 .. n : \A x \in HeapType : F[k][x] = BuryStep(x, s[k], corpse, vanishing)
  OBVIOUS
<1> HIDE DEF D, F
<1>3. h \in D[0]
  <2>1. Cleared(h, h, s, 0)
    BY DEF Cleared
  <2>a. Pruned(h, h)
    BY DEF Pruned
  <2>2. 0 \in 0 .. n /\ h \in HeapType /\ Good(0, h)
    BY <1>0, <2>1, <2>a DEF Tidy
  <2>3. QED
    BY <1>2, <2>2
<1>4. ASSUME NEW k \in 1 .. n, NEW x \in D[k - 1] PROVE BuryStep(x, s[k], corpse, vanishing) \in D[k] /\ x \in HeapType
  <2>1. k - 1 \in 0 .. n /\ k \in 0 .. n
    BY <1>0
  <2>2. x \in HeapType /\ Good(k - 1, x)
    BY <1>2, <2>1
  <2> DEFINE o == s[k]
             e == BuryStep(x, o, corpse, vanishing)
  <2>3. o \in Objs /\ x.place[o] = c /\ x.place[corpse] = NULL /\ c \notin Objs /\ c # NULL
        /\ corpse \in Places /\ c \in Places /\ corpse # c
    <3>1. h.place[o] = c /\ \A i \in 1 .. k - 1 : s[i] # o
      <4>1. \A i \in 1 .. k - 1 : i \in 1 .. n /\ i # k
        BY <1>0
      <4>2. QED
        BY <1>a, <4>1, SeqIs DEF IsInjective, n
    <3>2. o \in Objs /\ x.place[o] = c
      BY <1>0, <2>2, <3>1, Apart DEF Cleared
    <3>3. x.place[corpse] = NULL
      BY <2>2 DEF Tidy
    <3>4. QED
      BY <3>2, <3>3, Apart
  <2> HIDE DEF o
  <2>4. o # corpse /\ corpse \notin Under(x, o)
    <3>1. o # corpse
      BY <2>3
    <3>2. Forest(x) /\ x.place[corpse] \notin Objs
      BY <2>2, <2>3, Apart DEF Tidy
    <3>3. QED
      BY <2>3, <3>1, <3>2, NotUnder
  <2>5. /\ Tidy(e, M) /\ Square(e, d) /\ e.made = x.made
        /\ RidOf(x, e, o) /\ Pruned(x, e)
    <3>1. CASE o \in vanishing
      <4>1. e = Extracted(x, o)
        BY <3>1 DEF BuryStep
      <4> HIDE DEF e
      <4>2. Tidy(e, M \ {o}) /\ Square(e, d) /\ RidOf(x, e, o) /\ e.made = x.made
        BY <2>2, <2>3, <4>1, ExtractedTidy
      <4>a. Pruned(x, e)
        BY <2>2, <2>3, <4>1, ExtractedPrunes
      <4>3. M \ {o} = M
        BY <2>2, <2>3, Apart DEF Tidy
      <4>4. QED
        BY <4>2, <4>3, <4>a
    <3>2. CASE o \notin vanishing
      <4>1. e = Moved(x, o, corpse)
        BY <3>2 DEF BuryStep
      <4> HIDE DEF e
      <4>2. corpse \in Live(x) /\ x.place[o] # NULL
        BY <2>2, <2>3, LiveIs
      <4>3. /\ Tidy(e, M) /\ Square(e, d) /\ e.made = x.made /\ Pruned(x, e)
            /\ \A y \in Objs : e.place[y] = IF y = o THEN corpse ELSE x.place[y]
        BY <2>2, <2>3, <2>4, <4>1, <4>2, MovedTidy
      <4>4. RidOf(x, e, o)
        BY <4>3 DEF RidOf
      <4>5. QED
        BY <4>3, <4>4
    <3>3. QED
      BY <3>1, <3>2
  <2> HIDE DEF e
  <2>6. Cleared(h, e, s, k)
    BY <1>a, <2>2, <2>5, ClearedMore DEF o, n
  <2>b. Pruned(h, e)
    BY <2>2, <2>5 DEF Pruned
  <2>7. Good(k, e) /\ e \in HeapType
    BY <2>2, <2>5, <2>6, <2>b DEF Tidy
  <2>8. QED
    BY <1>2, <2>1, <2>2, <2>7 DEF e, o
<1> HIDE DEF Good, n, g
<1>5. g = [k \in 0 .. n |-> IF k = 0 THEN h ELSE BuryStep(g[k - 1], s[k], corpse, vanishing)]
  <2>1. \A k \in 1 .. n : \A x \in D[k - 1] : F[k][x] \in D[k]
    BY <1>2, <1>4
  <2>2. PICK j : Runs(j, F, D, h, n)
    BY <1>0, <1>3, <2>1, Recursion
  <2>3. /\ j = [k \in 0 .. n |-> IF k = 0 THEN h ELSE F[k][j[k - 1]]]
        /\ \A k \in 0 .. n : j[k] \in D[k]
    BY <2>2 DEF Runs
  <2>4. ASSUME NEW k \in 0 .. n
        PROVE  (IF k = 0 THEN h ELSE F[k][j[k - 1]]) = IF k = 0 THEN h ELSE BuryStep(j[k - 1], s[k], corpse, vanishing)
    <3>1. CASE k = 0
      BY <3>1
    <3>2. CASE k # 0
      <4>1. k \in 1 .. n /\ k - 1 \in 0 .. n
        BY <1>0, <3>2
      <4>2. j[k - 1] \in HeapType
        BY <1>4, <2>3, <4>1
      <4>3. QED
        BY <1>2, <3>2, <4>1, <4>2
    <3>3. QED
      BY <3>1, <3>2
  <2>5. j = [k \in 0 .. n |-> IF k = 0 THEN h ELSE BuryStep(j[k - 1], s[k], corpse, vanishing)]
    BY <2>3, <2>4
  <2>6. QED
    BY <2>5 DEF g
<1>6. g[0] = h /\ \A k \in 1 .. n : g[k] = BuryStep(g[k - 1], s[k], corpse, vanishing)
  <2>1. 0 \in 0 .. n /\ \A k \in 1 .. n : k \in 0 .. n /\ k # 0
    BY <1>0
  <2>2. \A k \in 0 .. n : g[k] = IF k = 0 THEN h ELSE BuryStep(g[k - 1], s[k], corpse, vanishing)
    BY <1>5
  <2>3. QED
    BY <2>1, <2>2
<1> DEFINE G == {k \in 0 .. n : g[k] \in D[k]}
<1>7. 0 \in G
  BY <1>0, <1>3, <1>6
<1>8. ASSUME NEW k \in 1 .. n, k - 1 \in G PROVE k \in G
  <2>1. g[k - 1] \in D[k - 1]
    BY <1>8
  <2>2. g[k] \in D[k] /\ k \in 0 .. n
    BY <1>0, <1>4, <1>6, <2>1
  <2>3. QED
    BY <2>2
<1> HIDE DEF G
<1>9. \A k \in 0 .. n : k \in G
  BY <1>0, <1>7, <1>8, Upward
<1>10. n \in 0 .. n /\ n \in G
  BY <1>0, <1>9
<1>11. Good(n, t)
  BY <1>1, <1>2, <1>10 DEF G
<1>12. \A y : y \in ToSet(s) <=> \E i \in 1 .. n : s[i] = y
  BY <1>a, SeqIs DEF n
<1>13. QED
  BY <1>11, <1>12 DEF Good, Cleared

-----------------------------------------------------------------------------
(* A total of weights is not negative.                                      *)
LEMMA TotalNat ==
  ASSUME NEW w \in [Objs -> Nat], NEW S
  PROVE  Total(w, S) \in Nat
<1>0. w \in [Objs -> Int] /\ MaxObjs \in Nat /\ \A n \in 1 .. MaxObjs : Term(w, S, n) \in Nat
  BY ObjectsAssumption DEF Term, Objs
<1>1. PICK t : Sums(w, S, t) /\ Total(w, S) = t[MaxObjs]
  BY <1>0, TotalIs
<1> DEFINE G == {n \in 0 .. MaxObjs : t[n] \in Nat}
<1>2. 0 \in G
  BY <1>0, <1>1 DEF Sums
<1>3. ASSUME NEW n \in 1 .. MaxObjs, n - 1 \in G PROVE n \in G
  <2>1. t[n] = t[n - 1] + Term(w, S, n) /\ t[n - 1] \in Nat /\ Term(w, S, n) \in Nat
    BY <1>0, <1>1, <1>3 DEF Sums
  <2>2. t[n] \in Nat /\ n \in 0 .. MaxObjs
    BY <1>0, <2>1
  <2>3. QED
    BY <2>2
<1> HIDE DEF G
<1>4. \A n \in 0 .. MaxObjs : n \in G
  BY <1>0, <1>2, <1>3, Upward
<1>5. MaxObjs \in 0 .. MaxObjs
  BY <1>0
<1>6. QED
  BY <1>1, <1>4, <1>5 DEF G

(* Who holds nothing has an empty list and carries nothing.                 *)
LEMMA NobodyHolds ==
  ASSUME NEW g, NEW L, Tidy(g, L), NEW c \in Chars, \A y \in Objs : g.place[y] # c
  PROVE  g.contents[c] = << >> /\ Len(g.contents[c]) = 0 /\ Carried(g, c) = {}
<1>1. c \in Places /\ Agrees(g) /\ Forest(g)
  BY Apart DEF Tidy, Forest
<1>2. g.contents[c] \in Seq(Objs) /\ \A y : y \notin ToSet(g.contents[c])
  BY <1>1, Contents
<1>3. Len(g.contents[c]) \in Nat /\ \A k \in 1 .. Len(g.contents[c]) : g.contents[c][k] \in ToSet(g.contents[c])
  BY <1>2, SeqIs
<1>4. Len(g.contents[c]) = 0
  <2>1. ASSUME Len(g.contents[c]) # 0 PROVE FALSE
    <3>1. 1 \in 1 .. Len(g.contents[c])
      BY <1>3, <2>1
    <3>2. QED
      BY <1>2, <1>3, <3>1
  <2>2. QED
    BY <2>1
<1>5. g.contents[c] = << >>
  BY <1>2, <1>4
<1>6. Carried(g, c) = {}
  BY <1>1, CarriedIs
<1>7. QED
  BY <1>4, <1>5, <1>6

(* Setting the sums of one who holds nothing to 0 makes them right.         *)
Emptying(g, d, c, t, e) ==
  /\ \A y \in Objs : g.place[y] # c
  /\ t = Emptied(g, c) /\ e = [d EXCEPT ![c] = 0]

LEMMA EmptiedTidy ==
  ASSUME NEW g, NEW L, Tidy(g, L), NEW d \in [Chars -> Int], Square(g, d),
         NEW c \in Chars, NEW t, NEW e, Emptying(g, d, c, t, e)
  PROVE  Tidy(t, L) /\ Square(t, e) /\ t.place = g.place
<1> DEFINE m == [g.carry_number EXCEPT ![c] = 0]
           w == [g.carry_weight EXCEPT ![c] = 0]
<1>0. g \in HeapType /\ g.carry_number \in [Chars -> Int] /\ g.carry_weight \in [Chars -> Int]
  BY HeapFields DEF Tidy
<1>a. (\A y \in Objs : g.place[y] # c) /\ t = Emptied(g, c) /\ e = [d EXCEPT ![c] = 0]
  BY DEF Emptying
<1>1. t = [g EXCEPT !.carry_number = m, !.carry_weight = w]
  BY <1>0, <1>a DEF HeapType, Emptied
<1>2. /\ m \in [Chars -> Int] /\ w \in [Chars -> Int]
      /\ m[c] = 0 /\ w[c] = 0 /\ e[c] = 0
      /\ \A x \in Chars : x # c => m[x] = g.carry_number[x] /\ w[x] = g.carry_weight[x] /\ e[x] = d[x]
  BY <1>0, <1>a
<1> HIDE DEF m, w
<1>3. /\ t \in HeapType /\ SameThings(t, g) /\ t.contents = g.contents /\ t.place = g.place
      /\ t.carry_number = m /\ t.carry_weight = w
  BY <1>0, <1>1, <1>2 DEF HeapType, SameThings
<1>4. Forest(t)
  <2>1. Agrees(g) /\ Grounded(g)
    BY DEF Tidy, Forest
  <2>2. Agrees(t)
    BY <1>3, <2>1 DEF Agrees
  <2>3. Grounded(t)
    BY <1>3, <2>1 DEF Grounded
  <2>4. QED
    BY <2>2, <2>3 DEF Forest
<1>5. Tidy(t, L)
  <2>1. Live(t) = Live(g)
    BY <1>3 DEF SameThings, Live
  <2>2. /\ Listed(t.object_list) /\ Listed(t.obj_free)
        /\ ToSet(t.object_list) \cap ToSet(t.obj_free) = {}
        /\ Live(t) \cup ToSet(t.obj_free) = 1 .. t.made
    BY <1>3 DEF Tidy, SameThings, Live
  <2>3. /\ \A y \in Objs : y \in Live(t) <=> t.place[y] # NULL \/ y \in L
        /\ \A y \in L : y \in Objs /\ t.place[y] = NULL
        /\ \A y \in Objs : t.place[y] \in Objs => t.place[y] \in Live(t)
    BY <1>3, <2>1 DEF Tidy
  <2>4. QED
    BY <1>3, <1>4, <2>2, <2>3 DEF Tidy
<1>6. ASSUME NEW x \in Chars
      PROVE  /\ t.carry_number[x] = Len(t.contents[x])
             /\ t.carry_weight[x] + e[x] = Total(t.weight, Carried(t, x))
  <2>1. Carried(t, x) = Carried(g, x) /\ t.weight = g.weight /\ g.weight \in [Objs -> Int]
    <3>1. Carried(t, x) = Carried(g, x)
      BY <1>3, SameTrees
    <3>2. t.weight = g.weight
      BY <1>3 DEF SameThings
    <3>3. g.weight \in [Objs -> Nat]
      BY <1>0, HeapFields
    <3>4. QED
      BY <3>1, <3>2, <3>3
  <2>2. CASE x = c
    <3>1. Len(g.contents[x]) = 0 /\ Carried(g, x) = {}
      BY <1>a, <2>2, NobodyHolds
    <3>2. Total(t.weight, Carried(t, x)) = 0
      BY <2>1, <3>1, TotalNone
    <3>3. t.carry_number[x] = 0 /\ t.carry_weight[x] = 0 /\ e[x] = 0 /\ t.contents[x] = g.contents[x]
      BY <1>2, <1>3, <2>2
    <3>4. QED
      BY <3>1, <3>2, <3>3
  <2>3. CASE x # c
    <3>1. t.carry_number[x] = g.carry_number[x] /\ t.carry_weight[x] = g.carry_weight[x] /\ e[x] = d[x]
      BY <1>2, <1>3, <2>3
    <3>2. QED
      BY <1>3, <2>1, <3>1 DEF Square
  <2>4. QED
    BY <2>2, <2>3
<1>7. Square(t, e)
  BY <1>6 DEF Square
<1>8. QED
  BY <1>3, <1>5, <1>7 DEF SameThings

(* Preservation: something that lies in the room, or in c's hands, weighs  *)
(* less.                                                                    *)
Lighter(g, t, o, c, n) == t = [g EXCEPT !.weight[o] = @ - n, !.carry_weight[c] = @ - n]
Relieved(g, d, e, o, c, n) == e = [d EXCEPT ![c] = IF g.place[o] = c THEN @ ELSE @ + n]

(* A thing that gets lighter without its bearer noticing.                   *)
LEMMA LighterTidy ==
  ASSUME NEW g, Tidy(g, {}), NEW d \in [Chars -> Int], Square(g, d), NEW c \in Chars, NEW o \in Objs,
         g.place[o] \in {Room, c}, NEW n \in Nat, n <= g.weight[o],
         NEW t, Lighter(g, t, o, c, n), NEW e, Relieved(g, d, e, o, c, n)
  PROVE  Tidy(t, {}) /\ Square(t, e) /\ t.place = g.place /\ t.made = g.made
<1> DEFINE m == [g.weight EXCEPT ![o] = @ - n]
           w == [g.carry_weight EXCEPT ![c] = @ - n]
<1>0. /\ g \in HeapType /\ g.weight \in [Objs -> Nat] /\ g.carry_weight \in [Chars -> Int]
      /\ Forest(g)
  BY HeapFields DEF Tidy
<1>1. t = [g EXCEPT !.weight = m, !.carry_weight = w]
  BY <1>0 DEF HeapType, Lighter
<1>2. /\ m \in [Objs -> Nat] /\ w \in [Chars -> Int]
      /\ w[c] = g.carry_weight[c] - n
      /\ e[c] = IF g.place[o] = c THEN d[c] ELSE d[c] + n
      /\ \A x \in Chars : x # c => w[x] = g.carry_weight[x] /\ e[x] = d[x]
      /\ \A y \in Objs : y # o => m[y] = g.weight[y]
  <2>1. g.weight[o] \in Nat /\ g.weight[o] - n \in Nat
    BY <1>0
  <2>2. QED
    BY <1>0, <2>1 DEF Relieved
<1>3. \A S : o \in S => Total(m, S) = Total(g.weight, S) - n
  <2>1. g.weight \in [Objs -> Int] /\ n \in Int
    BY <1>0
  <2>2. QED
    BY <2>1, TotalLess
<1> HIDE DEF m, w
<1>4. /\ t \in HeapType /\ t.contents = g.contents /\ t.place = g.place
      /\ t.made = g.made /\ t.object_list = g.object_list /\ t.obj_free = g.obj_free
      /\ t.weight = m /\ t.carry_weight = w /\ t.carry_number = g.carry_number
  BY <1>0, <1>1, <1>2 DEF HeapType
<1>5. Forest(t)
  <2>1. Agrees(g) /\ Grounded(g)
    BY DEF Tidy, Forest
  <2>2. Agrees(t)
    BY <1>4, <2>1 DEF Agrees
  <2>3. Grounded(t)
    BY <1>4, <2>1 DEF Grounded
  <2>4. QED
    BY <2>2, <2>3 DEF Forest
<1>6. Tidy(t, {})
  BY <1>4, <1>5 DEF Tidy, Live
<1>7. ASSUME NEW x \in Chars
      PROVE  /\ t.carry_number[x] = Len(t.contents[x])
             /\ t.carry_weight[x] + e[x] = Total(t.weight, Carried(t, x))
  <2>1. Carried(t, x) = Carried(g, x)
    BY <1>4, SameTrees
  <2>2. /\ g.carry_number[x] = Len(g.contents[x])
        /\ g.carry_weight[x] + d[x] = Total(g.weight, Carried(g, x))
        /\ g.carry_weight[x] \in Int /\ d[x] \in Int
    BY <1>0 DEF Square
  <2>3. o \in Carried(g, x) <=> g.place[o] = x
    <3>1. CASE g.place[o] = x
      BY <1>0, <3>1, CarriedIs, UnderIs
    <3>2. CASE g.place[o] # x
      <4>1. g.place[o] \notin Objs
        BY Apart
      <4>2. Carried(g, x) \cap Under(g, o) = {} /\ o \in Under(g, o)
        BY <1>0, <3>2, <4>1, NotCarried, UnderIs
      <4>3. QED
        BY <3>2, <4>2
    <3>3. QED
      BY <3>1, <3>2
  <2>4. CASE g.place[o] = x
    <3>1. x = c
      BY <2>4, Apart
    <3>2. Total(m, Carried(g, x)) = Total(g.weight, Carried(g, x)) - n
      BY <1>3, <2>3, <2>4
    <3>3. w[x] = g.carry_weight[x] - n /\ e[x] = d[x]
      BY <1>2, <2>4, <3>1
    <3>4. w[x] + e[x] = Total(m, Carried(g, x))
      BY <2>2, <3>2, <3>3
    <3>5. QED
      BY <1>4, <2>1, <2>2, <3>4
  <2>5. CASE g.place[o] # x
    <3>1. Carried(g, x) \subseteq Objs
      BY <1>0, CarriedIs
    <3>2. \A y \in Carried(g, x) : m[y] = g.weight[y]
      BY <1>2, <2>3, <2>5, <3>1
    <3>3. m \in [Objs -> Int] /\ g.weight \in [Objs -> Int]
      BY <1>0, <1>2
    <3>4. Total(m, Carried(g, x)) = Total(g.weight, Carried(g, x))
      BY <3>2, <3>3, TotalSame
    <3>5. w[x] + e[x] = g.carry_weight[x] + d[x]
      <4>1. CASE x = c
        BY <1>2, <2>2, <2>5, <4>1
      <4>2. CASE x # c
        BY <1>2, <4>2
      <4>3. QED
        BY <4>1, <4>2
    <3>6. QED
      BY <1>4, <2>1, <2>2, <3>4, <3>5
  <2>6. QED
    BY <2>4, <2>5
<1>8. QED
  BY <1>4, <1>6, <1>7 DEF Square

-----------------------------------------------------------------------------
(* The inductive invariant: between two actions no thing is on its way, the*)
(* sums are right but for drift, only those in the game hold anything, and *)
(* obj_update stands on a structure that has been made.                    *)
Held(g, present) == \A o \in Objs, c \in Chars : g.place[o] = c => c \in present

IInv ==
  /\ Tidy(heap, {}) /\ Square(heap, drift)
  /\ gold \in [Chars -> Nat] /\ here \subseteq Chars /\ drift \in [Chars -> Int]
  /\ Held(heap, here)
  /\ obj \in 0 .. heap.made

(* Held is kept when nobody holds anything new.                             *)
LEMMA HeldLess ==
  ASSUME NEW g, NEW t, NEW present, Held(g, present),
         \A y \in Objs, p \in Places \ Objs : t.place[y] = p => g.place[y] = p
  PROVE  Held(t, present)
  BY Apart DEF Held

(* The invariant holds when the game starts.                                *)
LEMMA InitIInv == Init => IInv
<1> SUFFICES ASSUME Init PROVE IInv
  OBVIOUS
<1>1. /\ heap = [
           made         |-> 0,
           object_list  |-> << >>,
           obj_free     |-> << >>,
           contents     |-> [p \in Places |-> << >>],
           place        |-> [o \in Objs |-> NULL],
           kind         |-> [o \in Objs |-> "item"],
           value        |-> [o \in Objs |-> 0],
           weight       |-> [o \in Objs |-> 0],
           carry_number |-> [c \in Chars |-> 0],
           carry_weight |-> [c \in Chars |-> 0] ]
      /\ gold = Purse /\ here = Chars /\ drift = [c \in Chars |-> 0] /\ obj = 0
  BY DEF Init
<1>a. 0 \in 0 .. MaxObjs /\ "item" \in Kinds /\ Purse \in [Chars -> Nat]
  BY ObjectsAssumption DEF Kinds
<1>2. heap \in HeapType
  BY <1>1, <1>a DEF HeapType
<1>3. /\ heap.made = 0 /\ heap.object_list = << >> /\ heap.obj_free = << >>
      /\ \A p \in Places : heap.contents[p] = << >>
      /\ \A o \in Objs : heap.place[o] = NULL
      /\ \A c \in Chars : heap.carry_number[c] = 0 /\ heap.carry_weight[c] = 0 /\ drift[c] = 0
  BY <1>1
<1>4. << >> \in Seq(Objs) /\ IsInjective(<< >>) /\ ToSet(<< >>) = {} /\ Len(<< >>) = 0
  BY DEF IsInjective, ToSet
<1>5. Agrees(heap)
  <2>1. heap.contents \in [Places -> Seq(Objs)] /\ heap.place \in [Objs -> Places \cup {NULL}]
    BY <1>2, HeapFields
  <2>2. ASSUME NEW p \in Places PROVE ToSet(heap.contents[p]) = {o \in Objs : heap.place[o] = p}
    BY <1>3, <1>4, Apart
  <2>3. \A p \in Places : IsInjective(heap.contents[p])
    BY <1>3, <1>4
  <2>4. QED
    BY <2>1, <2>2, <2>3 DEF Agrees
<1>6. Grounded(heap)
  <2>1. ASSUME NEW S \in SUBSET Objs, S # {} PROVE \E x \in S : \A y \in S : heap.place[y] # x
    <3>1. PICK x \in S : TRUE
      BY <2>1
    <3>2. \A y \in S : heap.place[y] = NULL
      BY <1>3
    <3>3. x # NULL
      BY Apart
    <3>4. QED
      BY <3>1, <3>2, <3>3
  <2>2. QED
    BY <2>1 DEF Grounded
<1>7. Tidy(heap, {})
  <2>1. 1 .. 0 = {}
    OBVIOUS
  <2>2. \A o \in Objs : heap.place[o] \notin Objs
    BY <1>3, Apart
  <2>3. QED
    BY <1>2, <1>3, <1>4, <1>5, <1>6, <2>1, <2>2 DEF Tidy, Forest, Listed, Live
<1>8. Square(heap, drift)
  <2>1. ASSUME NEW c \in Chars
        PROVE  /\ heap.carry_number[c] = Len(heap.contents[c])
               /\ heap.carry_weight[c] + drift[c] = Total(heap.weight, Carried(heap, c))
    <3>1. c \in Places /\ \A y \in Objs : heap.place[y] # c
      BY <1>3, Apart
    <3>2. Carried(heap, c) = {}
      BY <1>7, <3>1, NobodyHolds
    <3>3. heap.weight \in [Objs -> Int]
      BY <1>2, HeapFields
    <3>4. Total(heap.weight, Carried(heap, c)) = 0
      BY <3>2, <3>3, TotalNone
    <3>5. QED
      BY <1>3, <1>4, <3>1, <3>4
  <2>2. QED
    BY <2>1 DEF Square
<1>9. Held(heap, here)
  BY <1>3, Apart DEF Held
<1>10. QED
  BY <1>1, <1>3, <1>7, <1>8, <1>9, <1>a DEF IInv

-----------------------------------------------------------------------------
(* Each action preserves it.                                                *)
LEMMA Facts ==
  ASSUME IInv
  PROVE  /\ Tidy(heap, {}) /\ Square(heap, drift) /\ heap \in HeapType
         /\ gold \in [Chars -> Nat] /\ here \subseteq Chars /\ drift \in [Chars -> Int]
         /\ Held(heap, here) /\ obj \in 0 .. heap.made
         /\ \A o \in Objs : Under(heap, o) \subseteq Objs
         /\ heap.value \in [Objs -> Nat] /\ heap.weight \in [Objs -> Nat]
<1>1. Tidy(heap, {}) /\ heap \in HeapType /\ Forest(heap)
  BY DEF IInv, Tidy
<1>2. heap.value \in [Objs -> Nat] /\ heap.weight \in [Objs -> Nat]
  BY <1>1, HeapFields
<1>3. \A o \in Objs : Under(heap, o) \subseteq Objs
  BY <1>1, UnderIs
<1>4. QED
  BY <1>1, <1>2, <1>3 DEF IInv

(* The invariant is kept by a move of one thing,                            *)
LEMMA MovingKeeps ==
  ASSUME IInv, NEW o \in Objs, heap.place[o] # NULL, NEW p \in Places,
         p \notin Under(heap, o), p \in Objs => p \in Live(heap), p \in Chars => p \in here,
         heap' = Moved(heap, o, p), gold' = gold, here' = here, drift' = drift, obj' = obj
  PROVE  IInv'
<1>1. /\ Tidy(heap', {}) /\ Square(heap', drift) /\ heap'.made = heap.made
      /\ \A y \in Objs : heap'.place[y] = IF y = o THEN p ELSE heap.place[y]
  BY Facts, MovedTidy
<1>2. Held(heap', here)
  BY <1>1, Facts DEF Held
<1>3. QED
  BY <1>1, <1>2, Facts DEF IInv

(* by get_obj,                                                              *)
LEMMA GetObjKeeps ==
  ASSUME IInv, NEW c \in here, NEW o \in Objs, heap.place[o] # NULL, GetObj(c, o),
         here' = here, drift' = drift, obj' = obj
  PROVE  IInv'
<1>0. c \in Chars /\ c \in Places /\ c \notin Objs /\ c \notin Under(heap, o)
  BY Facts, Apart
<1>1. CASE heap.kind[o] \in {"coin", "coins"}
  <2>1. /\ gold' = [gold EXCEPT ![c] = @ + heap.value[o]]
        /\ heap' = Extracted(From(heap, o), o)
    BY <1>1 DEF GetObj
  <2> DEFINE f == From(heap, o)
             none == {}
             loose == {o}
  <2>a. /\ Tidy(heap, none) /\ Square(heap, drift) /\ drift \in [Chars -> Int]
        /\ none \cup {o} = loose /\ loose \ {o} = {}
    BY Facts
  <2>b. o \in Live(heap)
    BY Facts, LiveIs
  <2>c. heap' = Extracted(f, o)
    BY <2>1
  <2>d. /\ Tidy(f, none \cup {o}) /\ Square(f, drift) /\ f.place[o] = NULL
        /\ \A y \in Objs : y # o => f.place[y] = heap.place[y]
        /\ SameThings(f, heap)
    <3> HIDE DEF none, loose
    <3>1. QED
      BY <2>a, <2>b, Loosened
  <2> HIDE DEF f, none, loose
  <2>2. /\ Tidy(f, loose) /\ Square(f, drift) /\ f.made = heap.made /\ f.place[o] = NULL
        /\ \A y \in Objs : y # o => f.place[y] = heap.place[y]
    BY <2>a, <2>d DEF SameThings
  <2>4. Tidy(heap', loose \ {o}) /\ Square(heap', drift) /\ RidOf(f, heap', o)
        /\ heap'.made = f.made
    BY <2>2, <2>a, <2>c, ExtractedTidy
  <2>6. Tidy(heap', {})
    BY <2>4, <2>a
  <2>7. \A y \in Objs, p \in Places \ Objs : heap'.place[y] = p => heap.place[y] = p
    BY <2>2, <2>4 DEF RidOf
  <2>8. Held(heap', here)
    BY <2>7, Facts, HeldLess
  <2>9. gold' \in [Chars -> Nat]
    BY <1>0, <2>1, Facts
  <2>10. QED
    BY <2>2, <2>4, <2>6, <2>8, <2>9, Facts DEF IInv
<1>2. CASE heap.kind[o] \notin {"coin", "coins"}
  <2>1. heap' = Moved(heap, o, c) /\ gold' = gold
    BY <1>2 DEF GetObj
  <2>2. QED
    BY <1>0, <2>1, MovingKeeps
<1>3. QED
  BY <1>1, <1>2

(* by "get" from the room,                                                  *)
LEMMA GetKeeps ==
  ASSUME IInv, NEW c \in Chars, NEW o \in Objs, Get(c, o)
  PROVE  IInv'
<1>1. /\ c \in here /\ heap.place[o] = Room /\ GetObj(c, o)
      /\ here' = here /\ drift' = drift /\ obj' = obj
  BY DEF Get, Hands, Quiet
<1>2. heap.place[o] # NULL
  BY <1>1, Apart
<1>3. QED
  BY <1>1, <1>2, GetObjKeeps

(* by "get" from a container,                                               *)
LEMMA GetFromKeeps ==
  ASSUME IInv, NEW c \in Chars, NEW o \in Objs, NEW x \in Objs, GetFrom(c, o, x)
  PROVE  IInv'
<1>1. /\ c \in here /\ heap.place[o] = x /\ GetObj(c, o)
      /\ here' = here /\ drift' = drift /\ obj' = obj
  BY DEF GetFrom, Hands, Quiet
<1>2. heap.place[o] # NULL
  BY <1>1, Apart
<1>3. QED
  BY <1>1, <1>2, GetObjKeeps

(* by "put",                                                                *)
LEMMA PutKeeps ==
  ASSUME IInv, NEW c \in Chars, NEW o \in Objs, NEW bag \in Objs, Put(c, o, bag)
  PROVE  IInv'
<1>1. /\ heap.place[o] = c /\ heap.place[bag] \in {Room, c} /\ o # bag
      /\ heap' = Moved(heap, o, bag) /\ gold' = gold
      /\ here' = here /\ drift' = drift /\ obj' = obj
  BY DEF Put, Hands, Quiet
<1>2. /\ heap.place[o] # NULL /\ heap.place[bag] # NULL /\ heap.place[bag] \notin Objs
      /\ bag \in Places /\ bag \notin Chars
  BY <1>1, Apart
<1>3. bag \in Live(heap) /\ bag \notin Under(heap, o)
  <2>1. Forest(heap)
    BY Facts DEF Tidy
  <2>2. QED
    BY <1>1, <1>2, <2>1, Facts, LiveIs, NotUnder
<1>4. QED
  BY <1>1, <1>2, <1>3, MovingKeeps

(* by "drop",                                                               *)
LEMMA DropKeeps ==
  ASSUME IInv, NEW c \in Chars, NEW o \in Objs, Drop(c, o)
  PROVE  IInv'
<1>1. /\ heap.place[o] = c /\ heap' = Moved(heap, o, Room) /\ gold' = gold
      /\ here' = here /\ drift' = drift /\ obj' = obj
  BY DEF Drop, Hands, Quiet
<1>2. /\ heap.place[o] # NULL /\ Room \in Places /\ Room \notin Objs /\ Room \notin Chars
      /\ Room \notin Under(heap, o)
  BY <1>1, Facts, Apart
<1>3. QED
  BY <1>1, <1>2, MovingKeeps

(* by "give",                                                               *)
LEMMA GiveKeeps ==
  ASSUME IInv, NEW c \in Chars, NEW v \in Chars, NEW o \in Objs, Give(c, v, o)
  PROVE  IInv'
<1>1. /\ v \in here /\ heap.place[o] = c /\ heap' = Moved(heap, o, v) /\ gold' = gold
      /\ here' = here /\ drift' = drift /\ obj' = obj
  BY DEF Give, Hands, Quiet
<1>2. heap.place[o] # NULL /\ v \in Places /\ v \notin Objs /\ v \notin Under(heap, o)
  BY <1>1, Facts, Apart
<1>3. QED
  BY <1>1, <1>2, MovingKeeps

(* A thing that is extracted on its own.                                    *)
LEMMA ExtractingKeeps ==
  ASSUME IInv, NEW o \in Objs, NEW t, t = Extracted(heap, o)
  PROVE  Tidy(t, {}) /\ Square(t, drift) /\ t.made = heap.made /\ Held(t, here)
<1> DEFINE none == {}
<1>1. /\ Tidy(heap, none) /\ Square(heap, drift) /\ drift \in [Chars -> Int]
      /\ none \ {o} = none /\ Held(heap, here)
  BY Facts
<1>2. Tidy(t, none \ {o}) /\ Square(t, drift) /\ RidOf(heap, t, o) /\ t.made = heap.made
  <2> HIDE DEF none
  <2>1. QED
    BY <1>1, ExtractedTidy
<1>3. Tidy(t, none)
  BY <1>1, <1>2
<1>4. \A y \in Objs, p \in Places \ Objs : t.place[y] = p => heap.place[y] = p
  BY <1>2 DEF RidOf
<1>5. Held(t, here)
  BY <1>1, <1>4, HeldLess
<1>6. QED
  BY <1>2, <1>3, <1>5

(* by "sacrifice",                                                          *)
LEMMA SacrificeKeeps ==
  ASSUME IInv, NEW c \in Chars, NEW o \in Objs, Sacrifice(c, o)
  PROVE  IInv'
<1>1. heap' = Extracted(heap, o) /\ gold' = gold /\ here' = here /\ drift' = drift /\ obj' = obj
  BY DEF Sacrifice, Hands, Quiet
<1>2. Tidy(heap', {}) /\ Square(heap', drift) /\ heap'.made = heap.made /\ Held(heap', here)
  BY <1>1, ExtractingKeeps
<1>3. QED
  BY <1>1, <1>2, Facts DEF IInv

(* by "give" of gold,                                                       *)
LEMMA GiveCoinsKeeps ==
  ASSUME IInv, NEW c \in Chars, NEW v \in Chars, NEW n \in Amounts, GiveCoins(c, v, n)
  PROVE  IInv'
<1>1. /\ v # c /\ n <= gold[c] /\ gold' = [gold EXCEPT ![c] = @ - n, ![v] = @ + n]
      /\ heap' = heap /\ here' = here /\ drift' = drift /\ obj' = obj
  BY DEF GiveCoins, Hands, Quiet
<1>2. n \in Nat /\ gold \in [Chars -> Nat]
  BY Facts, ObjectsAssumption
<1>3. gold' \in [Chars -> Nat]
  <2>1. gold[c] \in Nat /\ gold[v] \in Nat /\ gold[c] - n \in Nat /\ gold[v] + n \in Nat
    BY <1>1, <1>2
  <2>2. QED
    BY <1>1, <1>2, <2>1
<1>4. QED
  BY <1>1, <1>3, Facts DEF IInv

(* by "drop" of gold,                                                       *)
LEMMA DropCoinsKeeps ==
  ASSUME IInv, NEW c \in Chars, NEW n \in Amounts, DropCoins(c, n)
  PROVE  IInv'
<1> DEFINE things == {o \in Objs : heap.kind[o] \notin {"coin", "coins"}}
           lying == Without(heap.contents[Room], things)
           worth == [o \in Objs |-> IF heap.kind[o] = "coin" THEN 1 ELSE heap.value[o]]
           bare == ExtractedAll(heap, lying)
           amount == n + Total(worth, ToSet(lying))
<1>1. /\ n <= gold[c] /\ CanCreate(bare, 1) /\ gold' = [gold EXCEPT ![c] = @ - n]
      /\ heap' \in MoneyIn(bare, amount, Room)
      /\ here' = here /\ drift' = drift /\ obj' = obj
  BY DEF DropCoins, Hands, Quiet
<1>2. n \in Nat /\ gold \in [Chars -> Nat] /\ drift \in [Chars -> Int] /\ obj \in 0 .. heap.made
  BY Facts, ObjectsAssumption
<1>3. gold' \in [Chars -> Nat]
  <2>1. gold[c] \in Nat /\ gold[c] - n \in Nat
    BY <1>1, <1>2
  <2>2. QED
    BY <1>1, <1>2, <2>1
<1>4. worth \in [Objs -> Nat]
  BY Facts
<1>5. amount \in Nat
  <2> HIDE DEF worth, lying
  <2>1. Total(worth, ToSet(lying)) \in Nat
    BY <1>4, TotalNat
  <2>2. QED
    BY <1>2, <2>1
<1>6. lying \in Seq(Objs)
  <2>1. Room \in Places /\ Agrees(heap)
    BY Facts, Apart DEF Tidy, Forest
  <2>2. heap.contents[Room] \in Seq(Objs)
    BY <2>1, Contents
  <2>3. QED
    BY <2>2, WithoutIs
<1> HIDE DEF lying, amount
<1>7. /\ Tidy(bare, {}) /\ Square(bare, drift) /\ bare.made = heap.made
      /\ \A y \in Objs, p \in Places \ Objs : bare.place[y] = p => heap.place[y] = p
  BY <1>6, Facts, AllExtracted
<1>8. Held(bare, here)
  BY <1>7, Facts, HeldLess
<1> HIDE DEF bare
<1>9. /\ Room \in Places /\ Room \notin Objs /\ Room \notin Chars
  BY Apart
<1>10. /\ Tidy(heap', {}) /\ Square(heap', drift)
       /\ \E o \in Objs : /\ o \notin Live(bare)
                          /\ \A y \in Objs : heap'.place[y] = IF y = o THEN Room ELSE bare.place[y]
  <2>1. 1 \in Nat \ {0}
    OBVIOUS
  <2>2. QED
    BY <1>1, <1>2, <1>5, <1>7, <1>9, <2>1, MoneyTidy
<1>11. Held(heap', here)
  BY <1>8, <1>9, <1>10 DEF Held
<1>12. obj' \in 0 .. heap'.made
  <2>1. obj = 0 /\ heap'.made \in Nat
    BY <1>10, HeapFields DEF Tidy, DropCoins, Hands, Quiet, Idle
  <2>2. QED
    BY <1>1, <2>1
<1>13. QED
  BY <1>1, <1>2, <1>3, <1>10, <1>11, <1>12, Facts DEF IInv

(* by Preservation, with what it forgot kept in drift,                      *)
LEMMA PreserveKeeps ==
  ASSUME IInv, NEW c \in Chars, NEW o \in Objs, Preserve(c, o)
  PROVE  IInv'
<1> DEFINE less == IF heap.weight[o] > 1 THEN heap.weight[o] - heap.weight[o] \div 2 ELSE 0
<1>1. /\ heap.place[o] \in {Room, c}
      /\ heap' = [heap EXCEPT !.weight[o] = @ - less, !.carry_weight[c] = @ - less]
      /\ drift' = [drift EXCEPT ![c] = IF heap.place[o] = c THEN @ ELSE @ + less]
      /\ gold' = gold /\ here' = here /\ obj' = obj
  BY DEF Preserve, Quiet
<1>2. less \in Nat /\ less <= heap.weight[o]
  <2>1. heap.weight[o] \in Nat
    BY Facts
  <2>2. heap.weight[o] \div 2 \in Nat /\ heap.weight[o] \div 2 <= heap.weight[o]
    BY <2>1
  <2>3. QED
    BY <2>1, <2>2
<1> HIDE DEF less
<1>3. /\ Tidy(heap', {}) /\ Square(heap', drift') /\ heap'.place = heap.place /\ heap'.made = heap.made
  <2>1. Lighter(heap, heap', o, c, less) /\ Relieved(heap, drift, drift', o, c, less)
    BY <1>1 DEF Lighter, Relieved
  <2>2. QED
    BY <1>1, <1>2, <2>1, Facts, LighterTidy
<1>4. drift' \in [Chars -> Int]
  <2>1. drift \in [Chars -> Int] /\ drift[c] \in Int /\ drift[c] + less \in Int
    BY <1>2, Facts
  <2>2. QED
    BY <1>1, <2>1
<1>5. Held(heap', here)
  BY <1>3, Facts DEF Held
<1>6. QED
  BY <1>1, <1>3, <1>4, <1>5, Facts DEF IInv

(* and by whatever makes a thing.                                           *)
LEMMA LoadKeeps ==
  ASSUME IInv, NEW p \in {Room} \cup Chars, NEW k \in {"item", "bag"}, Load(p, k)
  PROVE  IInv'
<1> DEFINE o == Fresh(heap)
           m == Created(heap, k, 0)
           none == {}
           loose == {o}
<1>1. /\ p \in here \cup {Room} /\ CanCreate(heap, 1) /\ heap' = To(m, o, p)
      /\ gold' = gold /\ here' = here /\ drift' = drift /\ obj' = obj /\ obj = 0
  BY DEF Load, Quiet, Idle
<1>2. /\ p \in Places /\ p \notin Objs /\ 1 \in Nat \ {0} /\ k \in Kinds /\ 0 \in Nat
      /\ Tidy(heap, none) /\ none \cup {o} = loose /\ loose \ {o} = {}
      /\ Square(heap, drift) /\ drift \in [Chars -> Int] /\ o \in loose
  <2>1. p \in Places /\ p \notin Objs
    BY Apart
  <2>2. 1 \in Nat \ {0} /\ 0 \in Nat
    OBVIOUS
  <2>3. k \in Kinds
    BY DEF Kinds
  <2>4. Tidy(heap, none) /\ Square(heap, drift) /\ drift \in [Chars -> Int]
    BY Facts
  <2>5. none \cup {o} = loose /\ loose \ {o} = {} /\ o \in loose
    OBVIOUS
  <2>6. QED
    BY <2>1, <2>2, <2>3, <2>4, <2>5
<1>a. m = Created(heap, k, 0) /\ o = Fresh(heap)
  OBVIOUS
<1> HIDE DEF m, o, none, loose
<1>3. /\ Tidy(m, none \cup {o}) /\ Square(m, drift) /\ m.place = heap.place
      /\ o \in Objs /\ Under(m, o) = {o} /\ heap.place[o] = NULL
  BY <1>1, <1>2, <1>a, CreatedTidy
<1>4. Tidy(m, loose) /\ p \notin Under(m, o)
  BY <1>2, <1>3
<1>5. Tidy(heap', loose \ {o}) /\ Square(heap', drift)
  BY <1>1, <1>2, <1>3, <1>4, ToTidy
<1>6. PutInto(m, o, p, heap')
  <2>1. m \in HeapType /\ Forest(m) /\ m.place[o] = NULL
    BY <1>3 DEF Tidy
  <2>2. QED
    BY <1>1, <1>2, <1>3, <1>4, <2>1, ToIs
<1>7. heap'.place[o] = p /\ \A y \in Objs : y # o => heap'.place[y] = heap.place[y]
  BY <1>3, <1>6 DEF PutInto, Hooked
<1>8. Held(heap', here)
  <2>1. ASSUME NEW y \in Objs, NEW c \in Chars, heap'.place[y] = c PROVE c \in here
    <3>1. CASE y = o
      BY <1>1, <1>7, <2>1, <3>1, Apart
    <3>2. CASE y # o
      BY <1>7, <2>1, <3>2, Facts DEF Held
    <3>3. QED
      BY <3>1, <3>2
  <2>2. QED
    BY <2>1 DEF Held
<1>9. Tidy(heap', {})
  BY <1>2, <1>5
<1>10. heap'.made \in Nat
  BY <1>9, HeapFields DEF Tidy
<1>11. QED
  BY <1>1, <1>5, <1>8, <1>9, <1>10, Facts DEF IInv

(* Some sums the provers want in one place.                                 *)
LEMMA OneTwo == 2 \in Nat \ {0} /\ 2 - 1 = 1 /\ 1 \in Nat \ {0} /\ 0 \in Nat
  OBVIOUS

(* A corpse holds what its owner carried, and its owner nothing.            *)
LEMMA BodyTidy ==
  ASSUME IInv, CanCreate(heap, 2), NEW kind \in Kinds, NEW corpse, corpse = Fresh(heap),
         NEW body, body = Created(heap, kind, 0), NEW M, M = {corpse}
  PROVE  /\ Tidy(body, M) /\ Square(body, drift) /\ body.place = heap.place
         /\ corpse \in Objs /\ corpse \in Live(body) /\ CanCreate(body, 1)
<1> DEFINE none == {}
<1>1. none \cup {corpse} = M
  OBVIOUS
<1>2. Tidy(heap, none) /\ Square(heap, drift) /\ drift \in [Chars -> Int]
  BY Facts
<1> HIDE DEF none
<1>3. /\ Tidy(body, none \cup {corpse}) /\ Square(body, drift) /\ body.place = heap.place
      /\ corpse \in Objs /\ Live(body) = Live(heap) \cup {corpse} /\ CanCreate(body, 2 - 1)
  BY <1>2, OneTwo, CreatedTidy
<1>4. CanCreate(body, 1)
  BY <1>3, OneTwo
<1>5. QED
  BY <1>1, <1>3, <1>4

(* The gold of the dead goes into the corpse.                               *)
LEMMA PurseTidy ==
  ASSUME NEW M, NEW body, Tidy(body, M), NEW d \in [Chars -> Int], Square(body, d),
         NEW corpse \in Objs, corpse \in Live(body), CanCreate(body, 1), NEW n \in Nat,
         NEW h \in IF n = 0 THEN {body} ELSE MoneyIn(body, n, corpse)
  PROVE  /\ Tidy(h, M) /\ Square(h, d)
         /\ \A y \in Objs, p \in Places \ Objs : h.place[y] = p <=> body.place[y] = p
<1>1. CASE n = 0
  BY <1>1
<1>2. CASE n # 0
  <2>1. h \in MoneyIn(body, n, corpse) /\ corpse \in Places
    BY <1>2, Apart
  <2>2. /\ Tidy(h, M) /\ Square(h, d)
        /\ \E o \in Objs : /\ o \notin Live(body)
                           /\ \A y \in Objs : h.place[y] = IF y = o THEN corpse ELSE body.place[y]
    BY <2>1, OneTwo, MoneyTidy
  <2>3. PICK o \in Objs : /\ o \notin Live(body)
                          /\ \A y \in Objs : h.place[y] = IF y = o THEN corpse ELSE body.place[y]
    BY <2>2
  <2>4. body.place[o] = NULL
    BY <2>3, LiveIs
  <2>5. QED
    BY <2>2, <2>3, <2>4, Apart
<1>3. QED
  BY <1>1, <1>2

(* The corpse takes all and comes to lie in the room.                       *)
LEMMA GraveTidy ==
  ASSUME NEW corpse \in Objs, NEW M, corpse \in M, NEW N, N = M \ {corpse},
         NEW h, Tidy(h, M), NEW d \in [Chars -> Int], Square(h, d),
         NEW c \in Chars, NEW s, Listed(s), \A y \in ToSet(s) : h.place[y] = c,
         NEW vanishing, NEW b, b = Buried(h, s, corpse, vanishing),
         NEW t, t = To(b, corpse, Room)
  PROVE  /\ Tidy(t, N) /\ Square(t, d)
         /\ \A y \in Objs, p \in Places \ Objs :
               t.place[y] = p => y = corpse \/ (h.place[y] = p /\ y \notin ToSet(s))
         /\ t.place[corpse] = Room
<1>1. /\ Tidy(b, M) /\ Square(b, d)
      /\ \A y \in Objs, p \in Places \ Objs : b.place[y] = p <=> h.place[y] = p /\ y \notin ToSet(s)
  BY BuriedTidy
<1>3. Room \in Places /\ Room \notin Objs
  BY Apart
<1>4. Forest(b) /\ b \in HeapType /\ b.place[corpse] = NULL
  BY <1>1 DEF Tidy
<1>5. Room \notin Under(b, corpse)
  BY <1>3, <1>4, UnderIs
<1>6. Tidy(t, M \ {corpse}) /\ Square(t, d)
  BY <1>1, <1>3, <1>5, ToTidy
<1>7. PutInto(b, corpse, Room, t)
  BY <1>3, <1>4, <1>5, ToIs
<1>8. t.place[corpse] = Room /\ \A y \in Objs : y # corpse => t.place[y] = b.place[y]
  BY <1>7 DEF PutInto, Hooked
<1>9. QED
  BY <1>1, <1>6, <1>8

(* make_corpse keeps lists tidy and sums right, and leaves c with nothing.  *)
LEMMA CorpseTidy ==
  ASSUME IInv, NEW c \in Chars, CanCreate(heap, 2), NEW vanishing, NEW t \in CorpseOf(c, vanishing)
  PROVE  /\ Tidy(t, {}) /\ Square(t, drift)
         /\ \A y \in Objs, p \in Chars : t.place[y] = p => heap.place[y] = p /\ p # c
<1>1. PICK kind \in Kinds : kind = IF c \in Players THEN "pc corpse" ELSE "corpse"
  BY DEF Kinds
<1>2. PICK corpse : corpse = Fresh(heap)
  OBVIOUS
<1>3. PICK body : body = Created(heap, kind, 0)
  OBVIOUS
<1>4. PICK s : s = heap.contents[c]
  OBVIOUS
<1>5. PICK h \in IF gold[c] = 0 THEN {body} ELSE MoneyIn(body, gold[c], corpse) :
         t = To(Buried(h, s, corpse, vanishing), corpse, Room)
  BY <1>1, <1>2, <1>3, <1>4 DEF CorpseOf
<1>6. PICK b : b = Buried(h, s, corpse, vanishing)
  OBVIOUS
<1>7. drift \in [Chars -> Int] /\ gold[c] \in Nat
  BY Facts
<1>8. /\ Listed(s) /\ \A y : y \in ToSet(s) <=> y \in Objs /\ heap.place[y] = c
  <2>1. Agrees(heap) /\ c \in Places
    BY Facts, Apart DEF Tidy, Forest
  <2>2. QED
    BY <1>4, <2>1, Contents DEF Listed
<1>a. PICK M : M = {corpse}
  OBVIOUS
<1>9. /\ Tidy(body, M) /\ Square(body, drift) /\ body.place = heap.place
      /\ corpse \in Objs /\ corpse \in Live(body) /\ CanCreate(body, 1)
  BY <1>2, <1>3, <1>a, BodyTidy
<1>10. /\ Tidy(h, M) /\ Square(h, drift)
       /\ \A y \in Objs, p \in Places \ Objs : h.place[y] = p <=> body.place[y] = p
  BY <1>5, <1>7, <1>9, PurseTidy
<1>11. c \in Places \ Objs /\ \A p \in Chars : p \in Places \ Objs /\ p # Room
  BY Apart
<1>12. \A y \in ToSet(s) : h.place[y] = c
  BY <1>8, <1>9, <1>10, <1>11
<1>13. t = To(b, corpse, Room)
  BY <1>5, <1>6
<1>b. corpse \in M
  BY <1>a
<1>c. PICK N : N = M \ {corpse}
  OBVIOUS
<1>14. /\ Tidy(t, N) /\ Square(t, drift)
       /\ \A y \in Objs, p \in Places \ Objs :
             t.place[y] = p => y = corpse \/ (h.place[y] = p /\ y \notin ToSet(s))
       /\ t.place[corpse] = Room
  <2>1. /\ corpse \in Objs /\ Tidy(h, M) /\ drift \in [Chars -> Int] /\ Square(h, drift)
        /\ Listed(s) /\ b = Buried(h, s, corpse, vanishing)
    BY <1>6, <1>7, <1>8, <1>9, <1>10
  <2>2. QED
    BY <2>1, <1>12, <1>13, <1>b, <1>c, GraveTidy, SMTT(60)
<1>d. N = {}
  BY <1>a, <1>c
<1>15. ASSUME NEW y \in Objs, NEW p \in Chars, t.place[y] = p PROVE heap.place[y] = p /\ p # c
  <2>1. y # corpse /\ p \in Places \ Objs
    BY <1>11, <1>14, <1>15
  <2>2. h.place[y] = p /\ y \notin ToSet(s)
    BY <1>14, <1>15, <2>1
  <2>3. heap.place[y] = p
    BY <1>9, <1>10, <2>1, <2>2
  <2>4. QED
    BY <1>8, <2>2, <2>3
<1>16. QED
  BY <1>14, <1>15, <1>d

(* The invariant is kept by a death,                                        *)
LEMMA KillKeeps ==
  ASSUME IInv, NEW c \in Chars, Kill(c)
  PROVE  IInv'
<1>1. /\ CanCreate(heap, 2) /\ obj' = obj /\ obj = 0
      /\ gold' = [gold EXCEPT ![c] = 0] /\ drift' = [drift EXCEPT ![c] = 0]
      /\ here' = IF c \in Players THEN here ELSE here \ {c}
  BY DEF Kill, Quiet, Idle
<1>2. PICK vanishing \in SUBSET ToSet(heap.contents[c]) :
         \E t \in CorpseOf(c, vanishing) : heap' = Emptied(t, c)
  BY DEF Kill
<1>3. PICK t \in CorpseOf(c, vanishing) : heap' = Emptied(t, c)
  BY <1>2
<1>4. /\ Tidy(t, {}) /\ Square(t, drift)
      /\ \A y \in Objs, p \in Chars : t.place[y] = p => heap.place[y] = p /\ p # c
  BY <1>1, CorpseTidy
<1>5. drift \in [Chars -> Int] /\ gold \in [Chars -> Nat] /\ here \subseteq Chars
  BY Facts
<1>6. /\ Tidy(heap', {}) /\ Square(heap', [drift EXCEPT ![c] = 0]) /\ heap'.place = t.place
  <2>1. PICK e : e = [drift EXCEPT ![c] = 0]
    OBVIOUS
  <2>2. PICK g : g = heap'
    OBVIOUS
  <2>3. PICK L : L = {}
    OBVIOUS
  <2>4. \A y \in Objs : t.place[y] # c
    BY <1>4
  <2>5. Emptying(t, drift, c, g, e)
    BY <1>3, <2>1, <2>2, <2>4 DEF Emptying
  <2>6. Tidy(t, L) /\ Square(t, drift)
    BY <1>4, <2>3
  <2>7. Tidy(g, L) /\ Square(g, e) /\ g.place = t.place
    BY <1>5, <2>5, <2>6, EmptiedTidy
  <2>8. QED
    BY <2>1, <2>2, <2>3, <2>7
<1>7. Held(heap', here')
  <2>1. ASSUME NEW y \in Objs, NEW p \in Chars, heap'.place[y] = p PROVE p \in here'
    <3>1. heap.place[y] = p /\ p # c
      BY <1>4, <1>6, <2>1
    <3>2. p \in here
      BY <3>1, Facts DEF Held
    <3>3. QED
      BY <1>1, <3>1, <3>2
  <2>2. QED
    BY <2>1 DEF Held
<1>8. obj' \in 0 .. heap'.made
  <2>1. heap'.made \in Nat
    BY <1>6, HeapFields DEF Tidy
  <2>2. QED
    BY <1>1, <2>1
<1>9. gold' \in [Chars -> Nat] /\ drift' \in [Chars -> Int] /\ here' \subseteq Chars
  BY <1>1, <1>5
<1>10. QED
  BY <1>1, <1>6, <1>7, <1>8, <1>9 DEF IInv

(* by a character that leaves with all it carries,                          *)
LEMMA LeaveKeeps ==
  ASSUME IInv, NEW c \in Chars, Leave(c)
  PROVE  IInv'
<1>a. PICK s : s = heap.contents[c]
  OBVIOUS
<1>b. PICK t : t = ExtractedAll(heap, s)
  OBVIOUS
<1>1. /\ obj' = obj /\ obj = 0 /\ heap' = Emptied(t, c) /\ here' = here \ {c}
      /\ gold' = (IF c \in Players THEN gold ELSE [gold EXCEPT ![c] = 0])
      /\ drift' = [drift EXCEPT ![c] = 0]
  BY <1>a, <1>b DEF Leave, Quiet, Idle
<1>2. s \in Seq(Objs) /\ \A y : y \in ToSet(s) <=> y \in Objs /\ heap.place[y] = c
  <2>1. c \in Places /\ Agrees(heap)
    BY Facts, Apart DEF Tidy, Forest
  <2>2. QED
    BY <1>a, <2>1, Contents
<1>3. /\ Tidy(t, {}) /\ Square(t, drift)
      /\ \A y \in Objs, p \in Places \ Objs : t.place[y] = p <=> heap.place[y] = p /\ y \notin ToSet(s)
  BY <1>2, <1>b, Facts, AllExtracted
<1>4. \A y \in Objs, p \in Chars : t.place[y] = p => heap.place[y] = p /\ p # c
  BY <1>2, <1>3, Apart
<1>5. drift \in [Chars -> Int] /\ gold \in [Chars -> Nat] /\ here \subseteq Chars
  BY Facts
<1>6. /\ Tidy(heap', {}) /\ Square(heap', [drift EXCEPT ![c] = 0]) /\ heap'.place = t.place
  <2>1. \A y \in Objs : t.place[y] # c
    BY <1>4
  <2>2. Tidy(t, {}) /\ Square(t, drift) /\ heap' = Emptied(t, c)
    BY <1>1, <1>3
  <2>3. drift \in [Chars -> Int]
    BY <1>5
  <2>4. PICK e : e = [drift EXCEPT ![c] = 0]
    OBVIOUS
  <2>5. PICK g : g = heap'
    OBVIOUS
  <2>6. g = Emptied(t, c)
    BY <2>2, <2>5
  <2>7. PICK L : L = {}
    OBVIOUS
  <2>8. Tidy(t, L) /\ Square(t, drift)
    BY <2>2, <2>7
  <2>9. Emptying(t, drift, c, g, e)
    BY <2>1, <2>4, <2>6 DEF Emptying
  <2>10. Tidy(g, L) /\ Square(g, e) /\ g.place = t.place
    BY <2>3, <2>8, <2>9, EmptiedTidy
  <2>11. QED
    BY <2>4, <2>5, <2>7, <2>10
<1>7. Held(heap', here')
  <2>1. ASSUME NEW y \in Objs, NEW p \in Chars, heap'.place[y] = p PROVE p \in here'
    <3>1. heap.place[y] = p /\ p # c
      BY <1>4, <1>6, <2>1
    <3>2. p \in here
      BY <3>1, Facts DEF Held
    <3>3. QED
      BY <1>1, <3>1, <3>2
  <2>2. QED
    BY <2>1 DEF Held
<1>8. obj' \in 0 .. heap'.made
  <2>1. heap'.made \in Nat
    BY <1>6, HeapFields DEF Tidy
  <2>2. QED
    BY <1>1, <2>1
<1>9. gold' \in [Chars -> Nat] /\ drift' \in [Chars -> Int] /\ here' \subseteq Chars
  BY <1>1, <1>5
<1>10. QED
  BY <1>1, <1>6, <1>7, <1>8, <1>9 DEF IInv

(* by one that comes back,                                                  *)
LEMMA EnterKeeps ==
  ASSUME IInv, NEW c \in Chars, Enter(c)
  PROVE  IInv'
<1>1. /\ here' = here \cup {c} /\ heap' = heap /\ gold' = gold /\ drift' = drift /\ obj' = obj
  BY DEF Enter, Quiet
<1>2. Held(heap', here')
  BY <1>1, Facts DEF Held
<1>3. here' \subseteq Chars
  BY <1>1, Facts
<1>4. QED
  BY <1>1, <1>2, <1>3, Facts DEF IInv

(* by the start of obj_update,                                              *)
LEMMA ObjUpdateKeeps ==
  ASSUME IInv, ObjUpdate
  PROVE  IInv'
<1>1. /\ heap.object_list # << >> /\ obj' = Head(heap.object_list)
      /\ heap' = heap /\ gold' = gold /\ here' = here /\ drift' = drift
  BY DEF ObjUpdate
<1>2. Head(heap.object_list) \in 1 .. heap.made
  <2>1. Listed(heap.object_list) /\ Live(heap) \subseteq 1 .. heap.made
    BY Facts DEF Tidy
  <2>2. Head(heap.object_list) \in Live(heap)
    BY <1>1, <2>1, TailIs DEF Live
  <2>3. QED
    BY <2>1, <2>2
<1>3. obj' \in 0 .. heap'.made
  BY <1>1, <1>2, Facts
<1>4. QED
  BY <1>1, <1>3, Facts DEF IInv

(* The next of a structure is 0 or a structure that was made.               *)
LEMMA NextOfIs ==
  ASSUME NEW g, NEW L, Tidy(g, L), NEW o \in 1 .. g.made
  PROVE  NextOf(g, o) \in 0 .. g.made
<1> DEFINE s == IF o \in Live(g) THEN g.object_list ELSE g.obj_free
           i == CHOOSE j \in DOMAIN s : s[j] = o
<1>1. /\ s \in Seq(Objs) /\ ToSet(s) \subseteq 1 .. g.made /\ o \in ToSet(s)
      /\ g.made \in Nat
  <2>1. /\ g.object_list \in Seq(Objs) /\ g.obj_free \in Seq(Objs) /\ g.made \in Nat
    BY HeapFields DEF Tidy
  <2>2. Live(g) \cup ToSet(g.obj_free) = 1 .. g.made /\ Live(g) = ToSet(g.object_list)
    BY DEF Tidy, Live
  <2>3. CASE o \in Live(g)
    BY <2>1, <2>2, <2>3
  <2>4. CASE o \notin Live(g)
    <3>1. o \in ToSet(g.obj_free) /\ s = g.obj_free
      BY <2>2, <2>4
    <3>2. QED
      BY <2>1, <2>2, <3>1
  <2>5. QED
    BY <2>3, <2>4
<1>2. NextOf(g, o) = IF i = Len(s) THEN 0 ELSE s[i + 1]
  BY DEF NextOf
<1> HIDE DEF s
<1>3. DOMAIN s = 1 .. Len(s) /\ Len(s) \in Nat /\ \A k \in 1 .. Len(s) : s[k] \in ToSet(s)
  BY <1>1, SeqIs
<1>4. i \in 1 .. Len(s)
  <2>1. \E j \in DOMAIN s : s[j] = o
    BY <1>1, <1>3, SeqIs
  <2>2. QED
    BY <1>3, <2>1
<1> HIDE DEF i
<1>5. CASE i = Len(s)
  BY <1>1, <1>2, <1>5
<1>6. CASE i # Len(s)
  <2>a. Len(s) \in Int /\ i \in Int /\ 1 <= i /\ i <= Len(s)
    BY <1>3, <1>4
  <2>1. i + 1 \in 1 .. Len(s)
    BY <2>a, <1>6
  <2>2. s[i + 1] \in 1 .. g.made
    BY <1>1, <1>3, <2>1
  <2>3. QED
    BY <1>1, <1>2, <1>6, <2>2
<1>7. QED
  BY <1>5, <1>6

(* and by each of its steps.                                                *)
LEMMA UpdateKeeps ==
  ASSUME IInv, Update
  PROVE  IInv'
<1>1. /\ obj # 0 /\ (heap' = heap \/ heap' = Extracted(heap, obj))
      /\ obj' = NextOf(heap, obj) /\ gold' = gold /\ here' = here /\ drift' = drift
  BY DEF Update
<1>2. obj \in 1 .. heap.made /\ obj \in Objs
  <2>1. heap.made \in 0 .. MaxObjs /\ obj \in 0 .. heap.made
    BY Facts, HeapFields
  <2>2. QED
    BY <1>1, <2>1, ObjectsAssumption DEF Objs
<1>3. Tidy(heap', {}) /\ Square(heap', drift) /\ heap'.made = heap.made /\ Held(heap', here)
  <2>1. CASE heap' = heap
    BY <2>1, Facts
  <2>2. CASE heap' = Extracted(heap, obj)
    BY <1>2, <2>2, ExtractingKeeps
  <2>3. QED
    BY <1>1, <2>1, <2>2
<1>4. obj' \in 0 .. heap'.made
  BY <1>1, <1>2, <1>3, Facts, NextOfIs
<1>5. QED
  BY <1>1, <1>3, <1>4, Facts DEF IInv

-----------------------------------------------------------------------------
(* Every action keeps the invariant.                                        *)
LEMMA StepIInv == IInv /\ [Next]_vars => IInv'
<1> SUFFICES ASSUME IInv, [Next]_vars PROVE IInv'
  OBVIOUS
<1>1. CASE UNCHANGED vars
  BY <1>1 DEF vars, IInv
<1>2. CASE \E c \in Chars, o \in Objs :
             \/ Get(c, o) \/ Drop(c, o) \/ Sacrifice(c, o) \/ Preserve(c, o)
             \/ \E x \in Objs : GetFrom(c, o, x) \/ Put(c, o, x)
             \/ \E v \in Chars : Give(c, v, o)
  <2>1. PICK c \in Chars, o \in Objs :
             \/ Get(c, o) \/ Drop(c, o) \/ Sacrifice(c, o) \/ Preserve(c, o)
             \/ \E x \in Objs : GetFrom(c, o, x) \/ Put(c, o, x)
             \/ \E v \in Chars : Give(c, v, o)
    BY <1>2
  <2>2. CASE Get(c, o)
    BY <2>2, GetKeeps
  <2>3. CASE Drop(c, o)
    BY <2>3, DropKeeps
  <2>4. CASE Sacrifice(c, o)
    BY <2>4, SacrificeKeeps
  <2>5. CASE Preserve(c, o)
    BY <2>5, PreserveKeeps
  <2>6. CASE \E x \in Objs : GetFrom(c, o, x)
    BY <2>6, GetFromKeeps
  <2>7. CASE \E x \in Objs : Put(c, o, x)
    BY <2>7, PutKeeps
  <2>8. CASE \E v \in Chars : Give(c, v, o)
    BY <2>8, GiveKeeps
  <2>9. QED
    BY <2>1, <2>2, <2>3, <2>4, <2>5, <2>6, <2>7, <2>8
<1>3. CASE \E c \in Chars :
             \/ \E n \in Amounts : DropCoins(c, n) \/ \E v \in Chars : GiveCoins(c, v, n)
             \/ Kill(c) \/ Leave(c) \/ Enter(c)
  <2>1. PICK c \in Chars :
             \/ \E n \in Amounts : DropCoins(c, n) \/ \E v \in Chars : GiveCoins(c, v, n)
             \/ Kill(c) \/ Leave(c) \/ Enter(c)
    BY <1>3
  <2>2. CASE \E n \in Amounts : DropCoins(c, n)
    BY <2>2, DropCoinsKeeps
  <2>3. CASE \E n \in Amounts, v \in Chars : GiveCoins(c, v, n)
    BY <2>3, GiveCoinsKeeps
  <2>4. CASE Kill(c)
    BY <2>4, KillKeeps
  <2>5. CASE Leave(c)
    BY <2>5, LeaveKeeps
  <2>6. CASE Enter(c)
    BY <2>6, EnterKeeps
  <2>7. QED
    BY <2>1, <2>2, <2>3, <2>4, <2>5, <2>6
<1>4. CASE \E p \in {Room} \cup Chars, k \in {"item", "bag"} : Load(p, k)
  BY <1>4, LoadKeeps
<1>5. CASE ObjUpdate
  BY <1>5, ObjUpdateKeeps
<1>6. CASE Update
  BY <1>6, UpdateKeeps
<1>7. QED
  BY <1>1, <1>2, <1>3, <1>4, <1>5, <1>6 DEF Next

(* The lists and the pointers back agree, everything lies in at most one   *)
(* place, and the sums are right, after every sequence of the commands,    *)
(* deaths and runs of obj_update that Objects models.                      *)
THEOREM Invariant == Spec => []IInv
<1>1. Init => IInv
  BY InitIInv
<1>2. IInv /\ [Next]_vars => IInv'
  BY StepIInv
<1>3. QED
  BY <1>1, <1>2, PTL DEF Spec

-----------------------------------------------------------------------------
(* The fields of an OBJ_DATA and of a character that things touch keep     *)
(* values of the sort they were declared with.                             *)
THEOREM TypeCorrect == Spec => []TypeOK
<1>1. IInv => TypeOK
  <2> SUFFICES ASSUME IInv PROVE TypeOK
    OBVIOUS
  <2>1. heap \in HeapType
    BY Facts DEF Tidy
  <2>2. heap.made \in 0 .. MaxObjs /\ MaxObjs \in Nat
    BY <2>1, HeapFields, ObjectsAssumption
  <2>3. obj \in Objs \cup {0}
    BY <2>2, Facts DEF Objs
  <2>4. QED
    BY <2>1, <2>3, Facts DEF TypeOK
<1>2. QED
  BY <1>1, Invariant, PTL

(* carry_number and carry_weight (obj_to_char, obj_from_char, obj_to_obj,  *)
(* obj_from_obj) are always what a count of the things carried would give, *)
(* but for what Preservation took off.                                     *)
THEOREM SumsAlwaysRight == Spec => []SumsRight
<1>1. IInv => SumsRight
  BY Facts DEF Square, SumsRight
<1>2. QED
  BY <1>1, Invariant, PTL

(* What is inside something in the game is in the game, and what is in the *)
(* game is inside something that lies in the room or is carried.           *)
LEMMA LiveAreHeld ==
  ASSUME NEW g, Tidy(g, {}), NEW present \in SUBSET Chars, Held(g, present)
  PROVE  Live(g) = UNION {ToSet(Doomed(g, o)) : o \in
                             UNION {ToSet(g.contents[p]) : p \in {Room} \cup present}}
<1> DEFINE Tops == UNION {ToSet(g.contents[p]) : p \in {Room} \cup present}
<1>1. /\ Forest(g) /\ Agrees(g) /\ g.place \in [Objs -> Places \cup {NULL}]
      /\ Live(g) \subseteq Objs
      /\ \A y \in Objs : y \in Live(g) <=> g.place[y] # NULL
      /\ \A y \in Objs : g.place[y] \in Objs => g.place[y] \in Live(g)
  <2>1. Forest(g) /\ g.place \in [Objs -> Places \cup {NULL}]
    BY HeapFields DEF Tidy
  <2>2. Live(g) \subseteq Objs
    BY LiveIs
  <2>3. QED
    BY <2>1, <2>2 DEF Tidy, Forest
<1>2. \A y : y \in Tops <=> y \in Objs /\ g.place[y] \in {Room} \cup present
  <2>1. \A p \in {Room} \cup present : p \in Places
    BY Apart
  <2>2. \A p \in {Room} \cup present : \A y : y \in ToSet(g.contents[p]) <=> y \in Objs /\ g.place[y] = p
    BY <1>1, <2>1, Contents
  <2>3. \A y : y \in Tops <=> \E p \in {Room} \cup present : y \in ToSet(g.contents[p])
    OBVIOUS
  <2>4. QED
    BY <2>2, <2>3
<1> HIDE DEF Tops
<1>3. ASSUME NEW y \in Live(g) PROVE \E o \in Tops : y \in Under(g, o)
  <2>1. PICK r \in Objs : y \in Under(g, r) /\ g.place[r] \notin Objs
    BY <1>1, <1>3, Outermost
  <2>2. r \in Live(g)
    <3>1. CASE y = r
      BY <1>3, <3>1
    <3>2. CASE y # r
      <4>1. PICK z \in Objs : g.place[z] = r
        BY <1>1, <2>1, <3>2, UnderIs
      <4>2. QED
        BY <1>1, <4>1
    <3>3. QED
      BY <3>1, <3>2
  <2>3. g.place[r] \in {Room} \cup Chars
    BY <1>1, <2>1, <2>2 DEF Places
  <2>4. g.place[r] \in {Room} \cup present
    BY <2>3 DEF Held
  <2>5. QED
    BY <1>2, <2>1, <2>4
<1>4. ASSUME NEW o \in Tops, NEW y \in Under(g, o) PROVE y \in Live(g)
  <2>1. o \in Objs /\ o \in Live(g)
    BY <1>1, <1>2, Apart
  <2>2. CASE y = o
    BY <2>1, <2>2
  <2>3. CASE y # o
    <3>1. y \in Objs /\ g.place[y] \in Under(g, o) /\ Under(g, o) \subseteq Objs
      BY <1>1, <2>1, <2>3, UnderUp, UnderIs
    <3>2. QED
      BY <1>1, <3>1, Apart
  <2>4. QED
    BY <2>2, <2>3
<1>5. \A y : y \in Live(g) <=> \E o \in Tops : y \in ToSet(Doomed(g, o))
  BY <1>3, <1>4 DEF Under
<1>6. QED
  BY <1>5 DEF Tops

(* Everything that exists is in one place, and the list of that place and  *)
(* nobody else's says so (obj_to_room, obj_to_char, obj_to_obj and their   *)
(* from_s); object_list and obj_free share nothing and hold everything     *)
(* ever allocated (create_object, extract_obj); nothing extracted can be   *)
(* reached from the room or from anyone in the game.                       *)
THEOREM EverythingInItsPlace == Spec => []EachInItsPlace
<1>1. IInv => EachInItsPlace
  <2> SUFFICES ASSUME IInv PROVE EachInItsPlace
    OBVIOUS
  <2>1. Tidy(heap, {}) /\ here \subseteq Chars /\ Held(heap, here) /\ Agrees(heap)
    BY Facts DEF Tidy, Forest
  <2>2. /\ \A p \in Places : IsInjective(heap.contents[p])
        /\ \A p \in Places, o \in Objs : Contains(heap.contents[p], o) <=> heap.place[o] = p
    <3>1. \A p \in Places : /\ heap.contents[p] \in Seq(Objs) /\ IsInjective(heap.contents[p])
                            /\ \A y : y \in ToSet(heap.contents[p]) <=> y \in Objs /\ heap.place[y] = p
      BY <2>1, Contents
    <3>2. \A p \in Places : \A x : Contains(heap.contents[p], x) <=> x \in ToSet(heap.contents[p])
      BY <3>1, SeqIs
    <3>3. QED
      BY <3>1, <3>2
  <2>3. IsInjective(heap.object_list \o heap.obj_free)
    BY <2>1, Concat DEF Tidy, Listed, Live
  <2>4. Live(heap) \cup ToSet(heap.obj_free) = 1 .. heap.made
    BY <2>1 DEF Tidy
  <2>5. ASSUME NEW p \in {Room} \cup here, NEW o \in ToSet(heap.contents[p]) PROVE o \in Live(heap)
    <3>1. p \in Places /\ p # NULL
      BY <2>1, Apart
    <3>2. o \in Objs /\ heap.place[o] = p
      BY <2>1, <3>1, Contents
    <3>3. QED
      BY <2>1, <3>1, <3>2, LiveIs
  <2>6. Live(heap) = UNION {ToSet(Doomed(heap, o)) : o \in
                              UNION {ToSet(heap.contents[p]) : p \in {Room} \cup here}}
    BY <2>1, LiveAreHeld
  <2>7. QED
    BY <2>2, <2>3, <2>4, <2>5, <2>6 DEF EachInItsPlace
<1>2. QED
  BY <1>1, Invariant, PTL
-----------------------------------------------------------------------------
(* Sums over finite sets.  What holds of the empty set, and of any subset  *)
(* of S if it holds of the subset without the element that CHOOSE takes,   *)
(* holds of S.                                                             *)
AnyOf(s) == CHOOSE x \in s : TRUE

(* The element chosen is one of the set, and leaves a smaller set.         *)
LEMMA AnyOfIs ==
  ASSUME NEW S, IsFiniteSet(S), NEW s \in SUBSET S, s # {}
  PROVE  /\ AnyOf(s) \in s /\ s \ {AnyOf(s)} \in SUBSET S
         /\ IsFiniteSet(s) /\ Cardinality(s) \in Nat /\ Cardinality(s) # 0
         /\ Cardinality(s \ {AnyOf(s)}) = Cardinality(s) - 1
<1>1. AnyOf(s) \in s
  BY DEF AnyOf
<1>2. IsFiniteSet(s)
  BY FS_Subset
<1>3. Cardinality(s) \in Nat
  BY <1>2, FS_CardinalityType
<1>4. Cardinality(s) # 0
  BY <1>1, <1>2, FS_EmptySet
<1>5. Cardinality(s \ {AnyOf(s)}) = Cardinality(s) - 1
  BY <1>1, <1>2, FS_RemoveElement
<1>6. QED
  BY <1>1, <1>2, <1>3, <1>4, <1>5

(* Induction over the subsets of a finite set.                              *)
LEMMA ElementByElement ==
  ASSUME NEW S, IsFiniteSet(S), NEW G, {} \in G,
         \A s \in SUBSET S : s # {} /\ s \ {AnyOf(s)} \in G => s \in G
  PROVE  S \in G
<1> DEFINE n == Cardinality(S)
           H == {k \in 0 .. n : \A s \in SUBSET S : Cardinality(s) = k => s \in G}
<1>1. n \in Nat
  BY FS_CardinalityType
<1>2. \A s \in SUBSET S : Cardinality(s) = 0 => s = {}
  BY AnyOfIs
<1>3. 0 \in H
  <2>1. \A s \in SUBSET S : Cardinality(s) = 0 => s \in G
    BY <1>2
  <2>2. 0 \in 0 .. n
    BY <1>1
  <2> HIDE DEF n
  <2>3. QED
    BY <2>1, <2>2
<1>4. ASSUME NEW k \in 1 .. n, k - 1 \in H PROVE k \in H
  <2>1. ASSUME NEW s \in SUBSET S, Cardinality(s) = k PROVE s \in G
    <3>1. s # {}
      BY <1>1, <2>1, FS_EmptySet
    <3>2. s \ {AnyOf(s)} \in SUBSET S /\ Cardinality(s \ {AnyOf(s)}) = k - 1
      BY <2>1, <3>1, AnyOfIs
    <3>3. s \ {AnyOf(s)} \in G
      BY <1>4, <3>2
    <3>4. QED
      BY <3>1, <3>3
  <2>2. QED
    BY <1>1, <2>1
<1> HIDE DEF H
<1>5. \A k \in 0 .. n : k \in H
  BY <1>1, <1>3, <1>4, Upward
<1>6. n \in H
  BY <1>1, <1>5
<1>7. QED
  BY <1>6 DEF H

(* it is the function that MapThenSumSet defines, of f over S.              *)
Adding(f, S, it) ==
  \A s \in SUBSET S : it[s] = IF s = {} THEN 0 ELSE f[AnyOf(s)] + it[s \ {AnyOf(s)}]

SumsUp(f, S, it) ==
  it = [s \in SUBSET S |-> IF s = {} THEN 0 ELSE f[AnyOf(s)] + it[s \ {AnyOf(s)}]]

(* There is such a function.                                               *)
LEMMA SumExists ==
  ASSUME NEW S, IsFiniteSet(S), NEW f
  PROVE  \E it : SumsUp(f, S, it)
<1> DEFINE n == Cardinality(S)
           P(k) == {s \in SUBSET S : Cardinality(s) <= k}
           Partial(k, it) == it = [s \in P(k) |-> IF s = {} THEN 0
                                                  ELSE f[AnyOf(s)] + it[s \ {AnyOf(s)}]]
           H == {k \in 0 .. n : \E it : Partial(k, it)}
<1>1. n \in Nat
  BY FS_CardinalityType
<1>2. \A s \in SUBSET S : /\ Cardinality(s) \in Nat /\ Cardinality(s) <= n
                          /\ s # {} => /\ Cardinality(s) # 0 /\ s \ {AnyOf(s)} \in SUBSET S
                                       /\ Cardinality(s \ {AnyOf(s)}) = Cardinality(s) - 1
  <2> TAKE s \in SUBSET S
  <2>1. IsFiniteSet(s) /\ Cardinality(s) <= n
    BY FS_Subset
  <2>2. Cardinality(s) \in Nat
    BY <2>1, FS_CardinalityType
  <2>3. s # {} => /\ Cardinality(s) # 0 /\ s \ {AnyOf(s)} \in SUBSET S
                  /\ Cardinality(s \ {AnyOf(s)}) = Cardinality(s) - 1
    BY AnyOfIs
  <2>4. QED
    BY <2>1, <2>2, <2>3
<1>3. 0 \in H
  <2>1. ASSUME NEW s \in P(0) PROVE s = {}
    <3>1. s \in SUBSET S /\ Cardinality(s) <= 0
      OBVIOUS
    <3>2. Cardinality(s) \in Nat
      BY <1>2, <3>1
    <3>a. Cardinality(s) = 0
      BY <3>1, <3>2
    <3>3. QED
      BY <1>2, <3>1, <3>a
  <2> DEFINE it == [s \in P(0) |-> 0]
  <2>2. Partial(0, it)
    BY <2>1
  <2>3. 0 \in 0 .. n
    BY <1>1
  <2>4. QED
    BY <2>2, <2>3
<1>4. ASSUME NEW k \in 1 .. n, k - 1 \in H PROVE k \in H
  <2>1. PICK it : Partial(k - 1, it)
    BY <1>4
  <2> DEFINE jt == [s \in P(k) |-> IF s = {} THEN 0 ELSE f[AnyOf(s)] + it[s \ {AnyOf(s)}]]
  <2>2. k \in Nat /\ k - 1 \in Nat /\ k \in 0 .. n
    BY <1>1
  <2>3. P(k - 1) \subseteq P(k) /\ \A s \in P(k) : s # {} => s \ {AnyOf(s)} \in P(k - 1)
    <3>1. ASSUME NEW s \in P(k - 1) PROVE s \in P(k)
      <4>1. s \in SUBSET S /\ Cardinality(s) \in Nat /\ Cardinality(s) <= k - 1
        BY <1>2
      <4>2. Cardinality(s) <= k
        BY <2>2, <4>1
      <4>3. QED
        BY <4>1, <4>2
    <3>2. ASSUME NEW s \in P(k), s # {} PROVE s \ {AnyOf(s)} \in P(k - 1)
      <4> DEFINE r == s \ {AnyOf(s)}
      <4>1. s \in SUBSET S /\ Cardinality(s) <= k
        OBVIOUS
      <4>2. Cardinality(s) \in Nat /\ r \in SUBSET S /\ Cardinality(r) = Cardinality(s) - 1
        BY <1>2, <3>2, <4>1
      <4> HIDE DEF r
      <4>3. Cardinality(r) <= k - 1
        BY <2>2, <4>1, <4>2
      <4>4. r \in P(k - 1)
        BY <4>2, <4>3
      <4>5. QED
        BY <4>4 DEF r
    <3>3. QED
      BY <3>1, <3>2
  <2> HIDE DEF P
  <2>4. \A s \in P(k - 1) : it[s] = IF s = {} THEN 0 ELSE f[AnyOf(s)] + it[s \ {AnyOf(s)}]
    BY <2>1
  <2>5. \A s \in P(k) : jt[s] = IF s = {} THEN 0 ELSE f[AnyOf(s)] + it[s \ {AnyOf(s)}]
    OBVIOUS
  <2>6. \A s \in P(k - 1) : jt[s] = it[s]
    BY <2>3, <2>4, <2>5
  <2>7. \A s \in P(k) : jt[s] = IF s = {} THEN 0 ELSE f[AnyOf(s)] + jt[s \ {AnyOf(s)}]
    BY <2>3, <2>5, <2>6
  <2>8. jt = [s \in P(k) |-> jt[s]]
    OBVIOUS
  <2> HIDE DEF jt
  <2>9. Partial(k, jt)
    BY <2>7, <2>8
  <2>10. QED
    BY <2>2, <2>9
<1>5. n \in 0 .. n
  BY <1>1
<1> HIDE DEF H
<1>6. \A k \in 0 .. n : k \in H
  BY <1>1, <1>3, <1>4, Upward
<1>7. n \in H
  BY <1>5, <1>6
<1>8. PICK it : Partial(n, it)
  BY <1>7 DEF H
<1>9. P(n) = SUBSET S
  BY <1>2
<1>10. SumsUp(f, S, it)
  BY <1>8, <1>9 DEF SumsUp
<1>11. QED
  BY <1>10

(* What MapThenSumSet gives.                                                *)
SumOver(f, S) == MapThenSumSet(LAMBDA c : f[c], S)

(* Nothing sums to zero, and an element taken out takes its value out of   *)
(* the sum.                                                                *)
LEMMA SumIs ==
  ASSUME NEW S, IsFiniteSet(S), NEW f
  PROVE  \E it : Adding(f, S, it) /\ SumOver(f, S) = it[S]
<1> DEFINE it == CHOOSE i : SumsUp(f, S, i)
<1>1. SumOver(f, S) = it[S]
  BY DEF SumOver, MapThenSumSet, MapThenFoldSet, SumsUp, AnyOf
<1>2. SumsUp(f, S, it)
  BY SumExists
<1> HIDE DEF it
<1>3. Adding(f, S, it)
  BY <1>2 DEF SumsUp, Adding
<1>4. QED
  BY <1>1, <1>3

(* The same for the sum of what is left of each after taking off d.         *)
SumOfLess(v, d, S) == MapThenSumSet(LAMBDA c : v[c] - d, S)

(* The same two facts of it.                                               *)
LEMMA SumLessIs ==
  ASSUME NEW S, IsFiniteSet(S), NEW v, NEW d, NEW f, \A x \in S : f[x] = v[x] - d
  PROVE  \E it : Adding(f, S, it) /\ SumOfLess(v, d, S) = it[S]
<1> DEFINE Q(i) == i = [s \in SUBSET S |-> IF s = {} THEN 0
                                           ELSE (v[AnyOf(s)] - d) + i[s \ {AnyOf(s)}]]
           it == CHOOSE i : Q(i)
<1>1. SumOfLess(v, d, S) = it[S]
  BY DEF SumOfLess, MapThenSumSet, MapThenFoldSet, AnyOf
<1>2. PICK j : SumsUp(f, S, j)
  BY SumExists
<1>3. \A s \in SUBSET S : s # {} => f[AnyOf(s)] = v[AnyOf(s)] - d
  BY AnyOfIs
<1>4. Q(j)
  BY <1>2, <1>3 DEF SumsUp
<1>5. Q(it)
  BY <1>4
<1> HIDE DEF it
<1>6. Adding(f, S, it)
  BY <1>3, <1>5 DEF Adding
<1>7. QED
  BY <1>1, <1>6

(* Over structures it is Total.                                             *)
LEMMA SumIsTotal ==
  ASSUME NEW f \in [Objs -> Int], NEW S \in SUBSET Objs, NEW it, Adding(f, S, it)
  PROVE  it[S] = Total(f, S)
<1> DEFINE G == {s \in SUBSET S : it[s] = Total(f, s)}
<1>0. IsFiniteSet(S)
  BY Apart, FS_Subset
<1>1. {} \in G
  <2>1. it[{}] = 0
    BY DEF Adding
  <2>2. QED
    BY <2>1, TotalNone
<1>2. ASSUME NEW s \in SUBSET S, s # {}, s \ {AnyOf(s)} \in G PROVE s \in G
  <2>1. PICK x : x = AnyOf(s)
    OBVIOUS
  <2>2. PICK r : r = s \ {x}
    OBVIOUS
  <2>3. PICK o : o = {x}
    OBVIOUS
  <2>4. x \in s /\ x \in Objs
    BY <1>0, <1>2, <2>1, AnyOfIs
  <2>5. it[s] = f[x] + it[r] /\ it[r] = Total(f, r)
    BY <1>2, <2>1, <2>2 DEF Adding
  <2>6. s = o \cup r /\ o \cap r = {}
    BY <2>2, <2>3, <2>4
  <2>7. Total(f, s) = Total(f, o) + Total(f, r)
    BY <2>6, TotalBoth
  <2>8. Total(f, o) = f[x]
    BY <2>3, <2>4, TotalOne
  <2>9. QED
    BY <2>5, <2>7, <2>8
<1> HIDE DEF G
<1>3. S \in G
  BY <1>0, <1>1, <1>2, ElementByElement
<1>4. QED
  BY <1>3 DEF G

(* What the purses of all characters hold together.                        *)
Purses(g) == SumOver(g, Chars)

(* The purses hold the sum of the gold in each.                            *)
LEMMA PursesIs ==
  ASSUME NEW g
  PROVE  \E it : Adding(g, Chars, it) /\ Purses(g) = it[Chars]
<1>1. IsFiniteSet(Chars)
  BY ObjectsAssumption
<1>2. QED
  BY <1>1, SumIs DEF Purses

(* The sum follows a change of one purse.                                   *)
LEMMA PursesChange ==
  ASSUME NEW g \in [Chars -> Int], NEW c \in Chars, NEW n \in Int, NEW f, f = [g EXCEPT ![c] = n]
  PROVE  Purses(g) \in Int /\ Purses(f) = Purses(g) + n - g[c]
<1>1. PICK it : Adding(g, Chars, it) /\ Purses(g) = it[Chars]
  BY PursesIs
<1>2. PICK jt : Adding(f, Chars, jt) /\ Purses(f) = jt[Chars]
  BY PursesIs
<1> DEFINE more(s) == IF c \in s THEN n - g[c] ELSE 0
           G == {s \in SUBSET Chars : it[s] \in Int /\ jt[s] = it[s] + more(s)}
<1>0. IsFiniteSet(Chars)
  BY ObjectsAssumption
<1>3. {} \in G
  <2>1. it[{}] = 0 /\ jt[{}] = 0
    BY <1>1, <1>2 DEF Adding
  <2>2. more({}) = 0
    OBVIOUS
  <2> HIDE DEF more
  <2>3. QED
    BY <2>1, <2>2
<1>4. ASSUME NEW s \in SUBSET Chars, s # {}, s \ {AnyOf(s)} \in G PROVE s \in G
  <2>1. PICK x : x = AnyOf(s)
    OBVIOUS
  <2>2. PICK r : r = s \ {x}
    OBVIOUS
  <2>3. x \in s /\ x \in Chars
    BY <1>0, <1>4, <2>1, AnyOfIs
  <2>4. it[s] = g[x] + it[r] /\ jt[s] = f[x] + jt[r]
    BY <1>1, <1>2, <1>4, <2>1, <2>2 DEF Adding
  <2>5. it[r] \in Int /\ jt[r] = it[r] + more(r) /\ more(r) \in Int /\ more(s) \in Int
    BY <1>4, <2>1, <2>2
  <2>6. g[x] \in Int /\ f[x] = IF x = c THEN n ELSE g[x]
    BY <2>3
  <2>7. x = c => more(r) = 0 /\ more(s) = n - g[x]
    BY <2>2, <2>3
  <2>8. x # c => more(r) = more(s)
    BY <2>2
  <2> HIDE DEF more
  <2>9. it[s] \in Int /\ jt[s] = it[s] + more(s)
    BY <2>4, <2>5, <2>6, <2>7, <2>8
  <2>10. QED
    BY <2>9
<1> HIDE DEF G
<1>5. Chars \in G
  BY <1>0, <1>3, <1>4, ElementByElement
<1>6. QED
  BY <1>1, <1>2, <1>5 DEF G

(* The value of everything in the game.                                     *)
Goods(h) == Total(h.value, Live(h))

(* Worth, the specification's sum, is purses and goods.                    *)
LEMMA WorthIs ==
  ASSUME NEW h \in HeapType, NEW g
  PROVE  Worth(h, g) = Purses(g) + Goods(h) /\ Goods(h) \in Nat /\ Live(h) \in SUBSET Objs
<1>1. Worth(h, g) = Purses(g) + SumOver(h.value, Live(h))
  BY DEF Worth, Purses, SumOver, MapThenSumSet, MapThenFoldSet
<1>2. Live(h) \in SUBSET Objs /\ h.value \in [Objs -> Nat]
  BY HeapFields, SeqIs DEF Live
<1>3. IsFiniteSet(Live(h))
  BY <1>2, Apart, FS_Subset
<1>4. PICK it : Adding(h.value, Live(h), it) /\ SumOver(h.value, Live(h)) = it[Live(h)]
  BY <1>3, SumIs
<1>5. it[Live(h)] = Total(h.value, Live(h))
  BY <1>2, <1>4, SumIsTotal
<1>6. QED
  BY <1>1, <1>2, <1>4, <1>5, TotalNat DEF Goods

(* Minted, as a total.                                                      *)
Coins(g, t) == {o \in Live(t) \ Live(g) : t.kind[o] = "coin"}
Gain(t) == [o \in Objs |-> t.value[o] - 1]

(* What a step mints is the price of its new single coins, less one each.  *)
LEMMA MintedIs ==
  ASSUME heap' \in HeapType
  PROVE  Minted = Total(Gain(heap'), Coins(heap, heap'))
<1>1. PICK S : S = Coins(heap, heap')
  OBVIOUS
<1>2. Minted = SumOfLess(heap'.value, 1, S)
  BY <1>1 DEF Minted, Coins, SumOfLess, MapThenSumSet, MapThenFoldSet
<1>3. heap'.value \in [Objs -> Nat] /\ S \in SUBSET Objs
  BY <1>1, HeapFields, SeqIs DEF Live, Coins
<1>4. PICK f : f = Gain(heap')
  OBVIOUS
<1>5. f \in [Objs -> Int] /\ \A x \in S : f[x] = heap'.value[x] - 1
  BY <1>3, <1>4 DEF Gain
<1>6. IsFiniteSet(S)
  BY <1>3, Apart, FS_Subset
<1>7. PICK it : Adding(f, S, it) /\ SumOfLess(heap'.value, 1, S) = it[S]
  BY <1>5, <1>6, SumLessIs
<1>8. it[S] = Total(f, S)
  BY <1>3, <1>5, <1>7, SumIsTotal
<1>9. QED
  BY <1>1, <1>2, <1>4, <1>7, <1>8

-----------------------------------------------------------------------------
(* Gold.  Money that lies about is worth something: the part of the        *)
(* invariant that says that adding a coin to a heap is never the making of *)
(* a single coin.                                                          *)
Priced(g) == \A o \in Live(g) : g.kind[o] \in {"coin", "coins"} => g.value[o] >= 1

(* One new thing of kind k and value v.                                     *)
Adds(g, t, x, k, v) ==
  /\ x \in Objs /\ x \notin Live(g) /\ Live(t) = Live(g) \cup {x}
  /\ t.kind[x] = k /\ t.value[x] = v
  /\ \A y \in Objs : y # x => t.kind[y] = g.kind[y] /\ t.value[y] = g.value[y]

(* What a pruned heap is worth, when the things in S are gone.              *)
LEMMA PrunedGoods ==
  ASSUME NEW g \in HeapType, NEW t \in HeapType, Pruned(g, t), NEW S \in SUBSET Live(g),
         S \cap Live(t) = {}
  PROVE  /\ Goods(t) \in Nat /\ Goods(g) \in Nat /\ Total(g.value, S) \in Nat
         /\ Goods(t) + Total(g.value, S) <= Goods(g)
<1>1. g.value \in [Objs -> Nat] /\ g.value \in [Objs -> Int] /\ t.value = g.value
  BY HeapFields DEF Pruned
<1>2. PICK R : R = S \cup Live(t)
  OBVIOUS
<1>3. PICK Q : Q = Live(g) \ R
  OBVIOUS
<1>4. Live(g) = R \cup Q /\ R \cap Q = {}
  BY <1>2, <1>3 DEF Pruned
<1>5. Total(g.value, Live(g)) = Total(g.value, R) + Total(g.value, Q)
  BY <1>1, <1>4, TotalBoth
<1>6. Total(g.value, R) = Total(g.value, S) + Total(g.value, Live(t))
  BY <1>1, <1>2, TotalBoth
<1>7. /\ Total(g.value, S) \in Nat /\ Total(g.value, Q) \in Nat
      /\ Total(g.value, Live(t)) \in Nat /\ Total(g.value, R) \in Nat
      /\ Total(g.value, Live(g)) \in Nat
  BY <1>1, TotalNat
<1>8. QED
  BY <1>1, <1>5, <1>6, <1>7 DEF Goods

(* A smaller sum of smaller values.                                         *)
LEMMA TotalAtMost ==
  ASSUME NEW w \in [Objs -> Nat], NEW v \in [Objs -> Nat], NEW S, \A o \in S \cap Objs : w[o] <= v[o]
  PROVE  Total(w, S) <= Total(v, S)
<1> DEFINE u == [o \in Objs |-> IF o \in S THEN v[o] - w[o] ELSE 0]
<1>1. u \in [Objs -> Nat]
  <2>1. ASSUME NEW o \in Objs PROVE (IF o \in S THEN v[o] - w[o] ELSE 0) \in Nat
    <3>1. w[o] \in Nat /\ v[o] \in Nat /\ (o \in S => w[o] <= v[o])
      OBVIOUS
    <3>2. QED
      BY <3>1
  <2>2. QED
    BY <2>1
<1>2. w \in [Objs -> Int] /\ v \in [Objs -> Int] /\ u \in [Objs -> Int] /\ Objs = 1 .. MaxObjs
  BY <1>1 DEF Objs
<1>3. ASSUME NEW n \in 1 .. MaxObjs PROVE Term(v, S, n) = Term(w, S, n) + Term(u, S, n)
  <2>1. n \in Objs /\ w[n] \in Int /\ v[n] \in Int
    BY <1>2
  <2>2. n \in S => u[n] = v[n] - w[n]
    BY <2>1
  <2> HIDE DEF u
  <2>3. QED
    BY <2>1, <2>2 DEF Term
<1> HIDE DEF u
<1>4. Splits(v, S, w, S, u, S)
  BY <1>2, <1>3 DEF Splits
<1>5. /\ Total(v, S) = Total(w, S) + Total(u, S)
      /\ Total(w, S) \in Int /\ Total(v, S) \in Int
  BY <1>4, TotalAdds
<1>6. Total(u, S) \in Nat
  BY <1>1, TotalNat
<1>7. QED
  BY <1>5, <1>6

(* A new thing adds its value.                                              *)
LEMMA AddsGoods ==
  ASSUME NEW g \in HeapType, NEW t \in HeapType, NEW x, NEW k, NEW v, Adds(g, t, x, k, v)
  PROVE  Goods(t) = Goods(g) + v /\ v \in Nat /\ Goods(g) \in Nat /\ Goods(t) \in Nat
<1>1. g.value \in [Objs -> Nat] /\ t.value \in [Objs -> Nat]
      /\ g.value \in [Objs -> Int] /\ t.value \in [Objs -> Int]
  BY HeapFields
<1>2. PICK X : X = {x}
  OBVIOUS
<1>3. x \in Objs /\ t.value[x] = v /\ Live(t) = Live(g) \cup X /\ Live(g) \cap X = {}
      /\ \A y \in Live(g) : y \in Objs /\ t.value[y] = g.value[y]
  BY <1>2, WorthIs DEF Adds
<1>4. Total(t.value, Live(t)) = Total(t.value, Live(g)) + Total(t.value, X)
  BY <1>1, <1>3, TotalBoth
<1>5. Total(t.value, X) = v
  BY <1>1, <1>2, <1>3, TotalOne
<1>6. Total(t.value, Live(g)) = Total(g.value, Live(g))
  BY <1>1, <1>3, TotalSame
<1>7. Total(g.value, Live(g)) \in Nat /\ v \in Nat
  BY <1>1, <1>3, TotalNat
<1>8. QED
  BY <1>4, <1>5, <1>6, <1>7 DEF Goods

(* Money stays priced when things go, and when one comes that is priced.    *)
LEMMA StaysPriced ==
  ASSUME NEW g \in HeapType, NEW t, Priced(g)
  PROVE  /\ Pruned(g, t) => Priced(t)
         /\ \A x, k, v : Adds(g, t, x, k, v) /\ (k \in {"coin", "coins"} => v >= 1) => Priced(t)
<1>1. Live(g) \subseteq Objs
  BY WorthIs
<1>2. Pruned(g, t) => Priced(t)
  BY DEF Pruned, Priced
<1>3. ASSUME NEW x, NEW k, NEW v, Adds(g, t, x, k, v), k \in {"coin", "coins"} => v >= 1
      PROVE  Priced(t)
  <2>1. ASSUME NEW o \in Live(t), t.kind[o] \in {"coin", "coins"} PROVE t.value[o] >= 1
    <3>1. CASE o = x
      BY <1>3, <2>1, <3>1 DEF Adds
    <3>2. CASE o # x
      <4>1. o \in Live(g) /\ o \in Objs
        BY <1>1, <1>3, <3>2 DEF Adds
      <4>2. t.kind[o] = g.kind[o] /\ t.value[o] = g.value[o]
        BY <1>3, <3>2, <4>1 DEF Adds
      <4>3. QED
        BY <2>1, <4>1, <4>2 DEF Priced
    <3>3. QED
      BY <3>1, <3>2
  <2>2. QED
    BY <2>1 DEF Priced
<1>4. QED
  BY <1>2, <1>3

(* create_object adds one thing.                                            *)
LEMMA CreatedAdds ==
  ASSUME NEW g, NEW L, Tidy(g, L), NEW d \in [Chars -> Int], Square(g, d),
         NEW n \in Nat \ {0}, CanCreate(g, n),
         NEW k \in Kinds, NEW v \in Nat, NEW o, o = Fresh(g), NEW t, t = Created(g, k, v)
  PROVE  Adds(g, t, o, k, v) /\ t \in HeapType
<1>1. Makes(g, t, o, k, v) /\ t \in HeapType
  BY CreatedIs
<1>2. /\ Tidy(t, L \cup {o}) /\ Square(t, d)
      /\ o \in Objs /\ o \notin Live(g) /\ Live(t) = Live(g) \cup {o}
  BY CreatedTidy, SMTT(60)
<1>3. g.kind \in [Objs -> Kinds] /\ g.value \in [Objs -> Nat]
  BY HeapFields DEF Tidy
<1>4. QED
  BY <1>1, <1>2, <1>3 DEF Makes, Adds

(* Putting it somewhere makes no difference to that.                        *)
LEMMA PlacedAdds ==
  ASSUME NEW g, NEW m, NEW t, NEW x, NEW k, NEW v, Adds(g, m, x, k, v), SameThings(t, m)
  PROVE  Adds(g, t, x, k, v)
  BY DEF Adds, SameThings, Live

(* create_money adds one thing, a coin of its own price or a heap.          *)
MoneyMade(k, v, amount) ==
  IF amount = 1 THEN k = "coin" /\ v \in 9 .. 11 ELSE k = "coins" /\ v = amount

LEMMA MoneyAdds ==
  ASSUME NEW g, NEW L, Tidy(g, L), NEW d \in [Chars -> Int], Square(g, d),
         NEW n \in Nat \ {0}, CanCreate(g, n), NEW amount \in Nat,
         NEW p \in Places, p \in Objs => p \in Live(g), NEW t \in MoneyIn(g, amount, p)
  PROVE  \E x \in Objs, k \in Kinds, v \in Nat : Adds(g, t, x, k, v) /\ MoneyMade(k, v, amount)
<1>1. PICK o : o = Fresh(g)
  OBVIOUS
<1>2. PICK m \in IF amount = 1 THEN {Created(g, "coin", v) : v \in CoinCost}
                 ELSE {Created(g, "coins", amount)} : t = To(m, o, p)
  BY <1>1 DEF MoneyIn
<1>3. \E k \in Kinds, v \in Nat : m = Created(g, k, v) /\ MoneyMade(k, v, amount)
  <2>1. CoinCost \subseteq 9 .. 11 /\ "coin" \in Kinds /\ "coins" \in Kinds
    BY ObjectsAssumption DEF Kinds
  <2>2. CASE amount = 1
    <3>1. PICK v \in CoinCost : m = Created(g, "coin", v)
      BY <1>2, <2>2
    <3>2. v \in Nat /\ v \in 9 .. 11
      BY <2>1
    <3>3. MoneyMade("coin", v, amount)
      BY <2>2, <3>2 DEF MoneyMade
    <3>4. QED
      BY <2>1, <3>1, <3>2, <3>3
  <2>3. CASE amount # 1
    <3>1. m = Created(g, "coins", amount)
      BY <1>2, <2>3
    <3>2. MoneyMade("coins", amount, amount)
      BY <2>3 DEF MoneyMade
    <3>3. QED
      BY <2>1, <3>1, <3>2
  <2>4. QED
    BY <2>2, <2>3
<1>4. PICK k \in Kinds, v \in Nat : m = Created(g, k, v) /\ MoneyMade(k, v, amount)
  BY <1>3
<1>5. Adds(g, m, o, k, v)
  BY <1>1, <1>4, CreatedAdds
<1>6. /\ Tidy(m, L \cup {o}) /\ Square(m, d)
      /\ o \in Objs /\ o \notin Live(g) /\ Under(m, o) = {o}
      /\ g.place[o] = NULL /\ m.place = g.place
  BY <1>1, <1>4, CreatedTidy
<1>7. m \in HeapType /\ Forest(m) /\ m.place[o] = NULL /\ p \notin Under(m, o)
  BY <1>6 DEF Tidy
<1>8. PutInto(m, o, p, t)
  BY <1>2, <1>6, <1>7, ToIs
<1>9. Adds(g, t, o, k, v)
  BY <1>5, <1>8, PlacedAdds DEF PutInto
<1>10. QED
  BY <1>4, <1>6, <1>9

-----------------------------------------------------------------------------
(* The account of one step.                                                 *)
Balanced == Worth(heap', gold') <= Worth(heap, gold) + Minted

(* A step that makes nothing may move gold between purses, or from things   *)
(* into purses.                                                             *)
LEMMA NothingMade ==
  ASSUME heap \in HeapType, heap' \in HeapType, Pruned(heap, heap'), Priced(heap),
         Purses(gold') + Goods(heap') <= Purses(gold) + Goods(heap),
         Purses(gold) \in Int
  PROVE  Balanced /\ Priced(heap')
<1>1. Priced(heap')
  BY StaysPriced
<1>2. PICK S : S = Coins(heap, heap')
  OBVIOUS
<1>3. S = {}
  BY <1>2 DEF Coins, Pruned
<1>4. PICK f : f = Gain(heap')
  OBVIOUS
<1>5. f \in [Objs -> Int]
  <2>1. heap'.value \in [Objs -> Nat]
    BY HeapFields
  <2>2. QED
    BY <1>4, <2>1 DEF Gain
<1>6. Minted = 0
  BY <1>2, <1>3, <1>4, <1>5, MintedIs, TotalNone
<1>7. Worth(heap', gold') = Purses(gold') + Goods(heap')
  BY WorthIs
<1>8. Worth(heap, gold) = Purses(gold) + Goods(heap) /\ Goods(heap) \in Nat
  BY WorthIs
<1>9. QED
  BY <1>1, <1>6, <1>7, <1>8 DEF Balanced

(* A step that, among other things, makes one thing out of n from a purse.  *)
LEMMA MoneyTaken ==
  ASSUME heap \in HeapType, heap' \in HeapType,
         NEW q \in HeapType, NEW t \in HeapType, NEW x \in Objs, NEW k, NEW v,
         Adds(q, t, x, k, v), Pruned(t, heap'), Coins(heap, heap') \subseteq {x},
         NEW amount \in Nat, MoneyMade(k, v, amount),
         amount = 1 => x \notin Live(heap),
         Purses(gold) \in Int, Purses(gold') \in Int,
         Purses(gold') + Goods(q) + amount <= Purses(gold) + Goods(heap)
  PROVE  Balanced
<1>1. Worth(heap', gold') = Purses(gold') + Goods(heap') /\ Goods(heap') \in Nat
      /\ Live(heap') \subseteq Objs
  BY WorthIs
<1>2. Worth(heap, gold) = Purses(gold) + Goods(heap) /\ Goods(heap) \in Nat
  BY WorthIs
<1>3. Goods(t) = Goods(q) + v /\ v \in Nat /\ Goods(q) \in Nat
  BY AddsGoods
<1>4. PICK S : S = Coins(heap, heap')
  OBVIOUS
<1>5. PICK f : f = Gain(heap')
  OBVIOUS
<1>6. Minted = Total(f, S)
  BY <1>4, <1>5, MintedIs
<1>a. heap'.value \in [Objs -> Nat]
  BY HeapFields
<1>7. f \in [Objs -> Int]
  BY <1>5, <1>a DEF Gain
<1>b. heap'.kind[x] = k /\ heap'.value[x] = v
  BY DEF Adds, Pruned
<1>8. PICK none : none = {}
  OBVIOUS
<1>9. none \in SUBSET Live(t) /\ none \cap Live(heap') = {}
  BY <1>8
<1>10. Total(t.value, none) = 0
  <2>1. t.value \in [Objs -> Int]
    BY HeapFields
  <2>2. QED
    BY <1>8, <2>1, TotalNone
<1>11. Goods(heap') <= Goods(t)
  <2>1. Goods(heap') + Total(t.value, none) <= Goods(t) /\ Goods(heap') \in Nat /\ Goods(t) \in Nat
    BY <1>9, PrunedGoods
  <2>2. QED
    BY <1>10, <2>1
<1>12. CASE S = {}
  <2>1. Minted = 0
    BY <1>6, <1>7, <1>12, TotalNone
  <2>2. CASE amount # 1
    <3>1. v = amount
      BY <2>2 DEF MoneyMade
    <3>2. QED
      BY <1>1, <1>2, <1>3, <1>11, <2>1, <3>1 DEF Balanced
  <2>3. CASE amount = 1
    <3>1. k = "coin"
      BY <2>3 DEF MoneyMade
    <3>2. x \notin Live(heap')
      BY <1>4, <1>12, <1>b, <2>3, <3>1 DEF Coins
    <3>3. PICK X : X = {x}
      OBVIOUS
    <3>4. X \in SUBSET Live(t) /\ X \cap Live(heap') = {}
      BY <3>2, <3>3 DEF Adds
    <3>5. Goods(heap') + Total(t.value, X) <= Goods(t) /\ Goods(t) \in Nat
      BY <3>4, PrunedGoods
    <3>6. Total(t.value, X) = v
      <4>1. t.value \in [Objs -> Int] /\ t.value[x] = v
        BY HeapFields DEF Adds
      <4>2. QED
        BY <3>3, <4>1, TotalOne
    <3>7. QED
      BY <1>1, <1>2, <1>3, <2>1, <3>5, <3>6 DEF Balanced
  <2>4. QED
    BY <2>2, <2>3
<1>13. CASE S # {}
  <2>1. S = {x} /\ k = "coin"
    BY <1>4, <1>13, <1>b DEF Coins
  <2>2. amount = 1
    BY <2>1 DEF MoneyMade
  <2>3. Minted = v - 1
    <3>1. f[x] = v - 1
      BY <1>5, <1>b DEF Gain
    <3>2. QED
      BY <1>6, <1>7, <2>1, <3>1, TotalOne
  <2>4. QED
    BY <1>1, <1>2, <1>3, <1>11, <2>2, <2>3 DEF Balanced
<1>14. QED
  BY <1>12, <1>13

(* All purses hold a number together.                                       *)
LEMMA PursesInt ==
  ASSUME NEW g \in [Chars -> Int]
  PROVE  Purses(g) \in Int
<1>0. IsFiniteSet(Chars)
  BY ObjectsAssumption
<1>1. PICK it : Adding(g, Chars, it) /\ Purses(g) = it[Chars]
  BY PursesIs
<1> DEFINE G == {s \in SUBSET Chars : it[s] \in Int}
<1>2. {} \in G
  <2>1. it[{}] = 0
    BY <1>1 DEF Adding
  <2>2. QED
    BY <2>1
<1>3. ASSUME NEW s \in SUBSET Chars, s # {}, s \ {AnyOf(s)} \in G PROVE s \in G
  <2>1. PICK x : x = AnyOf(s)
    OBVIOUS
  <2>2. x \in Chars /\ it[s] = g[x] + it[s \ {x}]
    BY <1>0, <1>1, <1>3, <2>1, AnyOfIs DEF Adding
  <2>3. QED
    BY <1>3, <2>1, <2>2
<1> HIDE DEF G
<1>4. Chars \in G
  BY <1>0, <1>2, <1>3, ElementByElement
<1>5. QED
  BY <1>1, <1>4 DEF G

(* Before and after a step, purses and heap are of their types.             *)
LEMMA MoneyFacts ==
  ASSUME IInv, IInv'
  PROVE  /\ heap \in HeapType /\ heap' \in HeapType
         /\ Tidy(heap, {}) /\ Square(heap, drift) /\ drift \in [Chars -> Int]
         /\ gold \in [Chars -> Nat] /\ gold \in [Chars -> Int] /\ gold' \in [Chars -> Int]
         /\ Purses(gold) \in Int /\ Purses(gold') \in Int
<1>1. heap \in HeapType /\ heap' \in HeapType
  BY DEF IInv, Tidy
<1>2. gold \in [Chars -> Nat] /\ gold' \in [Chars -> Nat]
  BY DEF IInv
<1>3. gold \in [Chars -> Int] /\ gold' \in [Chars -> Int]
  BY <1>2
<1>4. Purses(gold) \in Int /\ Purses(gold') \in Int
  BY <1>3, PursesInt
<1>5. QED
  BY <1>1, <1>2, <1>3, <1>4, Facts

(* Nothing is made, and no purse has more.                                  *)
LEMMA OnlyLost ==
  ASSUME IInv, IInv', Priced(heap), Pruned(heap, heap'), Purses(gold') <= Purses(gold)
  PROVE  Balanced /\ Priced(heap')
<1>1. PICK none : none = {}
  OBVIOUS
<1>2. none \in SUBSET Live(heap) /\ none \cap Live(heap') = {}
  BY <1>1
<1>3. /\ Goods(heap') \in Nat /\ Goods(heap) \in Nat /\ Total(heap.value, none) \in Nat
      /\ Goods(heap') + Total(heap.value, none) <= Goods(heap)
  BY <1>2, MoneyFacts, PrunedGoods
<1>4. Purses(gold') + Goods(heap') <= Purses(gold) + Goods(heap)
  BY <1>3, MoneyFacts
<1>5. QED
  BY <1>4, MoneyFacts, NothingMade

(* Purses that do not change hold no more than they did.                   *)
LEMMA NoLess == ASSUME NEW g \in [Chars -> Int] PROVE Purses(g) <= Purses(g)
  BY PursesInt

(* "get" of money: what the purse gains, the thing was worth.               *)
LEMMA GetObjBalanced ==
  ASSUME IInv, IInv', Priced(heap), NEW c \in Chars, NEW o \in Objs,
         heap.place[o] # NULL, c \notin Under(heap, o), c \in Places, c \notin Objs, GetObj(c, o)
  PROVE  Balanced /\ Priced(heap')
<1>1. CASE heap.kind[o] \in {"coin", "coins"}
  <2>1. gold' = [gold EXCEPT ![c] = @ + heap.value[o]] /\ heap' = Extracted(From(heap, o), o)
    BY <1>1 DEF GetObj
  <2>2. PICK none : none = {}
    OBVIOUS
  <2>3. PICK f : f = From(heap, o)
    OBVIOUS
  <2>4. o \in Live(heap) /\ Tidy(heap, none)
    BY <2>2, MoneyFacts, LiveIs
  <2>5. PICK loose : loose = none \cup {o}
    OBVIOUS
  <2>6. Tidy(f, loose) /\ Square(f, drift) /\ SameThings(f, heap)
    BY <2>3, <2>4, <2>5, MoneyFacts, Loosened
  <2>7. heap' = Extracted(f, o)
    BY <2>1, <2>3
  <2>8. Pruned(f, heap') /\ o \notin Live(heap')
    BY <2>6, <2>7, MoneyFacts, ExtractedPrunes
  <2>9. Pruned(heap, heap')
    BY <2>6, <2>8 DEF Pruned, SameThings, Live
  <2>10. PICK O : O = {o}
    OBVIOUS
  <2>11. O \in SUBSET Live(heap) /\ O \cap Live(heap') = {}
    BY <2>4, <2>8, <2>10
  <2>12. Goods(heap') + Total(heap.value, O) <= Goods(heap) /\ Goods(heap') \in Nat /\ Goods(heap) \in Nat
    BY <2>9, <2>11, MoneyFacts, PrunedGoods
  <2>13. heap.value \in [Objs -> Nat] /\ heap.value \in [Objs -> Int]
    BY MoneyFacts, HeapFields
  <2>14. Total(heap.value, O) = heap.value[o] /\ heap.value[o] \in Nat
    BY <2>10, <2>13, TotalOne
  <2>15. PICK n : n = gold[c] + heap.value[o]
    OBVIOUS
  <2>16. n \in Int /\ gold[c] \in Int /\ gold' = [gold EXCEPT ![c] = n]
    BY <2>1, <2>14, <2>15, MoneyFacts
  <2>17. Purses(gold') = Purses(gold) + n - gold[c]
    BY <2>16, MoneyFacts, PursesChange
  <2>18. Purses(gold') + Goods(heap') <= Purses(gold) + Goods(heap)
    BY <2>12, <2>14, <2>15, <2>16, <2>17, MoneyFacts
  <2>19. QED
    BY <2>9, <2>18, MoneyFacts, NothingMade
<1>2. CASE heap.kind[o] \notin {"coin", "coins"}
  <2>1. heap' = Moved(heap, o, c) /\ gold' = gold
    BY <1>2 DEF GetObj
  <2>2. Pruned(heap, heap')
    BY <2>1, MoneyFacts, MovedTidy
  <2>3. Purses(gold') <= Purses(gold)
    BY <2>1, MoneyFacts, NoLess
  <2>4. QED
    BY <2>2, <2>3, OnlyLost
<1>3. QED
  BY <1>1, <1>2

(* "give" of gold: one purse has n less, and the other n more.              *)
LEMMA GiveCoinsBalanced ==
  ASSUME IInv, IInv', Priced(heap), NEW c \in Chars, NEW v \in Chars, NEW n \in Amounts,
         GiveCoins(c, v, n)
  PROVE  Balanced /\ Priced(heap')
<1>1. /\ v # c /\ gold' = [gold EXCEPT ![c] = @ - n, ![v] = @ + n] /\ heap' = heap
  BY DEF GiveCoins
<1>2. n \in Int
  BY ObjectsAssumption
<1>3. PICK less : less = gold[c] - n
  OBVIOUS
<1>4. PICK more : more = gold[v] + n
  OBVIOUS
<1>5. PICK g : g = [gold EXCEPT ![c] = less]
  OBVIOUS
<1>6. gold[c] \in Int /\ gold[v] \in Int /\ less \in Int /\ more \in Int
  BY <1>2, <1>3, <1>4, MoneyFacts
<1>7. g \in [Chars -> Int] /\ g[v] = gold[v] /\ gold' = [g EXCEPT ![v] = more]
  BY <1>1, <1>3, <1>4, <1>5, <1>6, MoneyFacts
<1>8. Purses(g) = Purses(gold) + less - gold[c] /\ Purses(g) \in Int
  <2>1. gold \in [Chars -> Int]
    BY MoneyFacts
  <2>2. Purses(g) = Purses(gold) + less - gold[c]
    BY <1>5, <1>6, <2>1, PursesChange
  <2>3. Purses(g) \in Int
    BY <1>7, PursesInt
  <2>4. QED
    BY <2>2, <2>3
<1>9. Purses(gold') = Purses(g) + more - g[v]
  BY <1>6, <1>7, PursesChange
<1>10. Purses(gold') <= Purses(gold)
  BY <1>2, <1>3, <1>4, <1>6, <1>7, <1>8, <1>9, MoneyFacts
<1>11. Pruned(heap, heap')
  BY <1>1 DEF Pruned
<1>12. QED
  BY <1>10, <1>11, OnlyLost

(* "drop" of gold: the new heap is worth what was dropped and what lay     *)
(* there; a single coin is made only when nothing lay there.                *)
LEMMA DropCoinsBalanced ==
  ASSUME IInv, IInv', Priced(heap), NEW c \in Chars, NEW n \in Amounts, DropCoins(c, n)
  PROVE  Balanced /\ Priced(heap')
<1>1. PICK things : things = {o \in Objs : heap.kind[o] \notin {"coin", "coins"}}
  OBVIOUS
<1>2. PICK lying : lying = Without(heap.contents[Room], things)
  OBVIOUS
<1>3. PICK worth : worth = [o \in Objs |-> IF heap.kind[o] = "coin" THEN 1 ELSE heap.value[o]]
  OBVIOUS
<1>4. PICK bare : bare = ExtractedAll(heap, lying)
  OBVIOUS
<1>5. PICK S : S = ToSet(lying)
  OBVIOUS
<1>6. PICK amount : amount = n + Total(worth, S)
  OBVIOUS
<1>7. PICK less : less = gold[c] - n
  OBVIOUS
<1>8. /\ n <= gold[c] /\ CanCreate(bare, 1) /\ gold' = [gold EXCEPT ![c] = less]
      /\ heap' \in MoneyIn(bare, amount, Room)
  BY <1>1, <1>2, <1>3, <1>4, <1>5, <1>6, <1>7 DEF DropCoins
<1>9. heap.value \in [Objs -> Nat] /\ n \in Nat /\ n # 0
  BY MoneyFacts, HeapFields, ObjectsAssumption
<1>10. lying \in Seq(Objs) /\ \A o \in S : o \in Live(heap) /\ o \in Objs /\ heap.kind[o] \in {"coin", "coins"}
  <2>1. Room \in Places /\ Room # NULL /\ Agrees(heap)
    BY MoneyFacts, Apart DEF Tidy, Forest
  <2>2. /\ heap.contents[Room] \in Seq(Objs)
        /\ \A y : y \in ToSet(heap.contents[Room]) <=> y \in Objs /\ heap.place[y] = Room
    BY <2>1, Contents
  <2>3. lying \in Seq(Objs) /\ S = ToSet(heap.contents[Room]) \ things
    BY <1>2, <1>5, <2>2, WithoutIs
  <2>4. \A y \in Objs : heap.place[y] # NULL => y \in Live(heap)
    BY MoneyFacts, LiveIs
  <2>5. ASSUME NEW o \in S PROVE o \in Live(heap) /\ o \in Objs /\ heap.kind[o] \in {"coin", "coins"}
    <3>1. o \in Objs /\ heap.place[o] = Room /\ o \notin things
      BY <2>2, <2>3
    <3>2. QED
      BY <1>1, <2>1, <2>4, <3>1
  <2>6. QED
    BY <2>3, <2>5
<1>11. worth \in [Objs -> Nat] /\ worth \in [Objs -> Int]
  BY <1>3, <1>9
<1>12. Total(worth, S) \in Nat /\ amount \in Nat
  <2>1. Total(worth, S) \in Nat
    BY <1>11, TotalNat
  <2>2. QED
    BY <1>6, <1>9, <2>1
<1>13. \A o \in S \cap Objs : 1 <= worth[o] /\ worth[o] <= heap.value[o]
  <2> TAKE o \in S \cap Objs
  <2>1. heap.value[o] \in Nat /\ heap.value[o] >= 1
    BY <1>9, <1>10 DEF Priced
  <2>2. worth[o] = IF heap.kind[o] = "coin" THEN 1 ELSE heap.value[o]
    BY <1>3
  <2>3. QED
    BY <2>1, <2>2
<1>14. Total(worth, S) <= Total(heap.value, S)
  BY <1>9, <1>11, <1>13, TotalAtMost
<1>15. PICK none : none = {}
  OBVIOUS
<1>16. Tidy(heap, none) /\ Tidy(bare, none) /\ Square(bare, drift) /\ AllGone(heap, bare, lying)
  <2>1. Tidy(heap, {}) /\ Square(heap, drift) /\ drift \in [Chars -> Int]
    BY MoneyFacts
  <2>2. Tidy(bare, {}) /\ Square(bare, drift) /\ AllGone(heap, bare, lying)
    BY <1>4, <1>10, <2>1, AllExtracted
  <2>3. QED
    BY <1>15, <2>1, <2>2
<1>17. Pruned(heap, bare) /\ S \cap Live(bare) = {} /\ (lying = << >> => bare = heap)
       /\ bare \in HeapType
  BY <1>5, <1>16 DEF AllGone, Tidy
<1>18. S \in SUBSET Live(heap)
  BY <1>10
<1>19. /\ Goods(bare) \in Nat /\ Goods(heap) \in Nat /\ Total(heap.value, S) \in Nat
       /\ Goods(bare) + Total(heap.value, S) <= Goods(heap)
  BY <1>17, <1>18, MoneyFacts, PrunedGoods
<1>20. PICK x \in Objs, k \in Kinds, v \in Nat : Adds(bare, heap', x, k, v) /\ MoneyMade(k, v, amount)
  <2>1. 1 \in Nat \ {0} /\ Room \in Places /\ Room \notin Objs
    BY Apart
  <2>2. QED
    BY <1>8, <1>12, <1>16, <2>1, MoneyFacts, MoneyAdds
<1>21. Priced(heap')
  <2>1. Priced(bare)
    BY <1>17, MoneyFacts, StaysPriced
  <2>2. amount >= 1
    BY <1>6, <1>9, <1>12
  <2>3. v >= 1
    BY <1>20, <2>2 DEF MoneyMade
  <2>4. QED
    BY <1>17, <1>20, <2>1, <2>3, StaysPriced
<1>22. amount = 1 => x \notin Live(heap)
  <2>1. ASSUME amount = 1 PROVE lying = << >>
    <3>1. Total(worth, S) = 0
      BY <1>6, <1>9, <1>12, <2>1
    <3>2. ASSUME NEW o \in S PROVE FALSE
      <4>1. PICK O : O = {o}
        OBVIOUS
      <4>2. PICK R : R = S \ O
        OBVIOUS
      <4>3. S = O \cup R /\ O \cap R = {} /\ o \in Objs
        BY <1>10, <4>1, <4>2
      <4>4. Total(worth, S) = Total(worth, O) + Total(worth, R)
        BY <1>11, <4>3, TotalBoth
      <4>5. Total(worth, O) = worth[o]
        BY <1>11, <4>1, <4>3, TotalOne
      <4>6. Total(worth, R) \in Nat /\ worth[o] \in Nat /\ worth[o] >= 1
        <5>1. Total(worth, R) \in Nat
          BY <1>11, TotalNat
        <5>2. worth[o] \in Nat /\ worth[o] >= 1
          BY <1>11, <1>13, <4>3
        <5>3. QED
          BY <5>1, <5>2
      <4>7. QED
        BY <3>1, <4>4, <4>5, <4>6
    <3>3. S = {}
      BY <3>2
    <3>4. Len(lying) \in Nat /\ \A i \in 1 .. Len(lying) : lying[i] \in S
      BY <1>5, <1>10, SeqIs
    <3>5. Len(lying) = 0
      BY <3>3, <3>4
    <3>6. QED
      BY <1>10, <3>5
  <2>2. QED
    BY <1>17, <1>20, <2>1 DEF Adds
<1>23. Purses(gold') = Purses(gold) + less - gold[c] /\ gold[c] \in Int
  <2>1. gold \in [Chars -> Int] /\ less \in Int /\ gold[c] \in Int
    BY <1>7, <1>9, MoneyFacts
  <2>2. QED
    BY <1>8, <2>1, PursesChange
<1>24. Purses(gold') + Goods(bare) + amount <= Purses(gold) + Goods(heap)
  <2>1. Purses(gold') = Purses(gold) - n
    BY <1>7, <1>9, <1>23, MoneyFacts
  <2>2. QED
    BY <1>6, <1>9, <1>12, <1>14, <1>19, <2>1, MoneyFacts
<1>25. PICK X : X = {x}
  OBVIOUS
<1>26. Coins(heap, heap') \subseteq X
  BY <1>17, <1>20, <1>25 DEF Coins, Adds, Pruned
<1>27. Pruned(heap', heap')
  BY DEF Pruned
<1>28. Balanced
  <2>1. Coins(heap, heap') \subseteq {x}
    BY <1>25, <1>26
  <2>2. /\ heap \in HeapType /\ heap' \in HeapType
        /\ Purses(gold) \in Int /\ Purses(gold') \in Int
    BY MoneyFacts
  <2>3. QED
    BY <1>12, <1>17, <1>20, <1>22, <1>24, <1>27, <2>1, <2>2, MoneyTaken
<1>29. QED
  BY <1>21, <1>28

(* make_corpse makes a corpse that is worth nothing, and perhaps money for  *)
(* what was in the purse; then things may vanish.                           *)
Plain(k) == k \notin {"coin", "coins"}

Remains(n, body, h, t, corpse) ==
  /\ body \in HeapType /\ h \in HeapType /\ Pruned(h, t)
  /\ \E kind : Plain(kind) /\ Adds(heap, body, corpse, kind, 0)
  /\ \/ n = 0 /\ h = body
     \/ n # 0 /\ \E x \in Objs, k \in Kinds, v \in Nat :
                     Adds(body, h, x, k, v) /\ MoneyMade(k, v, n)

(* The corpse and the money in it are worth what the purse held, but for   *)
(* the price of a coin.                                                    *)
LEMMA CorpseAdds ==
  ASSUME IInv, NEW c \in Chars, CanCreate(heap, 2), NEW vanishing, NEW t \in CorpseOf(c, vanishing),
         NEW n, n = gold[c]
  PROVE  \E body, h, corpse : Remains(n, body, h, t, corpse)
<1>1. PICK kind \in Kinds : kind = IF c \in Players THEN "pc corpse" ELSE "corpse"
  BY DEF Kinds
<1>a. Plain(kind)
  BY <1>1 DEF Plain
<1>2. PICK corpse : corpse = Fresh(heap)
  OBVIOUS
<1>3. PICK body : body = Created(heap, kind, 0)
  OBVIOUS
<1>4. PICK s : s = heap.contents[c]
  OBVIOUS
<1>5. PICK h \in IF n = 0 THEN {body} ELSE MoneyIn(body, n, corpse) :
         t = To(Buried(h, s, corpse, vanishing), corpse, Room)
  BY <1>1, <1>2, <1>3, <1>4 DEF CorpseOf
<1>6. PICK b : b = Buried(h, s, corpse, vanishing)
  OBVIOUS
<1>7. drift \in [Chars -> Int] /\ n \in Nat
  BY Facts
<1>8. /\ Listed(s) /\ \A y : y \in ToSet(s) <=> y \in Objs /\ heap.place[y] = c
  <2>1. Agrees(heap) /\ c \in Places
    BY Facts, Apart DEF Tidy, Forest
  <2>2. QED
    BY <1>4, <2>1, Contents DEF Listed
<1>9. PICK M : M = {corpse}
  OBVIOUS
<1>10. /\ Tidy(body, M) /\ Square(body, drift) /\ body.place = heap.place
       /\ corpse \in Objs /\ corpse \in Live(body) /\ CanCreate(body, 1)
  BY <1>2, <1>3, <1>7, <1>9, BodyTidy
<1>11. /\ Tidy(h, M) /\ Square(h, drift)
       /\ \A y \in Objs, p \in Places \ Objs : h.place[y] = p <=> body.place[y] = p
  BY <1>5, <1>7, <1>10, PurseTidy
<1>12. c \in Places \ Objs
  BY Apart
<1>13. \A y \in ToSet(s) : h.place[y] = c
  BY <1>8, <1>10, <1>11, <1>12
<1>14. corpse \in M
  BY <1>9
<1>15. /\ Tidy(b, M) /\ Pruned(h, b)
  BY <1>6, <1>7, <1>8, <1>10, <1>11, <1>13, <1>14, BuriedTidy, SMTT(60)
<1>16. Pruned(h, t)
  <2>1. Forest(b) /\ b \in HeapType /\ b.place[corpse] = NULL /\ Room \in Places /\ Room \notin Objs
    BY <1>14, <1>15, Apart DEF Tidy
  <2>2. Room \notin Under(b, corpse)
    BY <1>10, <2>1, UnderIs
  <2>3. t = To(b, corpse, Room)
    BY <1>5, <1>6
  <2>4. PutInto(b, corpse, Room, t)
    BY <1>10, <2>1, <2>2, <2>3, ToIs
  <2>5. QED
    BY <1>15, <2>4 DEF PutInto, SameThings, Pruned, Live
<1>17. Adds(heap, body, corpse, kind, 0)
  <2>1. PICK none : none = {}
    OBVIOUS
  <2>2. Tidy(heap, none) /\ Square(heap, drift)
    BY <2>1, Facts
  <2>3. QED
    BY <1>2, <1>3, <1>7, <2>2, OneTwo, CreatedAdds
<1>18. \/ n = 0 /\ h = body
       \/ n # 0 /\ \E x \in Objs, k \in Kinds, v \in Nat :
                       Adds(body, h, x, k, v) /\ MoneyMade(k, v, n)
  <2>1. CASE n = 0
    BY <1>5, <2>1
  <2>2. CASE n # 0
    <3>1. h \in MoneyIn(body, n, corpse) /\ corpse \in Places
      BY <1>5, <1>10, <2>2, Apart
    <3>2. \E x \in Objs, k \in Kinds, v \in Nat : Adds(body, h, x, k, v) /\ MoneyMade(k, v, n)
      BY <1>7, <1>10, <3>1, OneTwo, MoneyAdds
    <3>3. QED
      BY <2>2, <3>2
  <2>3. QED
    BY <2>1, <2>2
<1>19. body \in HeapType /\ h \in HeapType
  BY <1>10, <1>11 DEF Tidy
<1>20. Remains(n, body, h, t, corpse)
  BY <1>a, <1>16, <1>17, <1>18, <1>19 DEF Remains
<1>21. QED
  BY <1>20

(* The sums of a character are none of its things.                          *)
LEMMA EmptiedSame ==
  ASSUME NEW g \in HeapType, NEW c \in Chars, NEW t, t = Emptied(g, c)
  PROVE  SameThings(t, g) /\ Live(t) = Live(g)
  BY DEF HeapType, Emptied, SameThings, Live

(* Of a death.                                                              *)
LEMMA KillBalanced ==
  ASSUME IInv, IInv', Priced(heap), NEW c \in Chars, Kill(c)
  PROVE  Balanced /\ Priced(heap')
<1>1. CanCreate(heap, 2) /\ gold' = [gold EXCEPT ![c] = 0]
  BY DEF Kill
<1>2. PICK vanishing \in SUBSET ToSet(heap.contents[c]) :
         \E t \in CorpseOf(c, vanishing) : heap' = Emptied(t, c)
  BY DEF Kill
<1>3. PICK t \in CorpseOf(c, vanishing) : heap' = Emptied(t, c)
  BY <1>2
<1>a. PICK n : n = gold[c]
  OBVIOUS
<1>4. PICK body, h, corpse : Remains(n, body, h, t, corpse)
  BY <1>1, <1>a, CorpseAdds
<1>5. t \in HeapType
  BY <1>1, CorpseTidy DEF Tidy
<1>6. Pruned(h, heap') /\ body \in HeapType /\ h \in HeapType
  BY <1>3, <1>4, <1>5, EmptiedSame DEF Remains, Pruned, SameThings
<1>b. PICK z : z = 0
  OBVIOUS
<1>7. PICK kind : Plain(kind) /\ Adds(heap, body, corpse, kind, z)
  BY <1>4, <1>b DEF Remains
<1>8. Priced(body)
  <2>1. kind \notin {"coin", "coins"}
    BY <1>7 DEF Plain
  <2>2. QED
    BY <1>7, <2>1, MoneyFacts, StaysPriced
<1>9. Goods(body) = Goods(heap) /\ Goods(heap) \in Nat
  <2>1. Goods(body) = Goods(heap) + z /\ Goods(heap) \in Nat
    BY <1>6, <1>7, MoneyFacts, AddsGoods
  <2>2. QED
    BY <1>b, <2>1
<1>10. n \in Nat /\ Purses(gold') = Purses(gold) - n
  <2>1. z \in Int /\ gold' = [gold EXCEPT ![c] = z] /\ gold \in [Chars -> Int] /\ gold[c] \in Nat
    BY <1>1, <1>b, MoneyFacts
  <2>2. Purses(gold') = Purses(gold) + z - gold[c]
    BY <2>1, PursesChange
  <2>3. QED
    BY <1>a, <1>b, <2>1, <2>2, MoneyFacts
<1>11. CASE n = 0
  <2>1. h = body
    BY <1>4, <1>11 DEF Remains
  <2>2. Priced(heap')
    BY <1>6, <1>8, <2>1, StaysPriced
  <2>3. PICK none : none = {}
    OBVIOUS
  <2>4. none \in SUBSET Live(h) /\ none \cap Live(heap') = {}
    BY <2>3
  <2>5. Goods(heap') + Total(h.value, none) <= Goods(h) /\ Total(h.value, none) \in Nat
        /\ Goods(heap') \in Nat /\ Goods(h) \in Nat
    BY <1>6, <2>4, MoneyFacts, PrunedGoods
  <2>6. PICK S : S = Coins(heap, heap')
    OBVIOUS
  <2>7. S = {}
    <3>1. kind # "coin"
      BY <1>7 DEF Plain
    <3>2. QED
      BY <1>6, <1>7, <2>1, <2>6, <3>1 DEF Coins, Adds, Pruned
  <2>8. PICK f : f = Gain(heap')
    OBVIOUS
  <2>9. f \in [Objs -> Int]
    <3>1. heap'.value \in [Objs -> Nat]
      BY MoneyFacts, HeapFields
    <3>2. QED
      BY <2>8, <3>1 DEF Gain
  <2>10. Minted = 0
    BY <2>6, <2>7, <2>8, <2>9, MoneyFacts, MintedIs, TotalNone
  <2>11. /\ Worth(heap', gold') = Purses(gold') + Goods(heap')
         /\ Worth(heap, gold) = Purses(gold) + Goods(heap)
    BY MoneyFacts, WorthIs
  <2>12. Goods(heap') <= Goods(heap)
    BY <1>9, <2>1, <2>5
  <2>13. Balanced
    BY <1>9, <1>10, <1>11, <2>5, <2>10, <2>11, <2>12, MoneyFacts DEF Balanced
  <2>14. QED
    BY <2>2, <2>13
<1>12. CASE n # 0
  <2>1. PICK x \in Objs, k \in Kinds, v \in Nat : Adds(body, h, x, k, v) /\ MoneyMade(k, v, n)
    BY <1>4, <1>12 DEF Remains
  <2>2. v >= 1
    BY <1>10, <1>12, <2>1 DEF MoneyMade
  <2>3. Priced(h)
    BY <1>6, <1>8, <2>1, <2>2, StaysPriced
  <2>4. Priced(heap')
    BY <1>6, <2>3, StaysPriced
  <2>5. x \notin Live(heap) /\ x # corpse
    BY <1>7, <2>1 DEF Adds
  <2>6. Coins(heap, heap') \subseteq {x}
    <3>1. ASSUME NEW o \in Coins(heap, heap') PROVE o = x
      <4>1. o \in Live(heap') /\ o \notin Live(heap) /\ heap'.kind[o] = "coin"
        BY DEF Coins
      <4>2. o \in Live(h) /\ h.kind[o] = "coin"
        BY <1>6, <4>1 DEF Pruned
      <4>3. o \in Live(body) \cup {x}
        BY <2>1, <4>2 DEF Adds
      <4>4. o = x \/ o = corpse
        BY <1>7, <4>1, <4>3 DEF Adds
      <4>5. corpse \in Objs /\ body.kind[corpse] = kind /\ kind # "coin"
        BY <1>7 DEF Adds, Plain
      <4>6. h.kind[corpse] = kind
        BY <2>1, <2>5, <4>5 DEF Adds
      <4>7. QED
        BY <4>2, <4>4, <4>5, <4>6
    <3>2. QED
      BY <3>1
  <2>7. Purses(gold') + Goods(body) + n <= Purses(gold) + Goods(heap)
    BY <1>9, <1>10, MoneyFacts
  <2>8. /\ heap \in HeapType /\ heap' \in HeapType
        /\ Purses(gold) \in Int /\ Purses(gold') \in Int
    BY MoneyFacts
  <2>9. Balanced
    BY <1>6, <1>10, <2>1, <2>5, <2>6, <2>7, <2>8, MoneyTaken
  <2>10. QED
    BY <2>4, <2>9
<1>13. QED
  BY <1>11, <1>12

(* Of a character that leaves with all it carries: a mobile's gold is gone, *)
(* a player's stays its own.                                                *)
LEMMA LeaveBalanced ==
  ASSUME IInv, IInv', Priced(heap), NEW c \in Chars, Leave(c)
  PROVE  Balanced /\ Priced(heap')
<1>1. PICK s : s = heap.contents[c]
  OBVIOUS
<1>2. PICK t : t = ExtractedAll(heap, s)
  OBVIOUS
<1>3. PICK z : z = 0
  OBVIOUS
<1>4. /\ heap' = Emptied(t, c)
      /\ gold' = gold \/ gold' = [gold EXCEPT ![c] = z]
  BY <1>1, <1>2, <1>3 DEF Leave
<1>5. s \in Seq(Objs)
  <2>1. c \in Places /\ Agrees(heap)
    BY Facts, Apart DEF Tidy, Forest
  <2>2. QED
    BY <1>1, <2>1, Contents
<1>6. Tidy(t, {}) /\ AllGone(heap, t, s)
  BY <1>2, <1>5, MoneyFacts, AllExtracted
<1>7. Pruned(heap, heap')
  BY <1>4, <1>6, EmptiedSame DEF AllGone, Tidy, Pruned, SameThings
<1>8. Purses(gold') <= Purses(gold)
  <2>1. CASE gold' = gold
    BY <2>1, MoneyFacts, NoLess
  <2>2. CASE gold' = [gold EXCEPT ![c] = z]
    <3>1. z \in Int /\ gold \in [Chars -> Int] /\ gold[c] \in Nat
      BY <1>3, MoneyFacts
    <3>2. Purses(gold') = Purses(gold) + z - gold[c]
      BY <2>2, <3>1, PursesChange
    <3>3. QED
      BY <1>3, <3>1, <3>2, MoneyFacts
  <2>3. QED
    BY <1>4, <2>1, <2>2
<1>9. QED
  BY <1>7, <1>8, OnlyLost

(* Of a reset, a shop or an immortal: what is loaded is worth nothing.      *)
LEMMA LoadBalanced ==
  ASSUME IInv, IInv', Priced(heap), NEW p \in Places, p \notin Objs,
         NEW k \in Kinds, Plain(k), Load(p, k)
  PROVE  Balanced /\ Priced(heap')
<1>1. PICK o : o = Fresh(heap)
  OBVIOUS
<1>2. PICK z : z = 0
  OBVIOUS
<1>3. PICK m : m = Created(heap, k, z)
  OBVIOUS
<1>4. PICK none : none = {}
  OBVIOUS
<1>5. CanCreate(heap, 1) /\ heap' = To(m, o, p) /\ gold' = gold
  BY <1>1, <1>2, <1>3 DEF Load
<1>6. Tidy(heap, none) /\ Square(heap, drift) /\ drift \in [Chars -> Int] /\ z \in Nat
  BY <1>2, <1>4, MoneyFacts
<1>7. Adds(heap, m, o, k, z)
  BY <1>1, <1>3, <1>5, <1>6, OneTwo, CreatedAdds
<1>8. PICK loose : loose = none \cup {o}
  OBVIOUS
<1>9. /\ Tidy(m, loose) /\ o \in Objs /\ Under(m, o) = {o} /\ heap.place[o] = NULL
      /\ m.place = heap.place
  <2>1. /\ Tidy(m, none \cup {o}) /\ Square(m, drift) /\ o \in Objs /\ Under(m, o) = {o}
        /\ heap.place[o] = NULL /\ m.place = heap.place
    BY <1>1, <1>3, <1>5, <1>6, OneTwo, CreatedTidy, SMTT(60)
  <2>2. QED
    BY <1>8, <2>1
<1>10. m \in HeapType /\ Forest(m) /\ m.place[o] = NULL /\ p \notin Under(m, o)
  BY <1>9 DEF Tidy
<1>11. PutInto(m, o, p, heap')
  BY <1>5, <1>9, <1>10, ToIs
<1>12. Adds(heap, heap', o, k, z)
  BY <1>7, <1>11, PlacedAdds DEF PutInto
<1>13. Priced(heap')
  <2>1. k \notin {"coin", "coins"}
    BY DEF Plain
  <2>2. QED
    BY <1>12, <2>1, MoneyFacts, StaysPriced
<1>14. Goods(heap') = Goods(heap) + z /\ Goods(heap) \in Nat
  BY <1>12, MoneyFacts, AddsGoods
<1>15. PICK S : S = Coins(heap, heap')
  OBVIOUS
<1>16. S = {}
  BY <1>12, <1>15 DEF Coins, Adds, Plain
<1>17. PICK f : f = Gain(heap')
  OBVIOUS
<1>18. f \in [Objs -> Int]
  <2>1. heap'.value \in [Objs -> Nat]
    BY MoneyFacts, HeapFields
  <2>2. QED
    BY <1>17, <2>1 DEF Gain
<1>19. Minted = 0
  BY <1>15, <1>16, <1>17, <1>18, MoneyFacts, MintedIs, TotalNone
<1>20. /\ Worth(heap', gold') = Purses(gold') + Goods(heap')
       /\ Worth(heap, gold) = Purses(gold) + Goods(heap)
  BY MoneyFacts, WorthIs
<1>21. Balanced
  BY <1>2, <1>5, <1>14, <1>19, <1>20, MoneyFacts DEF Balanced
<1>22. QED
  BY <1>13, <1>21

(* Of a move, and of what leaves heap and purses alone or only extracts.    *)
LEMMA MovingBalanced ==
  ASSUME IInv, IInv', Priced(heap), NEW o \in Objs, heap.place[o] # NULL, NEW p \in Places,
         p \notin Under(heap, o), p \in Objs => p \in Live(heap),
         heap' = Moved(heap, o, p), gold' = gold
  PROVE  Balanced /\ Priced(heap')
<1>1. Pruned(heap, heap')
  BY MoneyFacts, MovedTidy
<1>2. Purses(gold') <= Purses(gold)
  BY MoneyFacts, NoLess
<1>3. QED
  BY <1>1, <1>2, OnlyLost

(* A step that only extracts things, and leaves the purses alone.          *)
LEMMA ExtractingBalanced ==
  ASSUME IInv, IInv', Priced(heap), NEW o \in Objs,
         heap' = heap \/ heap' = Extracted(heap, o), gold' = gold
  PROVE  Balanced /\ Priced(heap')
<1>1. CASE heap' = heap
  <2>1. Pruned(heap, heap') /\ Purses(gold') <= Purses(gold)
    BY <1>1, MoneyFacts, NoLess DEF Pruned
  <2>2. QED
    BY <2>1, OnlyLost
<1>2. CASE heap' = Extracted(heap, o)
  <2>1. PICK none : none = {}
    OBVIOUS
  <2>2. Tidy(heap, none) /\ Square(heap, drift) /\ drift \in [Chars -> Int]
    BY <2>1, MoneyFacts
  <2>3. Pruned(heap, heap')
    BY <1>2, <2>2, ExtractedPrunes
  <2>4. Purses(gold') <= Purses(gold)
    BY MoneyFacts, NoLess
  <2>5. QED
    BY <2>3, <2>4, OnlyLost
<1>3. QED
  BY <1>1, <1>2

(* A step that leaves what is worth something as it is.                    *)
LEMMA UntouchedBalanced ==
  ASSUME IInv, IInv', Priced(heap), heap' = heap, gold' = gold
  PROVE  Balanced /\ Priced(heap')
<1>1. Pruned(heap, heap') /\ Purses(gold') <= Purses(gold)
  BY MoneyFacts, NoLess DEF Pruned
<1>2. QED
  BY <1>1, OnlyLost

(* Of Preservation, which changes weights only.                             *)
LEMMA PreserveBalanced ==
  ASSUME IInv, IInv', Priced(heap), NEW c \in Chars, NEW o \in Objs, Preserve(c, o)
  PROVE  Balanced /\ Priced(heap')
<1>1. PICK less : less = IF heap.weight[o] > 1 THEN heap.weight[o] - heap.weight[o] \div 2 ELSE 0
  OBVIOUS
<1>2. heap' = [heap EXCEPT !.weight[o] = @ - less, !.carry_weight[c] = @ - less] /\ gold' = gold
  BY <1>1 DEF Preserve
<1>3. Pruned(heap, heap')
  BY <1>2, MoneyFacts DEF HeapType, Pruned, Live
<1>4. Purses(gold') <= Purses(gold)
  BY <1>2, MoneyFacts, NoLess
<1>5. QED
  BY <1>3, <1>4, OnlyLost

(* Of every step.                                                           *)
LEMMA StepBalanced == IInv /\ IInv' /\ Priced(heap) /\ [Next]_vars =>
                        (Balanced \/ UNCHANGED vars) /\ Priced(heap')
<1> SUFFICES ASSUME IInv, IInv', Priced(heap), [Next]_vars
             PROVE  (Balanced \/ UNCHANGED vars) /\ Priced(heap')
  OBVIOUS
<1>0. /\ \A c \in here : c \in Chars
      /\ \A o \in Objs : Under(heap, o) \subseteq Objs
      /\ \A o \in Objs : heap.place[o] # NULL => o \in Live(heap)
  BY Facts, LiveIs
<1>1. CASE UNCHANGED vars
  BY <1>1 DEF vars
<1>2. ASSUME NEW c \in Chars, NEW o \in Objs, Get(c, o) PROVE Balanced /\ Priced(heap')
  <2>1. heap.place[o] = Room /\ GetObj(c, o)
    BY <1>2 DEF Get
  <2>2. heap.place[o] # NULL /\ c \in Places /\ c \notin Objs /\ c \notin Under(heap, o)
    BY <1>0, <2>1, Apart
  <2>3. QED
    BY <2>1, <2>2, GetObjBalanced
<1>3. ASSUME NEW c \in Chars, NEW o \in Objs, NEW x \in Objs, GetFrom(c, o, x)
      PROVE  Balanced /\ Priced(heap')
  <2>1. heap.place[o] = x /\ GetObj(c, o)
    BY <1>3 DEF GetFrom
  <2>2. heap.place[o] # NULL /\ c \in Places /\ c \notin Objs /\ c \notin Under(heap, o)
    BY <1>0, <2>1, Apart
  <2>3. QED
    BY <2>1, <2>2, GetObjBalanced
<1>4. ASSUME NEW c \in Chars, NEW o \in Objs, Drop(c, o) PROVE Balanced /\ Priced(heap')
  <2>1. heap.place[o] = c /\ heap' = Moved(heap, o, Room) /\ gold' = gold
    BY <1>4 DEF Drop
  <2>2. heap.place[o] # NULL /\ Room \in Places /\ Room \notin Objs /\ Room \notin Under(heap, o)
    BY <1>0, <2>1, Apart
  <2>3. QED
    BY <2>1, <2>2, MovingBalanced
<1>5. ASSUME NEW c \in Chars, NEW o \in Objs, NEW v \in Chars, Give(c, v, o)
      PROVE  Balanced /\ Priced(heap')
  <2>1. heap.place[o] = c /\ heap' = Moved(heap, o, v) /\ gold' = gold
    BY <1>5 DEF Give
  <2>2. heap.place[o] # NULL /\ v \in Places /\ v \notin Objs /\ v \notin Under(heap, o)
    BY <1>0, <2>1, Apart
  <2>3. QED
    BY <2>1, <2>2, MovingBalanced
<1>6. ASSUME NEW c \in Chars, NEW o \in Objs, NEW bag \in Objs, Put(c, o, bag)
      PROVE  Balanced /\ Priced(heap')
  <2>1. /\ heap.place[o] = c /\ heap.place[bag] \in {Room, c} /\ o # bag
        /\ heap' = Moved(heap, o, bag) /\ gold' = gold
    BY <1>6 DEF Put
  <2>2. /\ heap.place[o] # NULL /\ bag \in Places /\ bag \in Live(heap)
        /\ heap.place[bag] \notin Objs /\ Forest(heap)
    BY <1>0, <2>1, Facts, Apart DEF Tidy
  <2>3. bag \notin Under(heap, o)
    BY <2>1, <2>2, NotUnder
  <2>4. QED
    BY <2>1, <2>2, <2>3, MovingBalanced
<1>7. ASSUME NEW c \in Chars, NEW o \in Objs, Sacrifice(c, o) PROVE Balanced /\ Priced(heap')
  <2>1. heap' = Extracted(heap, o) /\ gold' = gold
    BY <1>7 DEF Sacrifice
  <2>2. QED
    BY <2>1, ExtractingBalanced
<1>8. ASSUME NEW p \in {Room} \cup Chars, NEW k \in {"item", "bag"}, Load(p, k)
      PROVE  Balanced /\ Priced(heap')
  <2>1. p \in Places /\ p \notin Objs
    BY Apart
  <2>2. k \in Kinds /\ Plain(k)
    BY DEF Kinds, Plain
  <2>3. PICK j \in Kinds : j = k
    BY <2>2
  <2>4. Plain(j) /\ Load(p, j)
    BY <1>8, <2>2, <2>3
  <2>5. QED
    BY <2>1, <2>4, LoadBalanced
<1>9. CASE Update
  <2>1. /\ heap' = heap \/ heap' = Extracted(heap, obj)
        /\ gold' = gold
    BY <1>9 DEF Update
  <2>2. obj \in Objs
    <3>1. obj # 0 /\ heap.made \in 0 .. MaxObjs /\ obj \in 0 .. heap.made /\ MaxObjs \in Nat
      BY <1>9, Facts, HeapFields, ObjectsAssumption DEF Update
    <3>2. QED
      BY <3>1 DEF Objs
  <2>3. QED
    BY <2>1, <2>2, ExtractingBalanced
<1>10. CASE ObjUpdate
  BY <1>10, UntouchedBalanced DEF ObjUpdate
<1>11. ASSUME NEW c \in Chars, Enter(c) PROVE Balanced /\ Priced(heap')
  BY <1>11, UntouchedBalanced DEF Enter
<1>12. CASE \E c \in Chars, o \in Objs :
             \/ Get(c, o) \/ Drop(c, o) \/ Sacrifice(c, o) \/ Preserve(c, o)
             \/ \E x \in Objs : GetFrom(c, o, x) \/ Put(c, o, x)
             \/ \E v \in Chars : Give(c, v, o)
  BY <1>2, <1>3, <1>4, <1>5, <1>6, <1>7, <1>12, PreserveBalanced
<1>13. CASE \E c \in Chars :
             \/ \E n \in Amounts : DropCoins(c, n) \/ \E v \in Chars : GiveCoins(c, v, n)
             \/ Kill(c) \/ Leave(c) \/ Enter(c)
  BY <1>11, <1>13, DropCoinsBalanced, GiveCoinsBalanced, KillBalanced, LeaveBalanced
<1>14. CASE \E p \in {Room} \cup Chars, k \in {"item", "bag"} : Load(p, k)
  BY <1>8, <1>14
<1>15. QED
  BY <1>1, <1>9, <1>10, <1>12, <1>13, <1>14 DEF Next

(* Nobody grows rich but by single coins: whatever is dropped, picked up,  *)
(* given, left in a corpse or taken again (do_get, do_drop, do_give,       *)
(* create_money, make_corpse), purses and things together are worth no     *)
(* more than before, but for the price of the coins that were made.        *)
THEOREM GoldNeverGrows == Spec => GoldOnlyByCoins
<1>1. Init => Priced(heap)
  <2> SUFFICES ASSUME Init PROVE Priced(heap)
    OBVIOUS
  <2>1. Live(heap) = {}
    BY DEF Init, Live, ToSet
  <2>2. QED
    BY <2>1 DEF Priced
<1>2. IInv /\ IInv' /\ Priced(heap) /\ [Next]_vars => Priced(heap')
  BY StepBalanced
<1> DEFINE P == Priced(heap)
<1>3. Init => P
  BY <1>1
<1>4. IInv /\ IInv' /\ P /\ [Next]_vars => P'
  BY <1>2 DEF Priced, Live
<1>5. IInv /\ IInv' /\ P /\ [Next]_vars => [Worth(heap', gold') <= Worth(heap, gold) + Minted]_vars
  BY StepBalanced DEF Balanced
<1> HIDE DEF P
<1>6. QED
  BY <1>3, <1>4, <1>5, Invariant, PTL DEF Spec, GoldOnlyByCoins
=============================================================================
