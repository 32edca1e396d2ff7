-------------------------- MODULE Equipment_proofs --------------------------
(***************************************************************************)
(* Proofs about Equipment for any number of players, rooms and things, and *)
(* any prototypes and scenes: lists and places agree, strength, armour,    *)
(* hitroll and powers are what is worn and cast, a room is as light as the *)
(* lamps in it, and only a weapon that has become too heavy leads a walk   *)
(* away from its owner.                                                    *)
(***************************************************************************)
EXTENDS Equipment, SequenceTheorems, FiniteSetTheorems, WellFoundedInduction, TLAPS

-----------------------------------------------------------------------------
(* A set of numbers has a least one.                                       *)
LEMMA Least ==
  ASSUME NEW S, S \subseteq Nat, S # {}
  PROVE  \E x \in S : \A y \in S : x <= y
<1>1. IsWellFoundedOn(OpToRel(<,Nat), Nat)
  BY NatLessThanWellFounded
<1>2. OpToRel(<,Nat) = {ss \in Nat \X Nat : ss[1] < ss[2]}
  BY DEF OpToRel
<1>3. \E x \in S : \A y \in S : ~(<<y, x>> \in OpToRel(<,Nat))
  BY <1>1, WFMin
<1>4. \E x \in S : \A y \in S : ~(<<y, x>> \in {ss \in Nat \X Nat : ss[1] < ss[2]})
  BY <1>2, <1>3, Zenon
<1>5. PICK x \in S : \A y \in S : ~(<<y, x>> \in {ss \in Nat \X Nat : ss[1] < ss[2]})
  BY <1>4
<1>6. ASSUME NEW y \in S PROVE x <= y
  <2>1. x \in Nat /\ y \in Nat
    OBVIOUS
  <2>2. ~(<<y, x>>[1] < <<y, x>>[2])
    BY <1>5, <2>1
  <2>3. QED
    BY <2>1, <2>2
<1>7. QED
  BY <1>6

(* A nonempty set of numbers up to n has a first, with no number before it. *)
LEMMA First ==
  ASSUME NEW n \in Nat, NEW B, B \subseteq 0 .. n, B # {}
  PROVE  \E b \in B : /\ b \in 0 .. n
                      /\ b # 0 => b \in 1 .. n /\ b - 1 \in 0 .. n /\ b - 1 \notin B
<1>1. B \subseteq Nat
  OBVIOUS
<1>2. PICK b \in B : \A k \in B : b <= k
  BY <1>1, Least
<1>3. b \in 0 .. n
  OBVIOUS
<1>4. b - 1 \notin B
  BY <1>2, <1>3
<1>5. QED
  BY <1>3, <1>4

(* Induction from 0 up to n, and recursion: what is defined step by step,  *)
(* each value from the one before it, exists and is where each step leads. *)
LEMMA Upward ==
  ASSUME NEW n \in Nat, NEW G, 0 \in G, \A k \in 1 .. n : k - 1 \in G => k \in G
  PROVE  \A k \in 0 .. n : k \in G
<1> DEFINE B == {k \in 0 .. n : k \notin G}
<1>1. ASSUME B # {} PROVE FALSE
  <2>0. B \subseteq 0 .. n
    OBVIOUS
  <2>1. PICK b \in B : /\ b \in 0 .. n
                       /\ b # 0 => b \in 1 .. n /\ b - 1 \in 0 .. n /\ b - 1 \notin B
    BY <1>1, <2>0, First
  <2>2. b # 0
    BY <2>1
  <2>3. b \in 1 .. n /\ b - 1 \in G
    BY <2>1, <2>2
  <2>4. QED
    BY <2>1, <2>3
<1>2. QED
  BY <1>1

Runs(j, F, D, a, n) == /\ j = [k \in 0 .. n |-> IF k = 0 THEN a ELSE F[k][j[k - 1]]]
                       /\ \A k \in 0 .. n : j[k] \in D[k]

(* A walk that steps by F from a stays in D, and is the one there is.       *)
LEMMA Recursion ==
  ASSUME NEW n \in Nat, NEW F, NEW D, NEW a, a \in D[0],
         \A k \in 1 .. n : \A x \in D[k - 1] : F[k][x] \in D[k]
  PROVE  \E j : Runs(j, F, D, a, n)
<1> DEFINE G == {m \in 0 .. n : \E j : Runs(j, F, D, a, m)}
<1>1. 0 \in G
  <2> DEFINE j == [k \in 0 .. 0 |-> a]
  <2>1. j = [k \in 0 .. 0 |-> IF k = 0 THEN a ELSE F[k][j[k - 1]]]
    OBVIOUS
  <2>2. Runs(j, F, D, a, 0)
    BY <2>1 DEF Runs
  <2>3. QED
    BY <2>2
<1>2. ASSUME NEW m \in 1 .. n, m - 1 \in G PROVE m \in G
  <2>1. PICK j : Runs(j, F, D, a, m - 1)
    BY <1>2
  <2>2. /\ \A k \in 0 .. m - 1 : j[k] = IF k = 0 THEN a ELSE F[k][j[k - 1]]
        /\ \A k \in 0 .. m - 1 : j[k] \in D[k]
    BY <2>1 DEF Runs
  <2> DEFINE i == [k \in 0 .. m |-> IF k = m THEN F[m][j[m - 1]] ELSE j[k]]
  <2>3. \A k \in 0 .. m - 1 : i[k] = j[k]
    OBVIOUS
  <2>4. i[m] = F[m][j[m - 1]] /\ m # 0 /\ m - 1 \in 0 .. m - 1
    OBVIOUS
  <2>5. DOMAIN i = 0 .. m /\ i = [k \in 0 .. m |-> i[k]]
    OBVIOUS
  <2> HIDE DEF i
  <2>6. ASSUME NEW k \in 0 .. m
        PROVE  i[k] = (IF k = 0 THEN a ELSE F[k][i[k - 1]]) /\ i[k] \in D[k]
    <3>1. CASE k = m
      <4>1. i[m - 1] = j[m - 1] /\ j[m - 1] \in D[m - 1]
        BY <2>2, <2>3, <2>4
      <4>2. F[m][j[m - 1]] \in D[m]
        BY <4>1
      <4>3. QED
        BY <2>4, <3>1, <4>1, <4>2
    <3>2. CASE k # m
      <4>1. k \in 0 .. m - 1 /\ (k # 0 => k - 1 \in 0 .. m - 1)
        BY <3>2
      <4>2. i[k] = j[k] /\ (k # 0 => i[k - 1] = j[k - 1])
        BY <2>3, <4>1
      <4>3. QED
        BY <2>2, <4>1, <4>2
    <3>3. QED
      BY <3>1, <3>2
  <2>7. i = [k \in 0 .. m |-> IF k = 0 THEN a ELSE F[k][i[k - 1]]]
    BY <2>5, <2>6
  <2>8. Runs(i, F, D, a, m)
    BY <2>6, <2>7 DEF Runs
  <2>9. m \in 0 .. n
    OBVIOUS
  <2>10. QED
    BY <2>8, <2>9
<1>3. \A k \in 1 .. n : k - 1 \in G => k \in G
  BY <1>2
<1> HIDE DEF G
<1>4. \A k \in 0 .. n : k \in G
  BY <1>1, <1>3, Upward
<1>5. n \in G
  BY <1>4
<1>6. QED
  BY <1>5 DEF G

-----------------------------------------------------------------------------
(* Induction over the subsets of a finite set, which folds take one        *)
(* element from after another.                                             *)
AnyOf(s) == CHOOSE x \in s : TRUE

LEMMA AnyOfIs ==
  ASSUME NEW S, IsFiniteSet(S), NEW s \in SUBSET S, s # {}
  PROVE  /\ AnyOf(s) \in s /\ s \ {AnyOf(s)} \in SUBSET S
         /\ IsFiniteSet(s) /\ Cardinality(s) \in Nat /\ Cardinality(s) # 0
         /\ Cardinality(s \ {AnyOf(s)}) = Cardinality(s) - 1
<1>1. AnyOf(s) \in s
  BY DEF AnyOf
<1>2. IsFiniteSet(s)
  BY FS_Subset
<1>3. Cardinality(s) \in Nat
  BY <1>2, FS_CardinalityType
<1>4. Cardinality(s) # 0
  BY <1>1, <1>2, FS_EmptySet
<1>5. Cardinality(s \ {AnyOf(s)}) = Cardinality(s) - 1
  BY <1>1, <1>2, FS_RemoveElement
<1>6. QED
  BY <1>1, <1>2, <1>3, <1>4, <1>5

(* What holds of the empty set, and of any subset of S if it holds of the  *)
(* subset without the element that CHOOSE takes, holds of S.                *)
LEMMA ElementByElement ==
  ASSUME NEW S, IsFiniteSet(S), NEW G, {} \in G,
         \A s \in SUBSET S : s # {} /\ s \ {AnyOf(s)} \in G => s \in G
  PROVE  S \in G
<1> DEFINE n == Cardinality(S)
           H == {k \in 0 .. n : \A s \in SUBSET S : Cardinality(s) = k => s \in G}
<1>1. n \in Nat
  BY FS_CardinalityType
<1>2. \A s \in SUBSET S : Cardinality(s) = 0 => s = {}
  BY AnyOfIs
<1>3. 0 \in H
  <2>1. \A s \in SUBSET S : Cardinality(s) = 0 => s \in G
    BY <1>2
  <2>2. 0 \in 0 .. n
    BY <1>1
  <2> HIDE DEF n
  <2>3. QED
    BY <2>1, <2>2
<1>4. ASSUME NEW k \in 1 .. n, k - 1 \in H PROVE k \in H
  <2>1. ASSUME NEW s \in SUBSET S, Cardinality(s) = k PROVE s \in G
    <3>1. s # {}
      BY <1>1, <2>1, FS_EmptySet
    <3>2. s \ {AnyOf(s)} \in SUBSET S /\ Cardinality(s \ {AnyOf(s)}) = k - 1
      BY <2>1, <3>1, AnyOfIs
    <3>3. s \ {AnyOf(s)} \in G
      BY <1>4, <3>2
    <3>4. QED
      BY <3>1, <3>3
  <2>2. QED
    BY <1>1, <2>1
<1> HIDE DEF H
<1>5. \A k \in 0 .. n : k \in H
  BY <1>1, <1>3, <1>4, Upward
<1>6. n \in H
  BY <1>1, <1>5
<1>7. QED
  BY <1>6 DEF H

(* it folds F over the subsets of S from b, and stays in D.                 *)
Folds(F, D, b, S, it) ==
  /\ it = [s \in SUBSET S |-> IF s = {} THEN b ELSE F[AnyOf(s)][it[s \ {AnyOf(s)}]]]
  /\ \A s \in SUBSET S : it[s] \in D[s]

(* A fold whose steps stay in D exists.                                     *)
LEMMA FoldExists ==
  ASSUME NEW S, IsFiniteSet(S), NEW F, NEW D, NEW b, b \in D[{}],
         \A s \in SUBSET S : s # {} => \A x \in D[s \ {AnyOf(s)}] : F[AnyOf(s)][x] \in D[s]
  PROVE  \E it : Folds(F, D, b, S, it)
<1> DEFINE n == Cardinality(S)
           P(k) == {s \in SUBSET S : Cardinality(s) <= k}
           Value(s, i) == IF s = {} THEN b ELSE F[AnyOf(s)][i[s \ {AnyOf(s)}]]
           Partial(k, i) == i = [s \in P(k) |-> Value(s, i)] /\ \A s \in P(k) : i[s] \in D[s]
           H == {k \in 0 .. n : \E it : Partial(k, it)}
<1>1. n \in Nat
  BY FS_CardinalityType
<1>2. \A s \in SUBSET S : /\ Cardinality(s) \in Nat /\ Cardinality(s) <= n
                          /\ s # {} => /\ Cardinality(s) # 0 /\ s \ {AnyOf(s)} \in SUBSET S
                                       /\ Cardinality(s \ {AnyOf(s)}) = Cardinality(s) - 1
  <2> TAKE s \in SUBSET S
  <2>1. IsFiniteSet(s) /\ Cardinality(s) <= n
    BY FS_Subset
  <2>2. Cardinality(s) \in Nat
    BY <2>1, FS_CardinalityType
  <2>3. s # {} => /\ Cardinality(s) # 0 /\ s \ {AnyOf(s)} \in SUBSET S
                  /\ Cardinality(s \ {AnyOf(s)}) = Cardinality(s) - 1
    BY AnyOfIs
  <2>4. QED
    BY <2>1, <2>2, <2>3
<1>3. 0 \in H
  <2>1. ASSUME NEW s \in P(0) PROVE s = {}
    <3>1. s \in SUBSET S /\ Cardinality(s) <= 0
      OBVIOUS
    <3>2. Cardinality(s) \in Nat
      BY <1>2, <3>1
    <3>a. Cardinality(s) = 0
      BY <3>1, <3>2
    <3>3. QED
      BY <1>2, <3>1, <3>a
  <2> DEFINE it == [s \in P(0) |-> b]
  <2>2. \A s \in P(0) : s = {}
    BY <2>1
  <2> HIDE DEF P
  <2>3. \A s \in P(0) : it[s] = Value(s, it) /\ it[s] \in D[s]
    BY <2>2
  <2>4. it = [s \in P(0) |-> it[s]]
    OBVIOUS
  <2> HIDE DEF it, Value
  <2>5. Partial(0, it)
    BY <2>3, <2>4
  <2>6. 0 \in 0 .. n
    BY <1>1
  <2>7. QED
    BY <2>5, <2>6
<1>4. ASSUME NEW k \in 1 .. n, k - 1 \in H PROVE k \in H
  <2>1. PICK it : Partial(k - 1, it)
    BY <1>4
  <2> DEFINE jt == [s \in P(k) |-> Value(s, it)]
  <2>2. k \in Nat /\ k - 1 \in Nat /\ k \in 0 .. n
    BY <1>1
  <2>3. P(k - 1) \subseteq P(k) /\ \A s \in P(k) : s # {} => s \ {AnyOf(s)} \in P(k - 1)
    <3>1. ASSUME NEW s \in P(k - 1) PROVE s \in P(k)
      <4>1. s \in SUBSET S /\ Cardinality(s) \in Nat /\ Cardinality(s) <= k - 1
        BY <1>2
      <4>2. Cardinality(s) <= k
        BY <2>2, <4>1
      <4>3. QED
        BY <4>1, <4>2
    <3>2. ASSUME NEW s \in P(k), s # {} PROVE s \ {AnyOf(s)} \in P(k - 1)
      <4> DEFINE r == s \ {AnyOf(s)}
      <4>1. s \in SUBSET S /\ Cardinality(s) <= k
        OBVIOUS
      <4>2. Cardinality(s) \in Nat /\ r \in SUBSET S /\ Cardinality(r) = Cardinality(s) - 1
        BY <1>2, <3>2, <4>1
      <4> HIDE DEF r
      <4>3. Cardinality(r) <= k - 1
        BY <2>2, <4>1, <4>2
      <4>4. r \in P(k - 1)
        BY <4>2, <4>3
      <4>5. QED
        BY <4>4 DEF r
    <3>3. QED
      BY <3>1, <3>2
  <2>4. \A s \in P(k) : s \in SUBSET S
    OBVIOUS
  <2> HIDE DEF P
  <2>5. \A s \in P(k - 1) : it[s] = Value(s, it) /\ it[s] \in D[s]
    BY <2>1
  <2>6. \A s \in P(k) : jt[s] = Value(s, it)
    OBVIOUS
  <2>7. \A s \in P(k - 1) : jt[s] = it[s]
    BY <2>3, <2>5, <2>6
  <2>8. jt = [s \in P(k) |-> jt[s]]
    OBVIOUS
  <2> HIDE DEF jt
  <2>9. ASSUME NEW s \in P(k) PROVE jt[s] = Value(s, jt) /\ jt[s] \in D[s]
    <3>1. CASE s = {}
      BY <2>6, <3>1
    <3>2. CASE s # {}
      <4>1. PICK r : r = s \ {AnyOf(s)}
        OBVIOUS
      <4>2. r \in P(k - 1)
        BY <2>3, <3>2, <4>1
      <4>3. jt[r] = it[r] /\ it[r] \in D[r]
        BY <2>5, <2>7, <4>2
      <4>4. jt[s] = F[AnyOf(s)][it[r]] /\ Value(s, jt) = F[AnyOf(s)][jt[r]]
        BY <2>6, <3>2, <4>1
      <4>5. F[AnyOf(s)][it[r]] \in D[s]
        BY <2>4, <3>2, <4>1, <4>3
      <4>6. QED
        BY <4>3, <4>4, <4>5
    <3>3. QED
      BY <3>1, <3>2
  <2> HIDE DEF Value
  <2>10. Partial(k, jt)
    BY <2>8, <2>9
  <2>11. QED
    BY <2>2, <2>10
<1>5. n \in 0 .. n
  BY <1>1
<1> HIDE DEF H
<1>6. \A k \in 0 .. n : k \in H
  BY <1>1, <1>3, <1>4, Upward
<1>7. n \in H
  BY <1>5, <1>6
<1>8. PICK it : Partial(n, it)
  BY <1>7 DEF H
<1>9. P(n) = SUBSET S
  BY <1>2
<1>10. Folds(F, D, b, S, it)
  BY <1>8, <1>9 DEF Folds
<1>11. QED
  BY <1>10

-----------------------------------------------------------------------------
(* Sums.                                                                    *)
Adding(f, S, it) ==
  \A s \in SUBSET S : it[s] \in Int /\ it[s] = IF s = {} THEN 0 ELSE f[AnyOf(s)] + it[s \ {AnyOf(s)}]

LEMMA SumIs ==
  ASSUME NEW S, IsFiniteSet(S), NEW f \in [S -> Int]
  PROVE  \E it : Adding(f, S, it) /\ SumOf(f) = it[S]
<1> DEFINE Q(i) == i = [s \in SUBSET S |-> IF s = {} THEN 0 ELSE f[AnyOf(s)] + i[s \ {AnyOf(s)}]]
           it == CHOOSE i : Q(i)
           F == [x \in S |-> [n \in Int |-> f[x] + n]]
           D == [s \in SUBSET S |-> Int]
<1>1. SumOf(f) = it[S]
  <2>1. DOMAIN f = S
    OBVIOUS
  <2>2. QED
    BY <2>1 DEF SumOf, FoldFunction, FoldFunctionOnSet, MapThenFoldSet, AnyOf
<1>2. 0 \in D[{}]
  OBVIOUS
<1>3. ASSUME NEW s \in SUBSET S, s # {} PROVE \A n \in D[s \ {AnyOf(s)}] : F[AnyOf(s)][n] \in D[s]
  <2>1. AnyOf(s) \in S /\ s \ {AnyOf(s)} \in SUBSET S
    BY <1>3, AnyOfIs
  <2>2. f[AnyOf(s)] \in Int
    BY <2>1
  <2>3. D[s] = Int /\ D[s \ {AnyOf(s)}] = Int
    BY <2>1
  <2>4. \A n \in Int : F[AnyOf(s)][n] = f[AnyOf(s)] + n
    BY <2>1
  <2> HIDE DEF F, D
  <2>5. QED
    BY <2>2, <2>3, <2>4
<1> HIDE DEF F, D
<1>4. PICK j : Folds(F, D, 0, S, j)
  BY <1>2, <1>3, FoldExists
<1>5. \A s \in SUBSET S : j[s] \in Int
  BY <1>4 DEF Folds, D
<1>6. ASSUME NEW s \in SUBSET S, s # {}
      PROVE  F[AnyOf(s)][j[s \ {AnyOf(s)}]] = f[AnyOf(s)] + j[s \ {AnyOf(s)}]
  <2>1. AnyOf(s) \in S /\ s \ {AnyOf(s)} \in SUBSET S
    BY <1>6, AnyOfIs
  <2>2. j[s \ {AnyOf(s)}] \in Int
    BY <1>5, <2>1
  <2>3. QED
    BY <2>1, <2>2 DEF F
<1>7. Q(j)
  BY <1>4, <1>6 DEF Folds
<1>8. Q(it)
  BY <1>7
<1> HIDE DEF it
<1>9. \A s \in SUBSET S : j[s] = IF s = {} THEN 0 ELSE f[AnyOf(s)] + j[s \ {AnyOf(s)}]
  BY <1>7
<1>10. \A s \in SUBSET S : it[s] = IF s = {} THEN 0 ELSE f[AnyOf(s)] + it[s \ {AnyOf(s)}]
  BY <1>8
<1>11. \A s \in SUBSET S : it[s] = j[s]
  <2> DEFINE G == {s \in SUBSET S : it[s] = j[s]}
  <2>1. \A r \in SUBSET S : r \in G
    <3> TAKE r \in SUBSET S
    <3>1. IsFiniteSet(r)
      BY FS_Subset
    <3>2. {} \in G
      BY <1>9, <1>10
    <3>3. \A s \in SUBSET r : s # {} /\ s \ {AnyOf(s)} \in G => s \in G
      BY <1>9, <1>10
    <3> HIDE DEF G
    <3>4. QED
      BY <3>1, <3>2, <3>3, ElementByElement
  <2>2. QED
    BY <2>1
<1>12. Adding(f, S, it)
  BY <1>5, <1>10, <1>11 DEF Adding
<1>13. QED
  BY <1>1, <1>12

(* Whichever element is added last.                                         *)
AnyLast(f, S, it) == \A s \in SUBSET S : \A y \in s : it[s] = f[y] + it[s \ {y}]

LEMMA AnyOrder ==
  ASSUME NEW S, IsFiniteSet(S), NEW f \in [S -> Int], NEW it, Adding(f, S, it)
  PROVE  AnyLast(f, S, it)
<1> DEFINE n == Cardinality(S)
           Free(s) == \A y \in s : it[s] = f[y] + it[s \ {y}]
           G == {k \in 0 .. n : \A s \in SUBSET S : Cardinality(s) = k => Free(s)}
<1>1. n \in Nat
  BY FS_CardinalityType
<1>2. \A s \in SUBSET S : IsFiniteSet(s) /\ Cardinality(s) \in 0 .. n
  <2> TAKE s \in SUBSET S
  <2>1. IsFiniteSet(s) /\ Cardinality(s) <= n
    BY FS_Subset
  <2>2. Cardinality(s) \in Nat
    BY <2>1, FS_CardinalityType
  <2> HIDE DEF n
  <2>3. QED
    BY <1>1, <2>1, <2>2
<1>3. \A s \in SUBSET S : \A y \in s : Cardinality(s \ {y}) = Cardinality(s) - 1
  <2> TAKE s \in SUBSET S
  <2> TAKE y \in s
  <2>1. QED
    BY <1>2, FS_RemoveElement
<1> HIDE DEF n
<1>4. 0 \in G
  <2>1. ASSUME NEW s \in SUBSET S, Cardinality(s) = 0 PROVE Free(s)
    <3>1. s = {}
      BY <1>2, <2>1, FS_EmptySet
    <3>2. QED
      BY <3>1
  <2>2. 0 \in 0 .. n
    BY <1>1
  <2> HIDE DEF Free
  <2>3. QED
    BY <2>1, <2>2
<1>5. ASSUME NEW k \in 1 .. n, k - 1 \in G PROVE k \in G
  <2>1. ASSUME NEW s \in SUBSET S, Cardinality(s) = k, NEW y \in s PROVE it[s] = f[y] + it[s \ {y}]
    <3>1. PICK a : a = AnyOf(s)
      OBVIOUS
    <3>2. PICK p : p = s \ {a}
      OBVIOUS
    <3>3. PICK q : q = s \ {y}
      OBVIOUS
    <3>4. PICK r : r = p \ {y}
      OBVIOUS
    <3>5. a \in s
      BY <2>1, <3>1, AnyOfIs
    <3>6. a \in S /\ y \in S /\ p \in SUBSET S /\ q \in SUBSET S /\ r \in SUBSET S
      BY <3>2, <3>3, <3>4, <3>5
    <3>7. Cardinality(p) = k - 1 /\ Cardinality(q) = k - 1
      BY <1>3, <2>1, <3>2, <3>3, <3>5
    <3>8. Free(p) /\ Free(q)
      BY <1>5, <3>6, <3>7
    <3>9. it[s] = f[a] + it[p] /\ it[p] \in Int /\ it[q] \in Int /\ it[r] \in Int
      BY <3>1, <3>2, <3>6 DEF Adding
    <3>10. f[a] \in Int /\ f[y] \in Int
      BY <3>6
    <3>11. CASE a = y
      BY <3>2, <3>9, <3>11
    <3>12. CASE a # y
      <4>1. y \in p /\ a \in q /\ q \ {a} = r
        BY <2>1, <3>2, <3>3, <3>4, <3>5, <3>12
      <4>2. it[p] = f[y] + it[r]
        BY <3>4, <3>8, <4>1
      <4>3. it[q] = f[a] + it[r]
        BY <3>8, <4>1
      <4>4. it[s] = f[y] + it[q]
        BY <3>9, <3>10, <4>2, <4>3
      <4>5. QED
        BY <3>3, <4>4
    <3>13. QED
      BY <3>11, <3>12
  <2>2. k \in 0 .. n
    BY <1>1
  <2>3. QED
    BY <2>1, <2>2
<1> HIDE DEF G
<1>6. \A k \in 0 .. n : k \in G
  BY <1>1, <1>4, <1>5, Upward
<1>7. \A s \in SUBSET S : Cardinality(s) \in G
  BY <1>2, <1>6
<1>8. QED
  BY <1>7 DEF G, AnyLast

(* A sum is a number, 0 of nothing, and one more element adds what it is.   *)
LEMMA SumType ==
  ASSUME NEW S, IsFiniteSet(S), NEW f \in [S -> Int]
  PROVE  SumOf(f) \in Int /\ (S = {} => SumOf(f) = 0)
<1>1. PICK it : Adding(f, S, it) /\ SumOf(f) = it[S]
  BY SumIs
<1>2. S \in SUBSET S
  OBVIOUS
<1>3. QED
  BY <1>1, <1>2 DEF Adding

Extends(f, S, x, g, R) ==
  /\ IsFiniteSet(S) /\ x \in S /\ R = S \ {x}
  /\ f \in [S -> Int] /\ g \in [R -> Int] /\ \A y \in R : g[y] = f[y]

LEMMA SumWith ==
  ASSUME NEW S, NEW x, NEW R, NEW f, NEW g, Extends(f, S, x, g, R)
  PROVE  SumOf(f) = SumOf(g) + f[x]
<1>a. /\ IsFiniteSet(S) /\ x \in S /\ R = S \ {x}
      /\ f \in [S -> Int] /\ g \in [R -> Int] /\ \A y \in R : g[y] = f[y]
  BY DEF Extends
<1>0. IsFiniteSet(R) /\ R \in SUBSET S
  BY <1>a, FS_Subset
<1>1. PICK it : Adding(f, S, it) /\ SumOf(f) = it[S]
  BY <1>a, SumIs
<1>2. PICK jt : Adding(g, R, jt) /\ SumOf(g) = jt[R]
  BY <1>0, <1>a, SumIs
<1> DEFINE G == {s \in SUBSET R : it[s] = jt[s]}
<1>3. {} \in G
  <2>1. {} \in SUBSET S /\ {} \in SUBSET R
    OBVIOUS
  <2>2. QED
    BY <1>1, <1>2, <2>1 DEF Adding
<1>4. ASSUME NEW s \in SUBSET R, s # {}, s \ {AnyOf(s)} \in G PROVE s \in G
  <2>1. PICK a : a = AnyOf(s)
    OBVIOUS
  <2>2. PICK r : r = s \ {a}
    OBVIOUS
  <2>3. a \in s /\ a \in R /\ s \in SUBSET S
    BY <1>0, <1>4, <2>1, AnyOfIs
  <2>4. it[s] = f[a] + it[r]
    BY <1>1, <1>4, <2>1, <2>2, <2>3 DEF Adding
  <2>5. jt[s] = g[a] + jt[r]
    BY <1>2, <1>4, <2>1, <2>2, <2>3 DEF Adding
  <2>6. it[r] = jt[r]
    BY <1>4, <2>1, <2>2
  <2>7. g[a] = f[a]
    BY <1>a, <2>3
  <2>8. QED
    BY <2>4, <2>5, <2>6, <2>7
<1> HIDE DEF G
<1>5. R \in G
  BY <1>0, <1>3, <1>4, ElementByElement
<1>6. it[R] = jt[R]
  BY <1>5 DEF G
<1>7. it[S] = f[x] + it[R]
  <2>1. S \in SUBSET S
    OBVIOUS
  <2>2. IsFiniteSet(S) /\ f \in [S -> Int] /\ Adding(f, S, it)
    BY <1>1, <1>a
  <2>3. AnyLast(f, S, it)
    BY <2>2, AnyOrder
  <2>4. QED
    BY <1>a, <2>1, <2>3 DEF AnyLast
<1>8. jt[R] \in Int /\ f[x] \in Int
  BY <1>2, <1>a DEF Adding
<1>9. QED
  BY <1>1, <1>2, <1>6, <1>7, <1>8

(* Renaming what is summed over.                                            *)
LEMMA SumRenamed ==
  ASSUME NEW S, IsFiniteSet(S), NEW T, NEW s \in [S -> T],
         \A i, j \in S : s[i] = s[j] => i = j, \A y \in T : \E i \in S : s[i] = y,
         NEW f \in [S -> Int], NEW g \in [T -> Int], \A i \in S : g[s[i]] = f[i]
  PROVE  IsFiniteSet(T) /\ SumOf(f) = SumOf(g)
<1> DEFINE To(r) == {s[i] : i \in r}
           G == {r \in SUBSET S : /\ IsFiniteSet(To(r))
                                  /\ SumOf([i \in r |-> f[i]]) = SumOf([y \in To(r) |-> g[y]])}
<1>1. {} \in G
  <2>1. PICK e : e = To({})
    OBVIOUS
  <2>2. e = {}
    BY <2>1
  <2>3. IsFiniteSet(e)
    BY <2>2, FS_EmptySet
  <2>4. SumOf([i \in {} |-> f[i]]) = 0 /\ SumOf([y \in e |-> g[y]]) = 0
    BY <2>2, <2>3, SumType
  <2>5. QED
    BY <2>1, <2>3, <2>4
<1>2. ASSUME NEW r \in SUBSET S, r # {}, r \ {AnyOf(r)} \in G PROVE r \in G
  <2>1. PICK a : a = AnyOf(r)
    OBVIOUS
  <2>2. PICK q : q = r \ {a}
    OBVIOUS
  <2>3. PICK U : U = To(r)
    OBVIOUS
  <2>4. PICK V : V = To(q)
    OBVIOUS
  <2>5. a \in r /\ a \in S /\ IsFiniteSet(r) /\ q \in SUBSET S
    BY <1>2, <2>1, <2>2, AnyOfIs
  <2>6. s[a] \in U /\ V = U \ {s[a]} /\ U = V \cup {s[a]} /\ U \subseteq T /\ V \subseteq T /\ s[a] \in T
    BY <2>2, <2>3, <2>4, <2>5
  <2>7. IsFiniteSet(V) /\ SumOf([i \in q |-> f[i]]) = SumOf([y \in V |-> g[y]])
    BY <1>2, <2>1, <2>2, <2>4
  <2>8. IsFiniteSet(U)
    <3>1. IsFiniteSet(V \cup {s[a]})
      BY <2>7, FS_AddElement
    <3>2. QED
      BY <2>6, <3>1
  <2>9. SumOf([i \in r |-> f[i]]) = SumOf([i \in q |-> f[i]]) + f[a]
    <3>1. PICK h : h = [i \in r |-> f[i]]
      OBVIOUS
    <3>2. PICK k : k = [i \in q |-> f[i]]
      OBVIOUS
    <3>3. Extends(h, r, a, k, q)
      BY <2>2, <2>5, <3>1, <3>2 DEF Extends
    <3>4. SumOf(h) = SumOf(k) + h[a]
      BY <3>3, SumWith
    <3>5. QED
      BY <2>5, <3>1, <3>2, <3>4
  <2>10. SumOf([y \in U |-> g[y]]) = SumOf([y \in V |-> g[y]]) + g[s[a]]
    <3>1. PICK h : h = [y \in U |-> g[y]]
      OBVIOUS
    <3>2. PICK k : k = [y \in V |-> g[y]]
      OBVIOUS
    <3>3. Extends(h, U, s[a], k, V)
      BY <2>6, <2>8, <3>1, <3>2 DEF Extends
    <3>4. SumOf(h) = SumOf(k) + h[s[a]]
      BY <3>3, SumWith
    <3>5. QED
      BY <2>6, <3>1, <3>2, <3>4
  <2>11. g[s[a]] = f[a]
    BY <2>5
  <2>12. QED
    BY <2>3, <2>7, <2>8, <2>9, <2>10, <2>11
<1>3. To(S) = T
  OBVIOUS
<1> HIDE DEF G
<1>4. S \in G
  BY <1>1, <1>2, ElementByElement
<1>5. IsFiniteSet(T) /\ SumOf([i \in S |-> f[i]]) = SumOf([y \in T |-> g[y]])
  BY <1>3, <1>4 DEF G
<1>6. [i \in S |-> f[i]] = f /\ [y \in T |-> g[y]] = g
  OBVIOUS
<1>7. QED
  BY <1>5, <1>6

(* Sums of the first k.                                                     *)
Part(f, k) == SumOf([i \in 1 .. k |-> f[i]])

LEMMA Parts ==
  ASSUME NEW n \in Nat, NEW f \in [1 .. n -> Int]
  PROVE  /\ Part(f, 0) = 0 /\ Part(f, n) = SumOf(f)
         /\ \A k \in 0 .. n : Part(f, k) \in Int
         /\ \A k \in 1 .. n : Part(f, k) = Part(f, k - 1) + f[k]
<1>1. \A k \in 0 .. n : IsFiniteSet(1 .. k) /\ [i \in 1 .. k |-> f[i]] \in [1 .. k -> Int]
  <2> TAKE k \in 0 .. n
  <2>1. k \in Int /\ 1 \in Int
    OBVIOUS
  <2>2. IsFiniteSet(1 .. k)
    BY <2>1, FS_Interval
  <2>3. QED
    BY <2>2
<1>2. \A k \in 0 .. n : Part(f, k) \in Int /\ (1 .. k = {} => Part(f, k) = 0)
  <2> TAKE k \in 0 .. n
  <2>1. PICK g : g = [i \in 1 .. k |-> f[i]]
    OBVIOUS
  <2>2. SumOf(g) \in Int /\ (1 .. k = {} => SumOf(g) = 0)
    BY <1>1, <2>1, SumType
  <2>3. QED
    BY <2>1, <2>2 DEF Part
<1>3. Part(f, 0) = 0
  <2>1. 1 .. 0 = {} /\ 0 \in 0 .. n
    OBVIOUS
  <2>2. QED
    BY <1>2, <2>1
<1>4. Part(f, n) = SumOf(f)
  <2>1. [i \in 1 .. n |-> f[i]] = f
    OBVIOUS
  <2>2. QED
    BY <2>1 DEF Part
<1>5. ASSUME NEW k \in 1 .. n PROVE Part(f, k) = Part(f, k - 1) + f[k]
  <2>1. PICK g : g = [i \in 1 .. k |-> f[i]]
    OBVIOUS
  <2>2. PICK h : h = [i \in 1 .. (k - 1) |-> f[i]]
    OBVIOUS
  <2>3. 1 .. (k - 1) = (1 .. k) \ {k} /\ k \in 1 .. k /\ k \in 0 .. n /\ k - 1 \in 0 .. n
    OBVIOUS
  <2>4. g \in [1 .. k -> Int] /\ h \in [1 .. (k - 1) -> Int] /\ IsFiniteSet(1 .. k)
    BY <1>1, <2>1, <2>2, <2>3
  <2>5. Extends(g, 1 .. k, k, h, 1 .. (k - 1))
    BY <2>1, <2>2, <2>3, <2>4 DEF Extends
  <2>6. SumOf(g) = SumOf(h) + g[k]
    BY <2>5, SumWith
  <2>7. g[k] = f[k]
    BY <2>1
  <2>8. QED
    BY <2>1, <2>2, <2>6, <2>7 DEF Part
<1>6. QED
  BY <1>2, <1>3, <1>4, <1>5

(* Sums of the opposites, of zeros, of absolute values.                     *)
LEMMA PartsOpposite ==
  ASSUME NEW n \in Nat, NEW f \in [1 .. n -> Int], NEW g \in [1 .. n -> Int],
         \A i \in 1 .. n : g[i] = -f[i]
  PROVE  SumOf(g) = -SumOf(f)
<1> DEFINE G == {k \in 0 .. n : Part(g, k) = -Part(f, k)}
<1>1. /\ Part(f, 0) = 0 /\ Part(f, n) = SumOf(f) /\ \A k \in 0 .. n : Part(f, k) \in Int
      /\ \A k \in 1 .. n : Part(f, k) = Part(f, k - 1) + f[k]
  BY Parts
<1>2. /\ Part(g, 0) = 0 /\ Part(g, n) = SumOf(g) /\ \A k \in 0 .. n : Part(g, k) \in Int
      /\ \A k \in 1 .. n : Part(g, k) = Part(g, k - 1) + g[k]
  BY Parts
<1>3. 0 \in G
  BY <1>1, <1>2
<1>4. ASSUME NEW k \in 1 .. n, k - 1 \in G PROVE k \in G
  <2>1. /\ Part(f, k) = Part(f, k - 1) + f[k] /\ Part(g, k) = Part(g, k - 1) - f[k]
        /\ f[k] \in Int /\ k \in 0 .. n /\ k - 1 \in 0 .. n
    BY <1>1, <1>2
  <2>2. Part(f, k - 1) \in Int /\ Part(g, k - 1) = -Part(f, k - 1)
    BY <1>1, <1>4, <2>1
  <2>3. QED
    BY <2>1, <2>2
<1> HIDE DEF G
<1>5. n \in G
  <2>1. \A k \in 0 .. n : k \in G
    BY <1>3, <1>4, Upward
  <2>2. QED
    BY <2>1
<1>6. QED
  BY <1>1, <1>2, <1>5 DEF G

LEMMA PartsSame ==
  ASSUME NEW n \in Nat, NEW f \in [1 .. n -> Int], NEW m \in 0 .. n, NEW g \in [1 .. m -> Int],
         \A i \in 1 .. m : g[i] = f[i]
  PROVE  Part(f, m) = SumOf(g)
<1>1. [i \in 1 .. m |-> f[i]] = g
  OBVIOUS
<1>2. QED
  BY <1>1 DEF Part

LEMMA PartsZero ==
  ASSUME NEW n \in Nat, NEW f \in [1 .. n -> Int], NEW m \in 0 .. n, \A i \in 1 .. m : f[i] = 0
  PROVE  Part(f, m) = 0
<1> DEFINE G == {k \in 0 .. m : Part(f, k) = 0}
<1>1. Part(f, 0) = 0 /\ \A k \in 1 .. n : Part(f, k) = Part(f, k - 1) + f[k]
  BY Parts
<1>2. 0 \in G
  BY <1>1
<1>3. ASSUME NEW k \in 1 .. m, k - 1 \in G PROVE k \in G
  BY <1>1, <1>3
<1> HIDE DEF G
<1>4. m \in G
  <2>1. m \in Nat
    OBVIOUS
  <2>2. \A k \in 0 .. m : k \in G
    BY <2>1, <1>2, <1>3, Upward
  <2>3. QED
    BY <2>2
<1>5. QED
  BY <1>4 DEF G

LEMMA PartsAbs ==
  ASSUME NEW n \in Nat, NEW f \in [1 .. n -> Int], NEW g \in [1 .. n -> Int],
         \A i \in 1 .. n : g[i] = Abs(f[i])
  PROVE  \A k \in 0 .. n : Part(f, k) >= -SumOf(g)
<1>1. /\ Part(f, 0) = 0 /\ \A k \in 0 .. n : Part(f, k) \in Int
      /\ \A k \in 1 .. n : Part(f, k) = Part(f, k - 1) + f[k]
  BY Parts
<1>2. /\ Part(g, 0) = 0 /\ Part(g, n) = SumOf(g) /\ \A k \in 0 .. n : Part(g, k) \in Int
      /\ \A k \in 1 .. n : Part(g, k) = Part(g, k - 1) + g[k]
  BY Parts
<1>3. \A i \in 1 .. n : f[i] \in Int /\ g[i] \in Int /\ g[i] >= 0 /\ f[i] >= -g[i]
  BY DEF Abs
<1> DEFINE G == {k \in 0 .. n : Part(f, k) >= -Part(g, k)}
           H == {k \in 0 .. n : Part(g, n - k) <= SumOf(g)}
<1>4. 0 \in G /\ 0 \in H
  BY <1>1, <1>2
<1>5. ASSUME NEW k \in 1 .. n, k - 1 \in G PROVE k \in G
  <2>1. /\ Part(f, k) = Part(f, k - 1) + f[k] /\ Part(g, k) = Part(g, k - 1) + g[k]
        /\ k \in 0 .. n /\ k - 1 \in 0 .. n
    BY <1>1, <1>2
  <2>2. Part(f, k - 1) \in Int /\ Part(g, k - 1) \in Int /\ Part(f, k - 1) >= -Part(g, k - 1)
    BY <1>1, <1>2, <1>5, <2>1
  <2>3. f[k] \in Int /\ g[k] \in Int /\ f[k] >= -g[k]
    BY <1>3
  <2>4. Part(f, k) >= -Part(g, k)
    BY <2>1, <2>2, <2>3
  <2>5. QED
    BY <2>1, <2>4
<1>6. ASSUME NEW k \in 1 .. n, k - 1 \in H PROVE k \in H
  <2>1. PICK j : j = n - (k - 1)
    OBVIOUS
  <2>2. j \in 1 .. n /\ j - 1 = n - k /\ j \in 0 .. n /\ j - 1 \in 0 .. n /\ k \in 0 .. n
    BY <2>1
  <2>3. Part(g, j) = Part(g, j - 1) + g[j] /\ g[j] >= 0 /\ g[j] \in Int
    BY <1>2, <1>3, <2>2
  <2>4. Part(g, j) <= SumOf(g) /\ Part(g, j) \in Int /\ Part(g, j - 1) \in Int /\ SumOf(g) \in Int
    BY <1>2, <1>6, <2>1, <2>2
  <2>5. Part(g, n - k) <= SumOf(g)
    BY <2>2, <2>3, <2>4
  <2>6. QED
    BY <2>2, <2>5
<1> HIDE DEF G, H
<1>7. \A k \in 0 .. n : k \in G
  BY <1>4, <1>5, Upward
<1>8. \A k \in 0 .. n : k \in H
  BY <1>4, <1>6, Upward
<1>9. ASSUME NEW k \in 0 .. n PROVE Part(f, k) >= -SumOf(g)
  <2>1. n - k \in 0 .. n /\ n - (n - k) = k
    OBVIOUS
  <2>2. Part(g, k) <= SumOf(g)
    BY <1>8, <2>1 DEF H
  <2>3. Part(f, k) >= -Part(g, k)
    BY <1>7 DEF G
  <2>4. Part(f, k) \in Int /\ Part(g, k) \in Int /\ SumOf(g) \in Int
    BY <1>1, <1>2
  <2>5. QED
    BY <2>2, <2>3, <2>4
<1>10. QED
  BY <1>9

-----------------------------------------------------------------------------
(* Lists of things.                                                         *)
Before(s, x, y) == \E i, j \in DOMAIN s : i <= j /\ s[i] = x /\ s[j] = y

LEMMA SeqIs ==
  ASSUME NEW s \in Seq(Objs)
  PROVE  /\ Len(s) \in Nat /\ DOMAIN s = 1 .. Len(s)
         /\ \A k \in 1 .. Len(s) : s[k] \in Objs /\ s[k] \in ToSet(s)
         /\ \A x \in ToSet(s) : x \in Objs /\ \E k \in 1 .. Len(s) : s[k] = x
         /\ ToSet(s) \subseteq Objs
  BY DEF ToSet

(* t is s with o in front; without o.                                       *)
Prepended(s, o, t) ==
  /\ t \in Seq(Objs) /\ ToSet(t) = ToSet(s) \cup {o}
  /\ IsInjective(s) /\ o \notin ToSet(s) => IsInjective(t)
  /\ \A x, y : Before(s, x, y) => Before(t, x, y)
  /\ \A y \in ToSet(t) : Before(t, o, y)

Removed(s, o, t) ==
  /\ t \in Seq(Objs) /\ IsInjective(t) /\ ToSet(t) = ToSet(s) \ {o}
  /\ \A x, y \in ToSet(t) : Before(s, x, y) => Before(t, x, y)

LEMMA InFront ==
  ASSUME NEW s \in Seq(Objs), NEW o \in Objs
  PROVE  Prepended(s, o, <<o>> \o s)
<1>1. PICK n : n = Len(s)
  OBVIOUS
<1>2. PICK t : t = <<o>> \o s
  OBVIOUS
<1>3. n \in Nat /\ DOMAIN s = 1 .. n /\ \A k \in 1 .. n : s[k] \in Objs /\ s[k] \in ToSet(s)
  BY <1>1, SeqIs
<1>4. \A x \in ToSet(s) : \E k \in 1 .. n : s[k] = x
  BY <1>1, SeqIs
<1>5. t \in Seq(Objs) /\ Len(t) = n + 1 /\ t[1] = o /\ \A k \in 1 .. n : t[k + 1] = s[k]
  BY <1>1, <1>2
<1>6. DOMAIN t = 1 .. (n + 1) /\ \A k \in 1 .. (n + 1) : k = 1 \/ (k - 1 \in 1 .. n /\ t[k] = s[k - 1])
  <2>1. DOMAIN t = 1 .. (n + 1)
    BY <1>5, SeqIs
  <2>2. ASSUME NEW k \in 1 .. (n + 1), k # 1 PROVE k - 1 \in 1 .. n /\ t[k] = s[k - 1]
    <3>1. k - 1 \in 1 .. n /\ (k - 1) + 1 = k
      BY <1>3, <2>2
    <3>2. QED
      BY <1>5, <3>1
  <2>3. QED
    BY <2>1, <2>2
<1>7. ToSet(t) = ToSet(s) \cup {o}
  <2>1. ASSUME NEW x \in ToSet(t) PROVE x \in ToSet(s) \cup {o}
    <3>1. PICK k \in 1 .. (n + 1) : t[k] = x
      BY <1>6 DEF ToSet
    <3>2. CASE k = 1
      BY <1>5, <3>1, <3>2
    <3>3. CASE k # 1
      <4>1. k - 1 \in 1 .. n /\ x = s[k - 1]
        BY <1>6, <3>1, <3>3
      <4>2. QED
        BY <1>3, <4>1
    <3>4. QED
      BY <3>2, <3>3
  <2>2. ASSUME NEW x \in ToSet(s) PROVE x \in ToSet(t)
    <3>1. PICK k \in 1 .. n : s[k] = x
      BY <1>4
    <3>2. t[k + 1] = x /\ k + 1 \in 1 .. (n + 1)
      BY <1>3, <1>5, <3>1
    <3>3. QED
      BY <1>6, <3>2 DEF ToSet
  <2>3. o \in ToSet(t)
    <3>1. 1 \in 1 .. (n + 1)
      BY <1>3
    <3>2. QED
      BY <1>5, <1>6, <3>1 DEF ToSet
  <2>4. QED
    BY <2>1, <2>2, <2>3
<1>8. ASSUME IsInjective(s), o \notin ToSet(s) PROVE IsInjective(t)
  <2>1. \A i, j \in 1 .. n : s[i] = s[j] => i = j
    BY <1>3, <1>8 DEF IsInjective
  <2>2. ASSUME NEW i \in 1 .. (n + 1), NEW j \in 1 .. (n + 1), t[i] = t[j] PROVE i = j
    <3>1. CASE i = 1
      BY <1>3, <1>5, <1>6, <1>8, <2>2, <3>1
    <3>2. CASE j = 1
      BY <1>3, <1>5, <1>6, <1>8, <2>2, <3>2
    <3>3. CASE i # 1 /\ j # 1
      <4>1. i - 1 \in 1 .. n /\ j - 1 \in 1 .. n /\ s[i - 1] = s[j - 1]
        BY <1>6, <2>2, <3>3
      <4>2. i - 1 = j - 1
        BY <2>1, <4>1
      <4>3. QED
        BY <4>2
    <3>4. QED
      BY <3>1, <3>2, <3>3
  <2>3. QED
    BY <1>6, <2>2 DEF IsInjective
<1>9. ASSUME NEW x, NEW y, Before(s, x, y) PROVE Before(t, x, y)
  <2>1. PICK i \in 1 .. n, j \in 1 .. n : i <= j /\ s[i] = x /\ s[j] = y
    BY <1>3, <1>9 DEF Before
  <2>2. i + 1 \in 1 .. (n + 1) /\ j + 1 \in 1 .. (n + 1) /\ i + 1 <= j + 1
    BY <1>3, <2>1
  <2>3. t[i + 1] = x /\ t[j + 1] = y
    BY <1>5, <2>1
  <2>4. QED
    BY <1>6, <2>2, <2>3 DEF Before
<1>10. ASSUME NEW y \in ToSet(t) PROVE Before(t, o, y)
  <2>1. PICK j \in 1 .. (n + 1) : t[j] = y
    BY <1>6 DEF ToSet
  <2>2. 1 \in 1 .. (n + 1) /\ 1 <= j
    BY <1>3, <2>1
  <2>3. QED
    BY <1>5, <1>6, <2>1, <2>2 DEF Before
<1>11. Prepended(s, o, t)
  BY <1>5, <1>7, <1>8, <1>9, <1>10 DEF Prepended
<1>12. QED
  BY <1>2, <1>11

LEMMA RemoveAtIs ==
  ASSUME NEW s \in Seq(Objs), NEW k \in 1 .. Len(s), NEW t, t = RemoveAt(s, k)
  PROVE  /\ t \in Seq(Objs) /\ Len(t) = Len(s) - 1
         /\ \A i \in 1 .. (Len(s) - 1) : t[i] = IF i < k THEN s[i] ELSE s[i + 1]
<1>1. PICK n : n = Len(s)
  OBVIOUS
<1>2. n \in Nat /\ k \in 1 .. n /\ \A i \in 1 .. n : s[i] \in Objs
  BY <1>1, SeqIs
<1>3. PICK a : a = SubSeq(s, 1, k - 1)
  OBVIOUS
<1>4. PICK b : b = SubSeq(s, k + 1, n)
  OBVIOUS
<1>5. a \in Seq(Objs) /\ Len(a) = k - 1 /\ \A i \in 1 .. (k - 1) : a[i] = s[i]
  <2>1. 1 \in Int /\ k - 1 \in Int /\ \A i \in 1 .. (k - 1) : s[i] \in Objs
    BY <1>2
  <2>2. /\ SubSeq(s, 1, k - 1) \in Seq(Objs)
        /\ Len(SubSeq(s, 1, k - 1)) = IF 1 <= k - 1 THEN (k - 1) - 1 + 1 ELSE 0
        /\ \A i \in 1 .. ((k - 1) - 1 + 1) : SubSeq(s, 1, k - 1)[i] = s[1 + i - 1]
    BY <2>1, SubSeqProperties
  <2>3. QED
    BY <1>2, <1>3, <2>2
<1>6. b \in Seq(Objs) /\ Len(b) = n - k /\ \A i \in 1 .. (n - k) : b[i] = s[k + i]
  <2>1. k + 1 \in Int /\ n \in Int /\ \A i \in (k + 1) .. n : s[i] \in Objs
    BY <1>2
  <2>2. /\ SubSeq(s, k + 1, n) \in Seq(Objs)
        /\ Len(SubSeq(s, k + 1, n)) = IF k + 1 <= n THEN n - (k + 1) + 1 ELSE 0
        /\ \A i \in 1 .. (n - (k + 1) + 1) : SubSeq(s, k + 1, n)[i] = s[(k + 1) + i - 1]
    BY <2>1, SubSeqProperties
  <2>3. n - (k + 1) + 1 = n - k /\ (k + 1 <= n => n - (k + 1) + 1 = n - k) /\ (~(k + 1 <= n) => n - k = 0)
    BY <1>2
  <2>4. b \in Seq(Objs) /\ Len(b) = n - k
    BY <1>4, <2>2, <2>3
  <2>5. ASSUME NEW i \in 1 .. (n - k) PROVE b[i] = s[k + i]
    <3>1. i \in 1 .. (n - (k + 1) + 1) /\ (k + 1) + i - 1 = k + i
      BY <1>2
    <3>2. b[i] = s[(k + 1) + i - 1]
      BY <1>4, <2>2, <3>1
    <3>3. QED
      BY <3>1, <3>2
  <2>6. QED
    BY <2>4, <2>5
<1>7. t = a \o b
  BY <1>1, <1>3, <1>4 DEF RemoveAt
<1>8. /\ a \o b \in Seq(Objs) /\ Len(a \o b) = Len(a) + Len(b)
      /\ \A i \in 1 .. Len(a) + Len(b) : (a \o b)[i] = IF i <= Len(a) THEN a[i] ELSE b[i - Len(a)]
  BY <1>5, <1>6, ConcatProperties
<1>9. t \in Seq(Objs) /\ Len(t) = n - 1
  BY <1>2, <1>5, <1>6, <1>7, <1>8
<1>10. ASSUME NEW i \in 1 .. (n - 1) PROVE t[i] = IF i < k THEN s[i] ELSE s[i + 1]
  <2>1. t[i] = IF i <= k - 1 THEN a[i] ELSE b[i - (k - 1)]
    BY <1>2, <1>5, <1>6, <1>7, <1>8
  <2>2. CASE i < k
    BY <1>2, <1>5, <2>1, <2>2
  <2>3. CASE ~(i < k)
    <3>1. i - (k - 1) \in 1 .. (n - k) /\ k + (i - (k - 1)) = i + 1
      BY <1>2, <2>3
    <3>2. b[i - (k - 1)] = s[i + 1]
      BY <1>6, <3>1
    <3>3. QED
      BY <1>2, <2>1, <2>3, <3>2
  <2>4. QED
    BY <2>2, <2>3
<1>11. QED
  BY <1>1, <1>9, <1>10

LEMMA Unlinking ==
  ASSUME NEW s \in Seq(Objs), IsInjective(s), NEW o \in ToSet(s)
  PROVE  Removed(s, o, Unlinked(s, o))
<1>1. PICK n : n = Len(s)
  OBVIOUS
<1>2. PICK t : t = Unlinked(s, o)
  OBVIOUS
<1>3. n \in Nat /\ DOMAIN s = 1 .. n /\ \A i \in 1 .. n : s[i] \in Objs /\ s[i] \in ToSet(s)
  BY <1>1, SeqIs
<1>4. PICK k : k = CHOOSE i \in DOMAIN s : s[i] = o
  OBVIOUS
<1>5. k \in 1 .. n /\ s[k] = o
  <2>1. \E i \in DOMAIN s : s[i] = o
    BY DEF ToSet
  <2>2. QED
    BY <1>3, <1>4, <2>1
<1>6. t = RemoveAt(s, k)
  BY <1>2, <1>4 DEF Unlinked
<1>7. /\ t \in Seq(Objs) /\ Len(t) = n - 1
      /\ \A i \in 1 .. (n - 1) : t[i] = IF i < k THEN s[i] ELSE s[i + 1]
  BY <1>1, <1>5, <1>6, RemoveAtIs
<1>8. DOMAIN t = 1 .. (n - 1)
  BY <1>7, SeqIs
<1>9. \A i, j \in 1 .. n : s[i] = s[j] => i = j
  BY <1>3 DEF IsInjective
(* where what is left has come from *)
<1> DEFINE from(i) == IF i < k THEN i ELSE i + 1
<1>10. \A i \in 1 .. (n - 1) : from(i) \in 1 .. n /\ from(i) # k /\ t[i] = s[from(i)]
  BY <1>3, <1>5, <1>7
<1>11. \A i, j \in 1 .. (n - 1) : (from(i) <= from(j) <=> i <= j) /\ (from(i) = from(j) => i = j)
  BY <1>3, <1>5
<1>12. \A j \in 1 .. n : j # k => \E i \in 1 .. (n - 1) : from(i) = j
  <2> TAKE j \in 1 .. n
  <2>1. CASE j < k
    <3>1. j \in 1 .. (n - 1) /\ from(j) = j
      BY <1>3, <1>5, <2>1
    <3>2. QED
      BY <3>1
  <2>2. CASE k < j
    <3>1. j - 1 \in 1 .. (n - 1) /\ from(j - 1) = j
      BY <1>3, <1>5, <2>2
    <3>2. QED
      BY <3>1
  <2>3. QED
    BY <1>3, <1>5, <2>1, <2>2
<1> HIDE DEF from
<1>13. IsInjective(t)
  BY <1>8, <1>9, <1>10, <1>11 DEF IsInjective
<1>14. ToSet(t) = ToSet(s) \ {o}
  <2>1. ASSUME NEW x \in ToSet(t) PROVE x \in ToSet(s) \ {o}
    <3>1. PICK i \in 1 .. (n - 1) : t[i] = x
      BY <1>8 DEF ToSet
    <3>2. x = s[from(i)] /\ from(i) \in 1 .. n /\ from(i) # k
      BY <1>10, <3>1
    <3>3. x \in ToSet(s) /\ x # o
      BY <1>3, <1>5, <1>9, <3>2
    <3>4. QED
      BY <3>3
  <2>2. ASSUME NEW x \in ToSet(s), x # o PROVE x \in ToSet(t)
    <3>1. PICK j \in 1 .. n : s[j] = x
      BY <1>3 DEF ToSet
    <3>2. PICK i \in 1 .. (n - 1) : from(i) = j
      BY <1>5, <1>12, <2>2, <3>1
    <3>3. t[i] = x
      BY <1>10, <3>1, <3>2
    <3>4. QED
      BY <1>8, <3>3 DEF ToSet
  <2>3. QED
    BY <2>1, <2>2
<1>15. ASSUME NEW x \in ToSet(t), NEW y \in ToSet(t), Before(s, x, y) PROVE Before(t, x, y)
  <2>1. PICK i \in 1 .. n, j \in 1 .. n : i <= j /\ s[i] = x /\ s[j] = y
    BY <1>3, <1>15 DEF Before
  <2>2. i # k /\ j # k
    BY <1>5, <1>14, <1>15, <2>1
  <2>3. PICK a \in 1 .. (n - 1) : from(a) = i
    BY <1>12, <2>2
  <2>4. PICK b \in 1 .. (n - 1) : from(b) = j
    BY <1>12, <2>2
  <2>5. a <= b /\ t[a] = x /\ t[b] = y
    BY <1>10, <1>11, <2>1, <2>3, <2>4
  <2>6. QED
    BY <1>8, <2>5 DEF Before
<1>16. Removed(s, o, t)
  BY <1>7, <1>13, <1>14, <1>15 DEF Removed
<1>17. QED
  BY <1>2, <1>16

-----------------------------------------------------------------------------
(* Constants and prototypes.                                                *)
LEMMA Where ==
  /\ Chars \subseteq Holders /\ Rooms \subseteq Holders /\ Corpse \in Holders
  /\ \A c \in Chars : c \notin Rooms /\ c # Corpse
  /\ \A r \in Rooms : r # Corpse /\ r # None
  /\ \A c \in Chars : c # None
  /\ \A o \in Objs : o # None
  /\ IsFiniteSet(Chars) /\ IsFiniteSet(Objs) /\ Altar \in Rooms /\ Limbo \in Rooms
  BY Prototypes DEF Holders

LEMMA Places ==
  /\ "none" \notin Hands /\ "none" \notin Scabbards /\ "none" \in WearLocs /\ "none" \notin Wearable
  /\ "wield" \in Hands /\ "hold" \in Hands /\ Hands \subseteq Wearable /\ Wearable \subseteq WearLocs
  /\ Scabbards \subseteq WearLocs /\ \A loc \in Wearable : loc \notin Scabbards
  /\ \A hand \in Hands : Scabbard[hand] \in Scabbards /\ Scabbard[hand] # "none"
<1>1. Scabbards = {"scabbard_r", "scabbard_l"}
  BY DEF Scabbards, Scabbard, Hands
<1>2. /\ Scabbard["wield"] = "scabbard_r" /\ Scabbard["hold"] = "scabbard_l"
      /\ Hands = {"wield", "hold"}
  BY DEF Scabbard, Hands
<1>3. QED
  BY <1>1, <1>2 DEF WearLocs, Wearable

(* What a prototype is.                                                     *)
Prototype(k) ==
  /\ k \in Kits /\ k.affects \in Seq(Int) /\ k.heft \in Int /\ k.ac \in Int /\ k.flies \in BOOLEAN
  /\ k.fits \in Seq(Wearable) /\ (k.type = "light" => k.fits \in Seq(Hands))

LEMMA KitsAre ==
  ASSUME NEW k \in Kits
  PROVE  Prototype(k)
  BY DEF Kits, Prototype

LEMMA ThingsAre ==
  ASSUME scene \in Scenes
  PROVE  /\ IsFiniteSet(Things) /\ Things \subseteq Objs /\ \A o \in Things : Prototype(kit[o])
         /\ scene.players \subseteq Chars
<1>1. Things \subseteq Objs /\ kit \in [Things -> Kits] /\ scene.players \subseteq Chars
  BY Prototypes DEF Things, kit
<1>2. IsFiniteSet(Things)
  BY <1>1, Where, FS_Subset
<1>3. \A o \in Things : kit[o] \in Kits
  BY <1>1
<1>4. QED
  BY <1>1, <1>2, <1>3, KitsAre

(* Strength of a piece.                                                     *)
Might(o) == SumOf(kit[o].affects)

LEMMA MightIs ==
  ASSUME scene \in Scenes, NEW o \in Things
  PROVE  Might(o) \in Int
<1>1. kit[o].affects \in Seq(Int)
  BY ThingsAre DEF Prototype
<1>2. PICK n \in Nat : n = Len(kit[o].affects)
  BY <1>1
<1>3. kit[o].affects \in [1 .. n -> Int]
  BY <1>1, <1>2
<1>4. IsFiniteSet(1 .. n)
  BY FS_Interval
<1>5. QED
  BY <1>3, <1>4, SumType DEF Might

LEMMA ArmourIs ==
  ASSUME scene \in Scenes, NEW o \in Things, NEW loc
  PROVE  ApplyAC(o, loc) \in Int /\ (kit[o].type = "weapon" => ApplyAC(o, loc) = 0)
<1>1. kit[o].ac \in Int
  BY ThingsAre DEF Prototype
<1>2. PICK m : m = CASE loc = "body" -> 3 [] loc \in {"hold", "finger"} -> 1 [] OTHER -> 0
  OBVIOUS
<1>3. m \in {0, 1, 3}
  BY <1>2
<1>4. ApplyAC(o, loc) = IF kit[o].type # "armor" THEN 0 ELSE kit[o].ac * m
  BY <1>2 DEF ApplyAC
<1>5. kit[o].ac * m \in Int
  BY <1>1, <1>3
<1>6. QED
  BY <1>4, <1>5

-----------------------------------------------------------------------------
(* The state that calls change.                                             *)
FileThing == [kit : Kits, wear_loc : WearLocs, marked : BOOLEAN]
AffType == [type : Spells, modifier : Int]
FileType ==
  [things : Seq(FileThing), mod_str : Int, armor : Int, hitroll : Int, flying : BOOLEAN,
   kept : BOOLEAN, affected : SUBSET AffType, in_room : Rooms, surplus : Int]
WType ==
  [contents : [Holders -> Seq(Objs)], wear_loc : [Objs -> WearLocs], mod_str : [Chars -> Int],
   armor : [Chars -> Int], flying : [Chars -> BOOLEAN], kept : [Chars -> BOOLEAN],
   hitroll : [Chars -> Int], enchanted : SUBSET Objs, marked : SUBSET Objs,
   surplus : [Chars -> Int], file : [Chars -> FileType], lit : SUBSET Objs, light : [Rooms -> Int]]

LEMMA Fields ==
  ASSUME NEW v \in WType
  PROVE  /\ v.contents \in [Holders -> Seq(Objs)] /\ v.wear_loc \in [Objs -> WearLocs]
         /\ v.mod_str \in [Chars -> Int] /\ v.armor \in [Chars -> Int] /\ v.hitroll \in [Chars -> Int]
         /\ v.flying \in [Chars -> BOOLEAN] /\ v.kept \in [Chars -> BOOLEAN]
         /\ v.enchanted \subseteq Objs /\ v.marked \subseteq Objs /\ v.lit \subseteq Objs
         /\ v.surplus \in [Chars -> Int] /\ v.file \in [Chars -> FileType] /\ v.light \in [Rooms -> Int]
  BY DEF WType

(* Lists and places.                                                        *)
Listed(v) == \A h \in Holders : IsInjective(v.contents[h]) /\ ToSet(v.contents[h]) \subseteq Things
Disjoint(v) == \A g, h \in Holders : g # h => ToSet(v.contents[g]) \cap ToSet(v.contents[h]) = {}
Borne(v) == \A o \in Objs : v.wear_loc[o] # "none" => \E c \in Chars : o \in Carried(v, c)
OneEach(v) == \A c \in Chars : \A o, p \in WornBy(v, c) : v.wear_loc[o] = v.wear_loc[p] => o = p
InHand(v) == \A o \in Things : kit[o].type = "light" /\ v.wear_loc[o] # "none" => v.wear_loc[o] \in Hands
Charmed(v) == v.enchanted \subseteq v.marked /\ \A o \in v.lit : o \in Things /\ kit[o].type = "light"

Sound(v) ==
  v \in WType /\ Listed(v) /\ Disjoint(v) /\ Borne(v) /\ OneEach(v) /\ InHand(v) /\ Charmed(v)

(* What only few calls touch.                                               *)
Still(v, u) ==
  /\ u.enchanted = v.enchanted /\ u.marked = v.marked /\ u.lit = v.lit
  /\ u.surplus = v.surplus /\ u.file = v.file

(* What somebody carries, of the things there are.                          *)
LEMMA CarriedIs ==
  ASSUME scene \in Scenes, NEW v, Sound(v), NEW c \in Chars
  PROVE  /\ Carried(v, c) = ToSet(v.contents[c]) /\ v.contents[c] \in Seq(Objs)
         /\ IsInjective(v.contents[c]) /\ Carried(v, c) \subseteq Things
         /\ WornBy(v, c) \subseteq Carried(v, c) /\ InUse(v, c) \subseteq WornBy(v, c)
         /\ IsFiniteSet(InUse(v, c)) /\ IsFiniteSet(Carried(v, c))
<1>1. Carried(v, c) = ToSet(v.contents[c]) /\ c \in Holders
  BY Where DEF Carried
<1>2. v.contents[c] \in Seq(Objs) /\ IsInjective(v.contents[c]) /\ Carried(v, c) \subseteq Things
  BY <1>1, Fields DEF Sound, Listed
<1>3. WornBy(v, c) \subseteq Carried(v, c) /\ InUse(v, c) \subseteq WornBy(v, c)
  BY DEF WornBy, InUse
<1>4. IsFiniteSet(Carried(v, c))
  BY <1>2, ThingsAre, FS_Subset
<1>5. InUse(v, c) \subseteq Carried(v, c)
  BY <1>3
<1>6. IsFiniteSet(InUse(v, c))
  BY <1>4, <1>5, FS_Subset
<1>7. QED
  BY <1>1, <1>2, <1>3, <1>4, <1>6

(* Nobody carries what another does.                                        *)
LEMMA OneBearer ==
  ASSUME NEW v, Sound(v), NEW c \in Chars, NEW d \in Chars, NEW o, o \in Carried(v, c), o \in Carried(v, d)
  PROVE  c = d
  BY Where DEF Sound, Disjoint, Carried

(* Nothing about lists and places has changed.                              *)
LEMMA SoundSame ==
  ASSUME NEW v, Sound(v), NEW u \in WType, u.contents = v.contents, u.wear_loc = v.wear_loc, Still(v, u)
  PROVE  Sound(u)
<1>1. Listed(u) /\ Disjoint(u) /\ InHand(u) /\ Charmed(u)
  BY DEF Sound, Still, Listed, Disjoint, InHand, Charmed
<1>2. \A c : Carried(u, c) = Carried(v, c) /\ WornBy(u, c) = WornBy(v, c)
  BY DEF Carried, WornBy
<1>3. Borne(u) /\ OneEach(u)
  BY <1>2 DEF Sound, Borne, OneEach
<1>4. QED
  BY <1>1, <1>3 DEF Sound

(* A piece is put on or taken off.                                          *)
Relocated(v, u, c, o, loc) ==
  /\ u \in WType /\ u.contents = v.contents /\ Still(v, u)
  /\ u.wear_loc = [v.wear_loc EXCEPT ![o] = loc] /\ loc \in WearLocs
  /\ o \in Carried(v, c)
  /\ loc # "none" => /\ \A p \in WornBy(v, c) : v.wear_loc[p] = loc => p = o
                     /\ kit[o].type = "light" => loc \in Hands

LEMMA SoundRelocated ==
  ASSUME scene \in Scenes, NEW v, Sound(v), NEW u, NEW c \in Chars, NEW o, NEW loc, Relocated(v, u, c, o, loc)
  PROVE  /\ Sound(u) /\ u.wear_loc[o] = loc /\ \A p \in Objs \ {o} : u.wear_loc[p] = v.wear_loc[p]
         /\ \A d \in Chars : Carried(u, d) = Carried(v, d)
         /\ \A d \in Chars : d # c => WornBy(u, d) = WornBy(v, d)
         /\ WornBy(u, c) = IF loc = "none" THEN WornBy(v, c) \ {o} ELSE WornBy(v, c) \cup {o}
<1>1. v.wear_loc \in [Objs -> WearLocs] /\ o \in Things /\ o \in Objs
  BY Fields, CarriedIs, ThingsAre DEF Sound, Relocated
<1>2. u.wear_loc[o] = loc /\ \A p \in Objs : p # o => u.wear_loc[p] = v.wear_loc[p]
  BY <1>1 DEF Relocated
<1>3. \A d : Carried(u, d) = Carried(v, d)
  BY DEF Carried, Relocated
<1>4. \A d \in Chars : Carried(v, d) \subseteq Objs
  BY CarriedIs, ThingsAre
<1>5. \A d \in Chars : \A p : p \in WornBy(u, d) <=> p \in Carried(v, d) /\ u.wear_loc[p] # "none"
  BY <1>3 DEF WornBy
<1>6. \A d \in Chars : \A p : p \in WornBy(v, d) <=> p \in Carried(v, d) /\ v.wear_loc[p] # "none"
  BY DEF WornBy
<1>7. o \in Carried(v, c) /\ \A d \in Chars : d # c => o \notin Carried(v, d)
  BY OneBearer DEF Relocated
<1>8. \A d \in Chars : d # c => WornBy(u, d) = WornBy(v, d)
  <2> TAKE d \in Chars
  <2> HAVE d # c
  <2>1. ASSUME NEW p PROVE p \in WornBy(u, d) <=> p \in WornBy(v, d)
    <3>1. CASE p \in Carried(v, d)
      <4>1. p \in Objs /\ p # o
        BY <1>4, <1>7, <3>1
      <4>2. u.wear_loc[p] = v.wear_loc[p]
        BY <1>2, <4>1
      <4>3. QED
        BY <1>5, <1>6, <4>2
    <3>2. CASE p \notin Carried(v, d)
      BY <1>5, <1>6, <3>2
    <3>3. QED
      BY <3>1, <3>2
  <2>2. QED
    BY <2>1
<1>9. \A p : p # o => (p \in WornBy(u, c) <=> p \in WornBy(v, c))
  <2> TAKE p
  <2> HAVE p # o
  <2>1. CASE p \in Carried(v, c)
    <3>1. u.wear_loc[p] = v.wear_loc[p]
      BY <1>2, <1>4, <2>1
    <3>2. QED
      BY <1>5, <1>6, <3>1
  <2>2. CASE p \notin Carried(v, c)
    BY <1>5, <1>6, <2>2
  <2>3. QED
    BY <2>1, <2>2
<1>10. o \in WornBy(u, c) <=> loc # "none"
  BY <1>2, <1>5, <1>7
<1>11. WornBy(u, c) = IF loc = "none" THEN WornBy(v, c) \ {o} ELSE WornBy(v, c) \cup {o}
  BY <1>9, <1>10
<1>12. Listed(u) /\ Disjoint(u) /\ Charmed(u)
  BY DEF Sound, Still, Listed, Disjoint, Charmed, Relocated
<1>13. Borne(u)
  <2>1. ASSUME NEW p \in Objs, u.wear_loc[p] # "none" PROVE \E d \in Chars : p \in Carried(u, d)
    <3>1. CASE p = o
      BY <1>3, <1>7, <3>1
    <3>2. CASE p # o
      BY <1>2, <1>3, <2>1, <3>2 DEF Sound, Borne
    <3>3. QED
      BY <3>1, <3>2
  <2>2. QED
    BY <2>1 DEF Borne
<1>14. OneEach(u)
  <2>1. ASSUME NEW d \in Chars, NEW p \in WornBy(u, d), NEW q \in WornBy(u, d),
               u.wear_loc[p] = u.wear_loc[q]
        PROVE  p = q
    <3>0. p \in Objs /\ q \in Objs /\ p \in Carried(v, d) /\ q \in Carried(v, d)
      BY <1>4, <1>5, <2>1
    <3>1. CASE p # o /\ q # o
      <4>1. p \in WornBy(v, d) /\ q \in WornBy(v, d) /\ v.wear_loc[p] = v.wear_loc[q]
        BY <1>2, <1>8, <1>9, <2>1, <3>0, <3>1
      <4>2. QED
        BY <4>1 DEF Sound, OneEach
    <3>2. CASE p = o /\ q # o
      <4>1. d = c /\ loc # "none" /\ u.wear_loc[q] = loc
        BY <1>2, <1>7, <1>10, <2>1, <3>0, <3>2
      <4>2. q \in WornBy(v, c) /\ v.wear_loc[q] = loc
        BY <1>2, <1>9, <2>1, <3>0, <3>2, <4>1
      <4>3. QED
        BY <4>1, <4>2, <3>2 DEF Relocated
    <3>3. CASE p # o /\ q = o
      <4>1. d = c /\ loc # "none" /\ u.wear_loc[p] = loc
        BY <1>2, <1>7, <1>10, <2>1, <3>0, <3>3
      <4>2. p \in WornBy(v, c) /\ v.wear_loc[p] = loc
        BY <1>2, <1>9, <2>1, <3>0, <3>3, <4>1
      <4>3. QED
        BY <4>1, <4>2, <3>3 DEF Relocated
    <3>4. CASE p = o /\ q = o
      BY <3>4
    <3>5. QED
      BY <3>1, <3>2, <3>3, <3>4
  <2>2. QED
    BY <2>1 DEF OneEach
<1>15. InHand(u)
  <2>1. ASSUME NEW p \in Things, kit[p].type = "light", u.wear_loc[p] # "none" PROVE u.wear_loc[p] \in Hands
    <3>1. CASE p = o
      BY <1>2, <2>1, <3>1 DEF Relocated
    <3>2. CASE p # o
      <4>1. u.wear_loc[p] = v.wear_loc[p]
        BY <1>2, <3>2, ThingsAre
      <4>2. QED
        BY <2>1, <4>1 DEF Sound, InHand
    <3>3. QED
      BY <3>1, <3>2
  <2>2. QED
    BY <2>1 DEF InHand
<1>16. QED
  BY <1>2, <1>3, <1>8, <1>11, <1>12, <1>13, <1>14, <1>15 DEF Sound, Relocated

(* Nobody's wear has changed; of one, and of everybody.                     *)
SameWear(v, u, c) ==
  /\ WornBy(u, c) = WornBy(v, c) /\ \A o \in WornBy(v, c) : u.wear_loc[o] = v.wear_loc[o]
  /\ u.lit = v.lit /\ u.enchanted = v.enchanted

WornStr(v, c) == SumOf([o \in InUse(v, c) |-> SumOf(kit[o].affects)])
WornAC(v, c) == SumOf([o \in InUse(v, c) |-> ApplyAC(o, v.wear_loc[o])])
WornHit(v, c) == Cardinality(InUse(v, c) \cap v.enchanted)

LEMMA InUseIs ==
  ASSUME NEW v, NEW c
  PROVE  /\ \A o : o \in InUse(v, c) <=> o \in WornBy(v, c) /\ v.wear_loc[o] \notin Scabbards
         /\ \A o : o \in Lamps(v, c) <=> o \in WornBy(v, c) /\ o \in v.lit /\ v.wear_loc[o] \in Hands
         /\ \A o : o \in WornBy(v, c) <=> o \in Carried(v, c) /\ v.wear_loc[o] # "none"
<1>1. \A o : v.wear_loc[o] \in Hands => v.wear_loc[o] # "none"
  BY Places
<1>2. QED
  BY <1>1 DEF InUse, Lamps, WornBy

LEMMA WearKept ==
  ASSUME NEW v, NEW u, NEW c, SameWear(v, u, c)
  PROVE  /\ InUse(u, c) = InUse(v, c) /\ Lamps(u, c) = Lamps(v, c)
         /\ WornStr(u, c) = WornStr(v, c) /\ WornAC(u, c) = WornAC(v, c) /\ WornHit(u, c) = WornHit(v, c)
<1>1. InUse(u, c) = InUse(v, c)
  <2>1. \A o : o \in InUse(u, c) <=> o \in InUse(v, c)
    BY InUseIs DEF SameWear
  <2>2. QED
    BY <2>1
<1>2. Lamps(u, c) = Lamps(v, c)
  <2>1. \A o : o \in Lamps(u, c) <=> o \in Lamps(v, c)
    BY InUseIs DEF SameWear
  <2>2. QED
    BY <2>1
<1>3. \A o \in InUse(v, c) : u.wear_loc[o] = v.wear_loc[o]
  BY InUseIs DEF SameWear
<1>4. [o \in InUse(u, c) |-> ApplyAC(o, u.wear_loc[o])] = [o \in InUse(v, c) |-> ApplyAC(o, v.wear_loc[o])]
  BY <1>1, <1>3
<1>5. WornStr(u, c) = WornStr(v, c) /\ WornAC(u, c) = WornAC(v, c)
  BY <1>1, <1>4 DEF WornStr, WornAC
<1>6. WornHit(u, c) = WornHit(v, c)
  BY <1>1 DEF WornHit, SameWear
<1>7. QED
  BY <1>1, <1>2, <1>5, <1>6

(* Things have moved that nobody wears.                                     *)
Rearranged(v, u) ==
  /\ u.wear_loc = v.wear_loc /\ u.mod_str = v.mod_str /\ u.armor = v.armor /\ u.hitroll = v.hitroll
  /\ u.flying = v.flying /\ u.kept = v.kept /\ u.light = v.light /\ Still(v, u)
  /\ \A c \in Chars : WornBy(u, c) = WornBy(v, c)

Nowhere(v, o) == \A h \in Holders : o \notin ToSet(v.contents[h])

LEMMA SoundRearranged ==
  ASSUME NEW v, Sound(v), NEW u \in WType, Rearranged(v, u), Listed(u), Disjoint(u)
  PROVE  Sound(u)
<1>1. InHand(u) /\ Charmed(u)
  BY DEF Sound, Rearranged, Still, InHand, Charmed
<1>2. OneEach(u)
  BY DEF Sound, Rearranged, OneEach
<1>3. Borne(u)
  <2>1. ASSUME NEW p \in Objs, u.wear_loc[p] # "none" PROVE \E d \in Chars : p \in Carried(u, d)
    <3>1. v.wear_loc[p] # "none"
      BY <2>1 DEF Rearranged
    <3>2. PICK d \in Chars : p \in Carried(v, d)
      BY <3>1 DEF Sound, Borne
    <3>3. p \in WornBy(v, d)
      BY <3>1, <3>2, InUseIs
    <3>4. p \in WornBy(u, d)
      BY <3>3 DEF Rearranged
    <3>5. QED
      BY <3>4, InUseIs
  <2>2. QED
    BY <2>1 DEF Borne
<1>4. QED
  BY <1>1, <1>2, <1>3 DEF Sound

(* u is v with o taken out of h; put into h.                                *)
TakenFrom(v, u, h, o) ==
  /\ Sound(u) /\ Rearranged(v, u) /\ Nowhere(u, o)
  /\ Removed(v.contents[h], o, u.contents[h])
  /\ \A g \in Holders : g # h => u.contents[g] = v.contents[g]

PlacedIn(v, u, h, o) ==
  /\ Sound(u) /\ Rearranged(v, u)
  /\ Prepended(v.contents[h], o, u.contents[h])
  /\ \A g \in Holders : g # h => u.contents[g] = v.contents[g]

LEMMA TakingOut ==
  ASSUME scene \in Scenes, NEW v, Sound(v), NEW h \in Holders, NEW o,
         o \in ToSet(v.contents[h]), v.wear_loc[o] = "none"
  PROVE  TakenFrom(v, TakeOut(v, h, o), h, o)
<1>1. PICK u : u = TakeOut(v, h, o)
  OBVIOUS
<1>2. PICK s : s = v.contents[h]
  OBVIOUS
<1>3. PICK t : t = Unlinked(s, o)
  OBVIOUS
<1>4. v \in WType /\ v.contents \in [Holders -> Seq(Objs)] /\ s \in Seq(Objs) /\ IsInjective(s)
  BY <1>2, Fields DEF Sound, Listed
<1>5. Removed(s, o, t)
  BY <1>2, <1>3, <1>4, Unlinking
<1>6. t \in Seq(Objs) /\ IsInjective(t) /\ ToSet(t) = ToSet(s) \ {o}
  BY <1>5 DEF Removed
<1>7. u = [v EXCEPT !.contents = [v.contents EXCEPT ![h] = t]]
  BY <1>1, <1>2, <1>3, <1>4 DEF TakeOut, WType
<1>8. PICK k : k = [v.contents EXCEPT ![h] = t]
  OBVIOUS
<1>9. k \in [Holders -> Seq(Objs)] /\ k[h] = t /\ \A g \in Holders : g # h => k[g] = v.contents[g]
  BY <1>4, <1>6, <1>8
<1>10. u \in WType /\ u.contents = k
  BY <1>4, <1>7, <1>8, <1>9 DEF WType
<1>11. /\ u.wear_loc = v.wear_loc /\ u.mod_str = v.mod_str /\ u.armor = v.armor /\ u.hitroll = v.hitroll
       /\ u.flying = v.flying /\ u.kept = v.kept /\ u.light = v.light /\ Still(v, u)
  BY <1>4, <1>7 DEF WType, Still
<1>12. \A g \in Holders : ToSet(k[g]) = ToSet(v.contents[g]) \ (IF g = h THEN {o} ELSE {})
  BY <1>2, <1>6, <1>9
<1>13. \A c \in Chars : WornBy(u, c) = WornBy(v, c)
  <2> TAKE c \in Chars
  <2>1. c \in Holders
    BY Where
  <2>2. \A p : p # o => (p \in Carried(u, c) <=> p \in Carried(v, c))
    BY <1>10, <1>12, <2>1 DEF Carried
  <2>3. o \notin WornBy(u, c) /\ o \notin WornBy(v, c)
    BY <1>11, InUseIs
  <2>4. QED
    BY <1>11, <2>2, <2>3, InUseIs
<1>14. Rearranged(v, u)
  BY <1>11, <1>13 DEF Rearranged
<1>15. Listed(u)
  BY <1>6, <1>9, <1>10, <1>12 DEF Sound, Listed
<1>16. Disjoint(u)
  BY <1>10, <1>12 DEF Sound, Disjoint
<1>17. Sound(u)
  BY <1>10, <1>14, <1>15, <1>16, SoundRearranged
<1>18. Nowhere(u, o)
  <2>1. ASSUME NEW g \in Holders PROVE o \notin ToSet(k[g])
    <3>1. g # h => o \notin ToSet(v.contents[g])
      BY DEF Sound, Disjoint
    <3>2. QED
      BY <1>12, <3>1
  <2>2. QED
    BY <1>10, <2>1 DEF Nowhere
<1>19. TakenFrom(v, u, h, o)
  BY <1>2, <1>5, <1>9, <1>10, <1>14, <1>17, <1>18 DEF TakenFrom
<1>20. QED
  BY <1>1, <1>19

LEMMA PuttingIn ==
  ASSUME scene \in Scenes, NEW v, Sound(v), NEW h \in Holders, NEW o \in Things,
         Nowhere(v, o), v.wear_loc[o] = "none"
  PROVE  PlacedIn(v, PutIn(v, h, o), h, o)
<1>1. PICK u : u = PutIn(v, h, o)
  OBVIOUS
<1>2. PICK s : s = v.contents[h]
  OBVIOUS
<1>3. PICK t : t = <<o>> \o s
  OBVIOUS
<1>4. /\ v \in WType /\ v.contents \in [Holders -> Seq(Objs)] /\ s \in Seq(Objs) /\ IsInjective(s)
      /\ o \in Objs /\ o \notin ToSet(s)
  BY <1>2, Fields, ThingsAre DEF Sound, Listed, Nowhere
<1>5. Prepended(s, o, t)
  BY <1>3, <1>4, InFront
<1>6. t \in Seq(Objs) /\ IsInjective(t) /\ ToSet(t) = ToSet(s) \cup {o}
  BY <1>4, <1>5 DEF Prepended
<1>7. u = [v EXCEPT !.contents = [v.contents EXCEPT ![h] = t]]
  BY <1>1, <1>2, <1>3, <1>4 DEF PutIn, WType
<1>8. PICK k : k = [v.contents EXCEPT ![h] = t]
  OBVIOUS
<1>9. k \in [Holders -> Seq(Objs)] /\ k[h] = t /\ \A g \in Holders : g # h => k[g] = v.contents[g]
  BY <1>4, <1>6, <1>8
<1>10. u \in WType /\ u.contents = k
  BY <1>4, <1>7, <1>8, <1>9 DEF WType
<1>11. /\ u.wear_loc = v.wear_loc /\ u.mod_str = v.mod_str /\ u.armor = v.armor /\ u.hitroll = v.hitroll
       /\ u.flying = v.flying /\ u.kept = v.kept /\ u.light = v.light /\ Still(v, u)
  BY <1>4, <1>7 DEF WType, Still
<1>12. \A g \in Holders : ToSet(k[g]) = ToSet(v.contents[g]) \cup (IF g = h THEN {o} ELSE {})
  BY <1>2, <1>6, <1>9
<1>13. \A c \in Chars : WornBy(u, c) = WornBy(v, c)
  <2> TAKE c \in Chars
  <2>1. c \in Holders
    BY Where
  <2>2. \A p : p # o => (p \in Carried(u, c) <=> p \in Carried(v, c))
    BY <1>10, <1>12, <2>1 DEF Carried
  <2>3. o \notin WornBy(u, c) /\ o \notin WornBy(v, c)
    BY <1>11, InUseIs
  <2>4. QED
    BY <1>11, <2>2, <2>3, InUseIs
<1>14. Rearranged(v, u)
  BY <1>11, <1>13 DEF Rearranged
<1>15. Listed(u)
  BY <1>6, <1>9, <1>10, <1>12 DEF Sound, Listed
<1>16. Disjoint(u)
  <2>1. ASSUME NEW f \in Holders, NEW g \in Holders, f # g PROVE ToSet(k[f]) \cap ToSet(k[g]) = {}
    <3>1. ToSet(v.contents[f]) \cap ToSet(v.contents[g]) = {}
      BY <2>1 DEF Sound, Disjoint
    <3>2. o \notin ToSet(v.contents[f]) /\ o \notin ToSet(v.contents[g])
      BY DEF Nowhere
    <3>3. QED
      BY <1>12, <2>1, <3>1, <3>2
  <2>2. QED
    BY <1>10, <2>1 DEF Disjoint
<1>17. Sound(u)
  BY <1>10, <1>14, <1>15, <1>16, SoundRearranged
<1>18. PlacedIn(v, u, h, o)
  BY <1>2, <1>5, <1>9, <1>10, <1>14, <1>17 DEF PlacedIn
<1>19. QED
  BY <1>1, <1>18

-----------------------------------------------------------------------------
(* Balances: what is left of a sum without what is in use.                  *)
Charm(v, o) == IF o \in v.enchanted THEN 1 ELSE 0

StrOf(v, c) == v.mod_str[c] - WornStr(v, c)
ArmOf(v, c) == v.armor[c] + WornAC(v, c)
HitOf(v, c) == v.hitroll[c] - WornHit(v, c)

LEMMA WornTypes ==
  ASSUME scene \in Scenes, NEW v, Sound(v), NEW c \in Chars
  PROVE  /\ WornStr(v, c) \in Int /\ WornAC(v, c) \in Int /\ WornHit(v, c) \in Int
         /\ v.mod_str[c] \in Int /\ v.armor[c] \in Int /\ v.hitroll[c] \in Int
         /\ InUse(v, c) = {} => WornStr(v, c) = 0 /\ WornAC(v, c) = 0 /\ WornHit(v, c) = 0
<1>1. PICK S : S = InUse(v, c)
  OBVIOUS
<1>2. IsFiniteSet(S) /\ S \subseteq Things
  BY <1>1, CarriedIs
<1>3. PICK f : f = [o \in S |-> SumOf(kit[o].affects)]
  OBVIOUS
<1>4. PICK g : g = [o \in S |-> ApplyAC(o, v.wear_loc[o])]
  OBVIOUS
<1>5. f \in [S -> Int]
  BY <1>2, <1>3, MightIs DEF Might
<1>6. g \in [S -> Int]
  BY <1>2, <1>4, ArmourIs
<1>7. SumOf(f) \in Int /\ (S = {} => SumOf(f) = 0)
  BY <1>2, <1>5, SumType
<1>8. SumOf(g) \in Int /\ (S = {} => SumOf(g) = 0)
  BY <1>2, <1>6, SumType
<1>9. PICK H : H = S \cap v.enchanted
  OBVIOUS
<1>10. IsFiniteSet(H) /\ (S = {} => H = {})
  BY <1>2, <1>9, FS_Subset
<1>11. Cardinality(H) \in Int /\ (S = {} => Cardinality(H) = 0)
  BY <1>10, FS_CardinalityType, FS_EmptySet
<1>12. WornStr(v, c) = SumOf(f) /\ WornAC(v, c) = SumOf(g) /\ WornHit(v, c) = Cardinality(H)
  BY <1>1, <1>3, <1>4, <1>9 DEF WornStr, WornAC, WornHit
<1>13. v.mod_str[c] \in Int /\ v.armor[c] \in Int /\ v.hitroll[c] \in Int
  BY Fields DEF Sound
<1>14. QED
  BY <1>1, <1>7, <1>8, <1>11, <1>12, <1>13

LEMMA BalanceTypes ==
  ASSUME scene \in Scenes, NEW v, Sound(v), NEW c \in Chars
  PROVE  StrOf(v, c) \in Int /\ ArmOf(v, c) \in Int /\ HitOf(v, c) \in Int
  BY WornTypes DEF StrOf, ArmOf, HitOf

(* c uses o in v, and all the rest of it in u.                              *)
OutOfUse(v, u, c, o) ==
  /\ o \in InUse(v, c) /\ InUse(u, c) = InUse(v, c) \ {o}
  /\ \A p \in InUse(u, c) : u.wear_loc[p] = v.wear_loc[p]
  /\ u.enchanted = v.enchanted

LEMMA WornLess ==
  ASSUME scene \in Scenes, NEW v, Sound(v), NEW c \in Chars, NEW u, NEW o, OutOfUse(v, u, c, o)
  PROVE  /\ WornStr(v, c) = WornStr(u, c) + Might(o)
         /\ WornAC(v, c) = WornAC(u, c) + ApplyAC(o, v.wear_loc[o])
         /\ WornHit(v, c) = WornHit(u, c) + Charm(v, o)
<1>1. PICK S : S = InUse(v, c)
  OBVIOUS
<1>2. PICK R : R = InUse(u, c)
  OBVIOUS
<1>3. /\ IsFiniteSet(S) /\ S \subseteq Things /\ o \in S /\ R = S \ {o}
      /\ \A p \in R : u.wear_loc[p] = v.wear_loc[p]
  BY <1>1, <1>2, CarriedIs DEF OutOfUse
<1>4. WornStr(v, c) = WornStr(u, c) + Might(o)
  <2>1. PICK f : f = [p \in S |-> SumOf(kit[p].affects)]
    OBVIOUS
  <2>2. PICK g : g = [p \in R |-> SumOf(kit[p].affects)]
    OBVIOUS
  <2>3. f \in [S -> Int]
    BY <1>3, <2>1, MightIs DEF Might
  <2>4. Extends(f, S, o, g, R)
    BY <1>3, <2>1, <2>2, <2>3 DEF Extends
  <2>5. SumOf(f) = SumOf(g) + f[o]
    BY <2>4, SumWith
  <2>6. f[o] = Might(o)
    BY <1>3, <2>1 DEF Might
  <2>7. QED
    BY <1>1, <1>2, <2>1, <2>2, <2>5, <2>6 DEF WornStr
<1>5. WornAC(v, c) = WornAC(u, c) + ApplyAC(o, v.wear_loc[o])
  <2>1. PICK f : f = [p \in S |-> ApplyAC(p, v.wear_loc[p])]
    OBVIOUS
  <2>2. PICK g : g = [p \in R |-> ApplyAC(p, u.wear_loc[p])]
    OBVIOUS
  <2>3. f \in [S -> Int]
    BY <1>3, <2>1, ArmourIs
  <2>4. \A p \in R : g[p] = f[p]
    BY <1>3, <2>1, <2>2
  <2>5. g \in [R -> Int]
    BY <1>3, <2>2, <2>3, <2>4
  <2>6. Extends(f, S, o, g, R)
    BY <1>3, <2>3, <2>4, <2>5 DEF Extends
  <2>7. SumOf(f) = SumOf(g) + f[o]
    BY <2>6, SumWith
  <2>8. f[o] = ApplyAC(o, v.wear_loc[o])
    BY <1>3, <2>1
  <2>9. QED
    BY <1>1, <1>2, <2>1, <2>2, <2>7, <2>8 DEF WornAC
<1>6. WornHit(v, c) = WornHit(u, c) + Charm(v, o)
  <2>1. PICK H : H = S \cap v.enchanted
    OBVIOUS
  <2>2. PICK K : K = R \cap u.enchanted
    OBVIOUS
  <2>3. IsFiniteSet(H) /\ K = H \ {o}
    BY <1>3, <2>1, <2>2, FS_Subset DEF OutOfUse
  <2>4. Cardinality(H) \in Nat
    BY <2>3, FS_CardinalityType
  <2>a. WornHit(v, c) = Cardinality(H) /\ WornHit(u, c) = Cardinality(K)
    BY <1>1, <1>2, <2>1, <2>2 DEF WornHit
  <2>5. CASE o \in v.enchanted
    <3>1. o \in H
      BY <1>3, <2>1, <2>5
    <3>2. Cardinality(K) = Cardinality(H) - 1
      BY <2>3, <3>1, FS_RemoveElement
    <3>3. QED
      BY <2>a, <2>4, <2>5, <3>2 DEF Charm
  <2>6. CASE o \notin v.enchanted
    <3>1. K = H
      BY <2>1, <2>3, <2>6
    <3>2. QED
      BY <2>a, <2>4, <2>6, <3>1 DEF Charm
  <2>7. QED
    BY <2>5, <2>6
<1>7. QED
  BY <1>4, <1>5, <1>6

(* From v to u strength has risen by m and hitroll by n, apart from what is *)
(* worn.                                                                    *)
Even(v, u, c, m, n) ==
  /\ StrOf(u, c) = StrOf(v, c) + m
  /\ ArmOf(u, c) = ArmOf(v, c)
  /\ HitOf(u, c) = HitOf(v, c) + n

(* u is v but for c, who carries no more.                                   *)
Aside(v, u, c) ==
  /\ Still(v, u) /\ Carried(u, c) \subseteq Carried(v, c)
  /\ \A o \in Objs : o \notin Carried(v, c) => u.wear_loc[o] = v.wear_loc[o]
  /\ \A d \in Chars : d # c =>
       /\ u.contents[d] = v.contents[d] /\ u.mod_str[d] = v.mod_str[d] /\ u.armor[d] = v.armor[d]
       /\ u.hitroll[d] = v.hitroll[d] /\ u.flying[d] = v.flying[d] /\ u.kept[d] = v.kept[d]

(* c wears no more and does not begin to fly, and what c wears comes no     *)
(* earlier in the list.                                                     *)
Less(v, u, c) ==
  /\ WornBy(u, c) \subseteq WornBy(v, c) /\ \A o \in WornBy(u, c) : u.wear_loc[o] = v.wear_loc[o]
  /\ u.flying[c] => v.flying[c]
  /\ \A x \in Carried(u, c), y \in WornBy(u, c) :
       Before(v.contents[c], x, y) => Before(u.contents[c], x, y)

LEMMA AsideTwice ==
  ASSUME NEW v, NEW u, NEW t, NEW c, Aside(v, u, c), Aside(u, t, c)
  PROVE  Aside(v, t, c)
<1>1. Still(v, t)
  BY DEF Aside, Still
<1>2. Carried(t, c) \subseteq Carried(v, c)
  BY DEF Aside
<1>3. \A o \in Objs : o \notin Carried(v, c) => t.wear_loc[o] = v.wear_loc[o]
  BY DEF Aside
<1>4. \A d \in Chars : d # c =>
        /\ t.contents[d] = v.contents[d] /\ t.mod_str[d] = v.mod_str[d] /\ t.armor[d] = v.armor[d]
        /\ t.hitroll[d] = v.hitroll[d] /\ t.flying[d] = v.flying[d] /\ t.kept[d] = v.kept[d]
  BY DEF Aside
<1>5. QED
  BY <1>1, <1>2, <1>3, <1>4 DEF Aside

LEMMA LessTwice ==
  ASSUME NEW v, NEW u, NEW t, NEW c, Less(v, u, c), Less(u, t, c), Carried(t, c) \subseteq Carried(u, c)
  PROVE  Less(v, t, c)
<1>1. /\ WornBy(t, c) \subseteq WornBy(u, c) /\ WornBy(u, c) \subseteq WornBy(v, c)
      /\ \A o \in WornBy(t, c) : t.wear_loc[o] = u.wear_loc[o]
      /\ \A o \in WornBy(u, c) : u.wear_loc[o] = v.wear_loc[o]
      /\ (t.flying[c] => u.flying[c]) /\ (u.flying[c] => v.flying[c])
  BY DEF Less
<1>2. ASSUME NEW x \in Carried(t, c), NEW y \in WornBy(t, c), Before(v.contents[c], x, y)
      PROVE  Before(t.contents[c], x, y)
  <2>1. x \in Carried(u, c) /\ y \in WornBy(u, c)
    BY <1>1
  <2>2. Before(u.contents[c], x, y)
    BY <1>2, <2>1 DEF Less
  <2>3. QED
    BY <1>2, <2>2 DEF Less
<1>3. QED
  BY <1>1, <1>2 DEF Less

LEMMA EvenTwice ==
  ASSUME NEW v, NEW u, NEW t, NEW c, NEW m \in Int, NEW n \in Int, NEW i \in Int, NEW j \in Int,
         StrOf(v, c) \in Int, HitOf(v, c) \in Int,
         Even(v, u, c, m, n), Even(u, t, c, i, j)
  PROVE  Even(v, t, c, m + i, n + j)
  BY DEF Even

(* Others wear what they wore.                                              *)
LEMMA OthersWear ==
  ASSUME scene \in Scenes, NEW v, Sound(v), NEW u, NEW c \in Chars, Aside(v, u, c)
  PROVE  \A d \in Chars : d # c => SameWear(v, u, d) /\ Even(v, u, d, 0, 0)
<1> SUFFICES ASSUME NEW d \in Chars, d # c
             PROVE  SameWear(v, u, d) /\ Even(v, u, d, 0, 0)
  OBVIOUS
<1>1. Carried(u, d) = Carried(v, d)
  BY DEF Aside, Carried
<1>2. \A o \in Carried(v, d) : o \in Objs /\ o \notin Carried(v, c)
  BY CarriedIs, ThingsAre, OneBearer
<1>3. \A o \in Carried(v, d) : u.wear_loc[o] = v.wear_loc[o]
  BY <1>2 DEF Aside
<1>4. \A o : o \in WornBy(u, d) <=> o \in WornBy(v, d)
  BY <1>1, <1>3, InUseIs
<1>5. WornBy(u, d) = WornBy(v, d) /\ \A o \in WornBy(v, d) : u.wear_loc[o] = v.wear_loc[o]
  BY <1>3, <1>4, InUseIs
<1>6. SameWear(v, u, d)
  BY <1>5 DEF SameWear, Aside, Still
<1>7. WornStr(u, d) = WornStr(v, d) /\ WornAC(u, d) = WornAC(v, d) /\ WornHit(u, d) = WornHit(v, d)
  BY <1>6, WearKept
<1>8. u.mod_str[d] = v.mod_str[d] /\ u.armor[d] = v.armor[d] /\ u.hitroll[d] = v.hitroll[d]
  BY DEF Aside
<1>9. StrOf(v, d) \in Int /\ HitOf(v, d) \in Int
  BY BalanceTypes
<1>10. Even(v, u, d, 0, 0)
  <2>1. StrOf(u, d) = StrOf(v, d) /\ ArmOf(u, d) = ArmOf(v, d) /\ HitOf(u, d) = HitOf(v, d)
    BY <1>7, <1>8 DEF StrOf, ArmOf, HitOf
  <2>2. QED
    BY <1>9, <2>1 DEF Even
<1>11. QED
  BY <1>6, <1>10

-----------------------------------------------------------------------------
(* What a piece adds.                                                       *)
Strengths(ds) == [i \in 1 .. Len(ds) |-> ds[i][1]]
Hits(ds) == [i \in 1 .. Len(ds) |-> ds[i][2]]
Swing(o) == SumOf([i \in DOMAIN kit[o].affects |-> Abs(kit[o].affects[i])])

Sums(ds, m, n, b) ==
  /\ ds \in Seq(Int \X Int) /\ m \in Int /\ n \in Int /\ b \in Int
  /\ SumOf(Strengths(ds)) = m /\ SumOf(Hits(ds)) = n
  /\ \A k \in 0 .. Len(ds) : Part(Strengths(ds), k) >= -b

(* The affects themselves, and one of the spell on an enchanted piece.      *)
AffectList(v, o, a, ds) ==
  /\ ds \in Seq(Int \X Int) /\ a \in Seq(Int) /\ Len(a) \in Nat
  /\ Len(ds) = Len(a) + Charm(v, o)
  /\ \A i \in 1 .. Len(a) : ds[i][1] = a[i] /\ ds[i][2] = 0
  /\ o \in v.enchanted => ds[Len(ds)][1] = 0 /\ ds[Len(ds)][2] = 1

(* What Parts says.                                                         *)
Summing(f, n) ==
  /\ Part(f, 0) = 0 /\ Part(f, n) = SumOf(f)
  /\ \A k \in 0 .. n : Part(f, k) \in Int
  /\ \A k \in 1 .. n : Part(f, k) = Part(f, k - 1) + f[k]

LEMMA PartsSum ==
  ASSUME NEW n \in Nat, NEW f \in [1 .. n -> Int]
  PROVE  Summing(f, n)
  BY Parts DEF Summing

(* f goes on where a ends, with one more at most.                           *)
GoesOn(f, m, a, n) ==
  /\ m \in Nat /\ n \in 0 .. m /\ f \in [1 .. m -> Int] /\ a \in [1 .. n -> Int]
  /\ (\A i \in 1 .. n : f[i] = a[i]) /\ (m = n \/ m = n + 1)

LEMMA SumsFirst ==
  ASSUME NEW m, NEW n, NEW f, NEW a, GoesOn(f, m, a, n)
  PROVE  /\ SumOf(f) = SumOf(a) + (IF m = n THEN 0 ELSE f[m])
         /\ SumOf(f) \in Int
<1>0. /\ m \in Nat /\ n \in 0 .. m /\ f \in [1 .. m -> Int] /\ a \in [1 .. n -> Int]
      /\ (\A i \in 1 .. n : f[i] = a[i]) /\ (m = n \/ m = n + 1)
  BY DEF GoesOn
<1>1. Part(f, n) = SumOf(a)
  BY <1>0, PartsSame
<1>2. Summing(f, m)
  BY <1>0, PartsSum
<1>a. m \in 0 .. m
  BY <1>0
<1>3. Part(f, m) = SumOf(f) /\ Part(f, m) \in Int /\ Part(f, n) \in Int
  BY <1>0, <1>2, <1>a DEF Summing
<1>4. CASE m = n
  BY <1>1, <1>3, <1>4
<1>5. CASE m = n + 1
  <2>1. m \in 1 .. m /\ m - 1 = n
    BY <1>0, <1>5
  <2>2. Part(f, m) = Part(f, m - 1) + f[m]
    BY <1>2, <2>1 DEF Summing
  <2>3. QED
    BY <1>0, <1>1, <1>3, <1>5, <2>1, <2>2
<1>6. QED
  BY <1>0, <1>4, <1>5

LEMMA AffectsAre ==
  ASSUME scene \in Scenes, NEW v, NEW o \in Things, NEW a, a = kit[o].affects, NEW ds, ds = Affects(v, o)
  PROVE  AffectList(v, o, a, ds)
<1>1. a \in Seq(Int) /\ DOMAIN a = 1 .. Len(a) /\ Len(a) \in Nat
  BY ThingsAre DEF Prototype
<1>2. PICK P : P = Int \X Int
  OBVIOUS
<1>3. PICK b : b = [i \in 1 .. Len(a) |-> <<a[i], 0>>]
  OBVIOUS
<1>4. /\ b \in Seq(P) /\ Len(b) = Len(a)
      /\ \A i \in 1 .. Len(a) : b[i][1] = a[i] /\ b[i][2] = 0
  BY <1>1, <1>2, <1>3
<1>5. CASE o \in v.enchanted
  <2>1. PICK e : e = <<<<0, 1>>>>
    OBVIOUS
  <2>2. e \in Seq(P) /\ Len(e) = 1 /\ e[1][1] = 0 /\ e[1][2] = 1
    BY <1>2, <2>1
  <2>3. ds = b \o e
    BY <1>1, <1>3, <1>5, <2>1 DEF Affects
  <2>4. /\ ds \in Seq(P) /\ Len(ds) = Len(a) + 1
        /\ \A i \in 1 .. Len(a) : ds[i] = b[i]
        /\ ds[Len(a) + 1] = e[1]
    <3>1. b \in Seq(P) /\ e \in Seq(P)
      BY <1>4, <2>2
    <3>a. ds \in Seq(P) /\ Len(ds) = Len(b) + Len(e)
      BY <2>3, <3>1, ConcatProperties
    <3>b. \A i \in 1 .. (Len(b) + Len(e)) : ds[i] = IF i <= Len(b) THEN b[i] ELSE e[i - Len(b)]
      BY <2>3, <3>1, ConcatProperties
    <3>c. Len(b) = Len(a) /\ Len(e) = 1
      BY <1>4, <2>2
    <3>2. ds \in Seq(P) /\ Len(ds) = Len(a) + 1
      BY <3>a, <3>c
    <3>3. \A i \in 1 .. (Len(a) + 1) : ds[i] = IF i <= Len(a) THEN b[i] ELSE e[i - Len(a)]
      BY <3>b, <3>c
    <3>d. PICK n \in Nat : n = Len(a)
      BY <1>1
    <3>e. \A i \in 1 .. (n + 1) : ds[i] = IF i <= n THEN b[i] ELSE e[i - n]
      BY <3>3, <3>d
    <3>f. /\ \A i \in 1 .. n : i \in 1 .. (n + 1) /\ i <= n
          /\ n + 1 \in 1 .. (n + 1) /\ ~(n + 1 <= n) /\ (n + 1) - n = 1
      OBVIOUS
    <3>g. \A i \in 1 .. n : ds[i] = b[i]
      BY <3>e, <3>f
    <3>h. ds[n + 1] = e[1]
      BY <3>e, <3>f
    <3>4. QED
      BY <3>2, <3>d, <3>g, <3>h
  <2>5. /\ \A i \in 1 .. Len(a) : ds[i][1] = a[i] /\ ds[i][2] = 0
        /\ ds[Len(ds)][1] = 0 /\ ds[Len(ds)][2] = 1
    BY <1>4, <2>2, <2>4
  <2>6. QED
    BY <1>1, <1>2, <1>5, <2>4, <2>5 DEF Charm, AffectList
<1>6. CASE o \notin v.enchanted
  <2>1. ds = b \o <<>>
    BY <1>1, <1>3, <1>6 DEF Affects
  <2>2. ds = b
    BY <1>4, <2>1
  <2>3. QED
    BY <1>1, <1>2, <1>4, <1>6, <2>2 DEF Charm, AffectList
<1>7. QED
  BY <1>5, <1>6

(* What putting it on and taking it off add: with sign 1 and -1.            *)
LEMMA ListSums ==
  ASSUME scene \in Scenes, NEW v, NEW o \in Things, NEW sign \in {1, -1},
         NEW rs \in Seq(Int \X Int), Len(rs) = Len(Affects(v, o)),
         \A i \in 1 .. Len(rs) : /\ rs[i][1] = sign * Affects(v, o)[i][1]
                                 /\ rs[i][2] = sign * Affects(v, o)[i][2]
  PROVE  Sums(rs, sign * Might(o), sign * Charm(v, o), Swing(o))
<1>1. PICK a : a = kit[o].affects
  OBVIOUS
<1>2. PICK ds : ds = Affects(v, o)
  OBVIOUS
<1>3. AffectList(v, o, a, ds)
  BY <1>1, <1>2, AffectsAre
<1>4. PICK n \in Nat : n = Len(a)
  BY <1>3 DEF AffectList
<1>5. PICK m \in Nat : m = Len(ds)
  BY <1>3 DEF AffectList
<1>6. /\ Charm(v, o) = (IF m = n THEN 0 ELSE 1) /\ (m = n \/ m = n + 1) /\ n \in 0 .. m
      /\ (m = n + 1 => o \in v.enchanted)
  <2>1. m = n + Charm(v, o)
    BY <1>3, <1>4, <1>5 DEF AffectList
  <2>2. QED
    BY <2>1 DEF Charm
<1>7. PICK f : f = Strengths(rs)
  OBVIOUS
<1>8. PICK h : h = Hits(rs)
  OBVIOUS
<1>9. Len(rs) = m /\ \A i \in 1 .. m : rs[i][1] \in Int /\ rs[i][2] \in Int
  BY <1>2, <1>5
<1>10. f \in [1 .. m -> Int] /\ h \in [1 .. m -> Int] /\ \A i \in 1 .. m : f[i] = rs[i][1] /\ h[i] = rs[i][2]
  BY <1>7, <1>8, <1>9 DEF Strengths, Hits
<1>11. \A i \in 1 .. m : rs[i][1] = sign * ds[i][1] /\ rs[i][2] = sign * ds[i][2]
  BY <1>2, <1>9
<1>12. a \in [1 .. n -> Int] /\ DOMAIN a = 1 .. n
  BY <1>3, <1>4 DEF AffectList
<1>13. \A i \in 1 .. n : ds[i][1] = a[i] /\ ds[i][2] = 0
  BY <1>3, <1>4 DEF AffectList
<1>14. \A i \in 1 .. n : f[i] = sign * a[i] /\ h[i] = 0
  <2> TAKE i \in 1 .. n
  <2>1. i \in 1 .. m /\ a[i] \in Int
    BY <1>6, <1>12
  <2>2. f[i] = sign * ds[i][1] /\ h[i] = sign * ds[i][2]
    BY <1>10, <1>11, <2>1
  <2>3. QED
    BY <1>13, <2>2
<1>15. m = n + 1 => f[m] = 0 /\ h[m] = sign
  <2>1. HAVE m = n + 1
  <2>2. m \in 1 .. m /\ ds[m][1] = 0 /\ ds[m][2] = 1
    BY <1>3, <1>5, <1>6, <2>1 DEF AffectList
  <2>3. f[m] = sign * ds[m][1] /\ h[m] = sign * ds[m][2]
    BY <1>10, <1>11, <2>2
  <2>4. QED
    BY <2>2, <2>3
<1>16. PICK p : p = [i \in 1 .. n |-> sign * a[i]]
  OBVIOUS
<1>17. p \in [1 .. n -> Int] /\ \A i \in 1 .. n : p[i] = sign * a[i]
  BY <1>12, <1>16
<1>18. SumOf(f) = SumOf(p) /\ SumOf(f) \in Int
  <2>1. \A i \in 1 .. n : f[i] = p[i]
    BY <1>14, <1>17
  <2>a. GoesOn(f, m, p, n)
    BY <1>6, <1>10, <1>17, <2>1 DEF GoesOn
  <2>2. SumOf(f) = SumOf(p) + (IF m = n THEN 0 ELSE f[m]) /\ SumOf(f) \in Int
    BY <2>a, SumsFirst
  <2>3. (IF m = n THEN 0 ELSE f[m]) = 0
    BY <1>6, <1>15
  <2>4. SumOf(p) \in Int
    BY <1>17, PartsSum DEF Summing
  <2>5. QED
    BY <2>2, <2>3, <2>4
<1>19. SumOf(p) = sign * SumOf(a)
  <2>1. CASE sign = 1
    <3>1. \A i \in 1 .. n : p[i] = a[i]
      BY <1>12, <1>17, <2>1
    <3>2. p = a
      BY <1>12, <1>17, <3>1
    <3>3. SumOf(a) \in Int
      BY <1>12, PartsSum DEF Summing
    <3>4. QED
      BY <2>1, <3>2, <3>3
  <2>2. CASE sign = -1
    <3>1. \A i \in 1 .. n : p[i] = -a[i]
      BY <1>12, <1>17, <2>2
    <3>2. SumOf(p) = -SumOf(a)
      BY <1>12, <1>17, <3>1, PartsOpposite
    <3>3. SumOf(a) \in Int
      BY <1>12, PartsSum DEF Summing
    <3>4. QED
      BY <2>2, <3>2, <3>3
  <2>3. QED
    BY <2>1, <2>2
<1>20. SumOf(h) = sign * Charm(v, o) /\ SumOf(h) \in Int
  <2>1. PICK z : z = [i \in 1 .. n |-> 0]
    OBVIOUS
  <2>2. z \in [1 .. n -> Int] /\ \A i \in 1 .. n : z[i] = 0
    BY <2>1
  <2>3. \A i \in 1 .. n : h[i] = z[i]
    BY <1>14, <2>2
  <2>a. GoesOn(h, m, z, n)
    BY <1>6, <1>10, <2>2, <2>3 DEF GoesOn
  <2>4. SumOf(h) = SumOf(z) + (IF m = n THEN 0 ELSE h[m]) /\ SumOf(h) \in Int
    BY <2>a, SumsFirst
  <2>b. n \in 0 .. n
    OBVIOUS
  <2>5. Part(z, n) = 0
    BY <2>2, <2>b, PartsZero
  <2>6. SumOf(z) = 0
    BY <2>2, <2>5, PartsSum DEF Summing
  <2>7. QED
    BY <1>6, <1>15, <2>4, <2>6
<1>21. PICK g : g = [i \in 1 .. m |-> Abs(f[i])]
  OBVIOUS
<1>22. g \in [1 .. m -> Int] /\ \A i \in 1 .. m : g[i] = Abs(f[i])
  BY <1>10, <1>21 DEF Abs
<1>23. PICK b : b = [i \in 1 .. n |-> Abs(a[i])]
  OBVIOUS
<1>24. b \in [1 .. n -> Int] /\ \A i \in 1 .. n : b[i] = Abs(a[i])
  BY <1>12, <1>23 DEF Abs
<1>25. SumOf(g) = SumOf(b)
  <2>1. ASSUME NEW i \in 1 .. n PROVE g[i] = b[i]
    <3>1. i \in 1 .. m /\ a[i] \in Int
      BY <1>6, <1>12
    <3>2. g[i] = Abs(sign * a[i])
      BY <1>14, <1>22, <3>1
    <3>a. ASSUME sign = 1 PROVE Abs(sign * a[i]) = Abs(a[i])
      <4>1. sign * a[i] = a[i]
        BY <3>1, <3>a
      <4>2. QED
        BY <4>1
    <3>b. ASSUME sign = -1 PROVE Abs(sign * a[i]) = Abs(a[i])
      <4>1. sign * a[i] = -a[i]
        BY <3>1, <3>b
      <4>2. Abs(-a[i]) = Abs(a[i])
        BY <3>1 DEF Abs
      <4>3. QED
        BY <4>1, <4>2
    <3>3. Abs(sign * a[i]) = Abs(a[i])
      BY <3>a, <3>b
    <3>4. QED
      BY <1>24, <3>2, <3>3
  <2>a. GoesOn(g, m, b, n)
    BY <1>6, <1>22, <1>24, <2>1 DEF GoesOn
  <2>2. SumOf(g) = SumOf(b) + (IF m = n THEN 0 ELSE g[m]) /\ SumOf(g) \in Int
    BY <2>a, SumsFirst
  <2>3. (IF m = n THEN 0 ELSE g[m]) = 0
    <3>1. CASE m = n
      BY <3>1
    <3>2. CASE m = n + 1
      <4>1. f[m] = 0 /\ m \in 1 .. m
        BY <1>15, <3>2
      <4>2. g[m] = Abs(0)
        BY <1>22, <4>1
      <4>3. QED
        BY <4>2 DEF Abs
    <3>3. QED
      BY <1>6, <3>1, <3>2
  <2>4. SumOf(b) \in Int
    BY <1>24, PartsSum DEF Summing
  <2>5. QED
    BY <2>2, <2>3, <2>4
<1>26. SumOf(b) = Swing(o) /\ Swing(o) \in Int
  <2>1. b = [i \in DOMAIN kit[o].affects |-> Abs(kit[o].affects[i])]
    BY <1>1, <1>12, <1>23
  <2>2. SumOf(b) \in Int
    BY <1>24, PartsSum DEF Summing
  <2>3. QED
    BY <2>1, <2>2 DEF Swing
<1>27. SumOf(a) = Might(o)
  BY <1>1 DEF Might
<1>28. \A k \in 0 .. m : Part(f, k) >= -Swing(o)
  <2>1. \A k \in 0 .. m : Part(f, k) >= -SumOf(g)
    BY <1>10, <1>22, PartsAbs
  <2>2. QED
    BY <1>25, <1>26, <2>1
<1>29. SumOf(f) = sign * Might(o) /\ sign * Might(o) \in Int /\ sign * Charm(v, o) \in Int
  BY <1>18, <1>19, <1>20, <1>27
<1>30. QED
  BY <1>7, <1>8, <1>9, <1>20, <1>26, <1>28, <1>29 DEF Sums

LEMMA AffectsSum ==
  ASSUME scene \in Scenes, NEW v, NEW o \in Things
  PROVE  Sums(Affects(v, o), Might(o), Charm(v, o), Swing(o))
<1>1. PICK ds : ds = Affects(v, o)
  OBVIOUS
<1>2. ds \in Seq(Int \X Int)
  BY <1>1, AffectsAre DEF AffectList
<1>3. \A i \in 1 .. Len(ds) : ds[i] \in Int \X Int
  BY <1>2
<1>4. \A i \in 1 .. Len(ds) : ds[i][1] = 1 * ds[i][1] /\ ds[i][2] = 1 * ds[i][2]
  BY <1>3
<1>5. PICK sign \in {1, -1} : sign = 1
  OBVIOUS
<1>6. Sums(ds, sign * Might(o), sign * Charm(v, o), Swing(o))
  BY <1>1, <1>2, <1>4, <1>5, ListSums
<1>7. sign * Might(o) = Might(o) /\ sign * Charm(v, o) = Charm(v, o)
  BY <1>5, MightIs DEF Charm
<1>8. QED
  BY <1>1, <1>6, <1>7

LEMMA RevertsSum ==
  ASSUME scene \in Scenes, NEW v, NEW o \in Things
  PROVE  Sums(Reverts(v, o), -Might(o), -Charm(v, o), Swing(o))
<1>1. PICK ds : ds = Affects(v, o)
  OBVIOUS
<1>2. PICK rs : rs = Reverts(v, o)
  OBVIOUS
<1>3. ds \in Seq(Int \X Int)
  BY <1>1, AffectsAre DEF AffectList
<1>4. PICK m \in Nat : m = Len(ds) /\ DOMAIN ds = 1 .. m
  BY <1>3
<1>5. \A i \in 1 .. m : ds[i][1] \in Int /\ ds[i][2] \in Int
  <2>1. \A i \in 1 .. m : ds[i] \in Int \X Int
    BY <1>3, <1>4
  <2>2. QED
    BY <2>1
<1>6. rs = [i \in 1 .. m |-> <<-ds[i][1], -ds[i][2]>>]
  BY <1>1, <1>2, <1>4 DEF Reverts
<1>7. rs \in Seq(Int \X Int) /\ Len(rs) = m
  BY <1>5, <1>6
<1>8. PICK sign \in {1, -1} : sign = -1
  OBVIOUS
<1>9. \A i \in 1 .. m : rs[i][1] = sign * ds[i][1] /\ rs[i][2] = sign * ds[i][2]
  BY <1>5, <1>6, <1>8
<1>10. Sums(rs, sign * Might(o), sign * Charm(v, o), Swing(o))
  BY <1>1, <1>4, <1>7, <1>9, ListSums
<1>11. sign * Might(o) = -Might(o) /\ sign * Charm(v, o) = -Charm(v, o)
  BY <1>8, MightIs DEF Charm
<1>12. QED
  BY <1>2, <1>10, <1>11

-----------------------------------------------------------------------------
(* affect_modify by itself: only strength and hitroll of c change.          *)
ShiftBy(v, u, c, m, n) ==
  /\ u \in WType /\ u.contents = v.contents /\ u.wear_loc = v.wear_loc /\ Still(v, u)
  /\ u.light = v.light /\ u.armor = v.armor /\ u.flying = v.flying /\ u.kept = v.kept
  /\ u.mod_str[c] = v.mod_str[c] + m /\ u.hitroll[c] = v.hitroll[c] + n
  /\ \A d \in Chars : d # c => u.mod_str[d] = v.mod_str[d] /\ u.hitroll[d] = v.hitroll[d]

LEMMA Shifting ==
  ASSUME NEW v \in WType, NEW c \in Chars, NEW d \in Int \X Int, NEW found
  PROVE  ShiftBy(v, Shifted(v, c, d, found), c, d[1], d[2])
<1>1. PICK m \in Int : m = d[1]
  OBVIOUS
<1>2. PICK n \in Int : n = d[2]
  OBVIOUS
<1>3. PICK u : u = Shifted(v, c, d, found)
  OBVIOUS
<1>4. u = [v EXCEPT !.mod_str[c] = @ + m, !.hitroll[c] = @ + n]
  BY <1>1, <1>2, <1>3 DEF Shifted
<1>5. /\ u.contents = v.contents /\ u.wear_loc = v.wear_loc
      /\ u.light = v.light /\ u.armor = v.armor /\ u.flying = v.flying /\ u.kept = v.kept
  BY <1>4 DEF WType
<1>6. Still(v, u)
  BY <1>4 DEF WType, Still
<1>7. v.mod_str \in [Chars -> Int] /\ v.hitroll \in [Chars -> Int]
  BY Fields
<1>8. u.mod_str = [v.mod_str EXCEPT ![c] = @ + m] /\ u.hitroll = [v.hitroll EXCEPT ![c] = @ + n]
  BY <1>4 DEF WType
<1>9. /\ u.mod_str[c] = v.mod_str[c] + m /\ u.hitroll[c] = v.hitroll[c] + n
      /\ \A e \in Chars : e # c => u.mod_str[e] = v.mod_str[e] /\ u.hitroll[e] = v.hitroll[e]
  BY <1>7, <1>8
<1>10. u.mod_str \in [Chars -> Int] /\ u.hitroll \in [Chars -> Int]
  BY <1>7, <1>8
<1>11. u \in WType
  BY <1>4, <1>8, <1>10 DEF WType
<1>12. ShiftBy(v, u, c, m, n)
  BY <1>5, <1>6, <1>9, <1>11 DEF ShiftBy
<1>13. QED
  BY <1>1, <1>2, <1>3, <1>12

LEMMA ShiftNone ==
  ASSUME NEW v \in WType, NEW c \in Chars
  PROVE  ShiftBy(v, v, c, 0, 0)
  BY Fields DEF ShiftBy, Still

LEMMA ShiftTwice ==
  ASSUME NEW v \in WType, NEW u, NEW t, NEW c \in Chars, NEW m \in Int, NEW n \in Int,
         NEW i \in Int, NEW j \in Int, ShiftBy(v, u, c, m, n), ShiftBy(u, t, c, i, j)
  PROVE  ShiftBy(v, t, c, m + i, n + j)
<1>1. v.mod_str[c] \in Int /\ v.hitroll[c] \in Int
  BY Fields
<1>2. t.mod_str[c] = v.mod_str[c] + (m + i) /\ t.hitroll[c] = v.hitroll[c] + (n + j)
  BY <1>1 DEF ShiftBy
<1>3. /\ t \in WType /\ t.contents = v.contents /\ t.wear_loc = v.wear_loc
      /\ t.light = v.light /\ t.armor = v.armor /\ t.flying = v.flying /\ t.kept = v.kept
  BY DEF ShiftBy
<1>4. Still(v, t)
  BY DEF ShiftBy, Still
<1>5. \A d \in Chars : d # c => t.mod_str[d] = v.mod_str[d] /\ t.hitroll[d] = v.hitroll[d]
  BY DEF ShiftBy
<1>6. QED
  BY <1>2, <1>3, <1>4, <1>5 DEF ShiftBy

(* What a shift leaves alone.                                               *)
LEMMA ShiftKeeps ==
  ASSUME scene \in Scenes, NEW v, Sound(v), NEW u, NEW c \in Chars, NEW m \in Int, NEW n \in Int,
         ShiftBy(v, u, c, m, n)
  PROVE  /\ Sound(u) /\ Aside(v, u, c) /\ Less(v, u, c) /\ Even(v, u, c, m, n)
         /\ \A d : Carried(u, d) = Carried(v, d) /\ WornBy(u, d) = WornBy(v, d)
         /\ \A d : InUse(u, d) = InUse(v, d) /\ Lamps(u, d) = Lamps(v, d)
<1>1. Sound(u)
  BY SoundSame DEF ShiftBy
<1>2. \A d : Carried(u, d) = Carried(v, d) /\ WornBy(u, d) = WornBy(v, d)
  BY DEF Carried, WornBy, ShiftBy
<1>3. \A d : SameWear(v, u, d)
  BY <1>2 DEF SameWear, ShiftBy, Still
<1>4. \A d : InUse(u, d) = InUse(v, d) /\ Lamps(u, d) = Lamps(v, d)
  BY <1>3, WearKept
<1>5. WornStr(u, c) = WornStr(v, c) /\ WornAC(u, c) = WornAC(v, c) /\ WornHit(u, c) = WornHit(v, c)
  BY <1>3, WearKept
<1>6. Aside(v, u, c)
  BY <1>2 DEF Aside, ShiftBy
<1>7. Less(v, u, c)
  BY <1>2 DEF Less, ShiftBy
<1>8. Even(v, u, c, m, n)
  <2>1. WornStr(v, c) \in Int /\ WornHit(v, c) \in Int /\ v.mod_str[c] \in Int /\ v.hitroll[c] \in Int
    BY WornTypes
  <2>2. u.mod_str[c] = v.mod_str[c] + m /\ u.hitroll[c] = v.hitroll[c] + n /\ u.armor[c] = v.armor[c]
    BY DEF ShiftBy
  <2>3. StrOf(u, c) = StrOf(v, c) + m
    BY <1>5, <2>1, <2>2 DEF StrOf
  <2>4. HitOf(u, c) = HitOf(v, c) + n
    BY <1>5, <2>1, <2>2 DEF HitOf
  <2>5. ArmOf(u, c) = ArmOf(v, c)
    BY <1>5, <2>2 DEF ArmOf
  <2>6. QED
    BY <2>3, <2>4, <2>5 DEF Even
<1>9. QED
  BY <1>1, <1>2, <1>4, <1>6, <1>7, <1>8

(* affect_modify within affect_modify, for all of ds.                       *)
LEMMA ModifyShifts ==
  ASSUME NEW v \in WType, NEW c \in Chars, NEW found, NEW ds, NEW m, NEW n, NEW b, Sums(ds, m, n, b)
  PROVE  ShiftBy(v, ModifyAll(v, c, ds, found, Shifted), c, m, n)
<1>1. ds \in Seq(Int \X Int) /\ SumOf(Strengths(ds)) = m /\ SumOf(Hits(ds)) = n
  BY DEF Sums
<1>2. PICK l \in Nat : l = Len(ds) /\ \A k \in 1 .. l : ds[k] \in Int \X Int
  BY <1>1
<1>3. PICK f : f = Strengths(ds)
  OBVIOUS
<1>4. PICK h : h = Hits(ds)
  OBVIOUS
<1>5. /\ f \in [1 .. l -> Int] /\ h \in [1 .. l -> Int]
      /\ \A k \in 1 .. l : ds[k][1] = f[k] /\ ds[k][2] = h[k]
  <2>1. f = [k \in 1 .. l |-> ds[k][1]] /\ h = [k \in 1 .. l |-> ds[k][2]]
    BY <1>2, <1>3, <1>4 DEF Strengths, Hits
  <2>2. \A k \in 1 .. l : ds[k][1] \in Int /\ ds[k][2] \in Int
    BY <1>2
  <2>3. QED
    BY <2>1, <2>2
<1>6. Summing(f, l) /\ Summing(h, l)
  BY <1>5, PartsSum
<1> DEFINE D == [k \in 0 .. l |-> {u \in WType : ShiftBy(v, u, c, Part(f, k), Part(h, k))}]
           F == [k \in 1 .. l |-> [x \in D[k - 1] |-> Shifted(x, c, ds[k], found)]]
<1>7. v \in D[0]
  <2>1. Part(f, 0) = 0 /\ Part(h, 0) = 0
    BY <1>6 DEF Summing
  <2>2. ShiftBy(v, v, c, Part(f, 0), Part(h, 0))
    BY <2>1, ShiftNone
  <2>3. 0 \in 0 .. l
    OBVIOUS
  <2>4. QED
    BY <2>2, <2>3
<1>8. ASSUME NEW k \in 1 .. l, NEW x \in D[k - 1] PROVE Shifted(x, c, ds[k], found) \in D[k]
  <2>1. k \in 0 .. l /\ k - 1 \in 0 .. l
    OBVIOUS
  <2>2. x \in WType /\ ShiftBy(v, x, c, Part(f, k - 1), Part(h, k - 1))
    BY <2>1
  <2>3. PICK t : t = Shifted(x, c, ds[k], found)
    OBVIOUS
  <2>4. ShiftBy(x, t, c, f[k], h[k])
    BY <1>2, <1>5, <2>2, <2>3, Shifting
  <2>5. /\ Part(f, k) = Part(f, k - 1) + f[k] /\ Part(h, k) = Part(h, k - 1) + h[k]
        /\ Part(f, k - 1) \in Int /\ Part(h, k - 1) \in Int
    BY <1>6, <2>1 DEF Summing
  <2>6. f[k] \in Int /\ h[k] \in Int
    BY <1>5
  <2>7. ShiftBy(v, t, c, Part(f, k), Part(h, k))
    BY <2>2, <2>4, <2>5, <2>6, ShiftTwice
  <2>8. t \in WType
    BY <2>4 DEF ShiftBy
  <2>9. QED
    BY <2>1, <2>3, <2>7, <2>8
<1> HIDE DEF D
<1>9. \A k \in 1 .. l : \A x \in D[k - 1] : F[k][x] = Shifted(x, c, ds[k], found)
  OBVIOUS
<1> HIDE DEF F
<1>10. \A k \in 1 .. l : \A x \in D[k - 1] : F[k][x] \in D[k]
  BY <1>8, <1>9
<1>11. PICK j : Runs(j, F, D, v, l)
  BY <1>7, <1>10, Recursion
<1> DEFINE Q(i) == i = [k \in 0 .. l |-> IF k = 0 THEN v ELSE Shifted(i[k - 1], c, ds[k], found)]
<1>12. Q(j)
  <2>1. j = [k \in 0 .. l |-> IF k = 0 THEN v ELSE F[k][j[k - 1]]] /\ \A k \in 0 .. l : j[k] \in D[k]
    BY <1>11 DEF Runs
  <2>2. \A k \in 0 .. l : k # 0 => k \in 1 .. l /\ k - 1 \in 0 .. l
    OBVIOUS
  <2>3. \A k \in 0 .. l : k # 0 => F[k][j[k - 1]] = Shifted(j[k - 1], c, ds[k], found)
    BY <1>9, <2>1, <2>2
  <2>4. QED
    BY <2>1, <2>3
<1> DEFINE i == CHOOSE step : Q(step)
<1>13. Q(i)
  BY <1>12
<1>14. ModifyAll(v, c, ds, found, Shifted) = i[l]
  BY <1>2 DEF ModifyAll
<1> HIDE DEF i
<1>15. i[0] = v /\ \A k \in 1 .. l : i[k] = Shifted(i[k - 1], c, ds[k], found)
  <2>1. \A k \in 0 .. l : i[k] = IF k = 0 THEN v ELSE Shifted(i[k - 1], c, ds[k], found)
    BY <1>13
  <2>2. 0 \in 0 .. l /\ \A k \in 1 .. l : k \in 0 .. l /\ k # 0
    OBVIOUS
  <2>3. QED
    BY <2>1, <2>2
<1> DEFINE G == {k \in 0 .. l : i[k] \in D[k]}
<1>16. 0 \in G
  BY <1>7, <1>15
<1>17. ASSUME NEW k \in 1 .. l, k - 1 \in G PROVE k \in G
  BY <1>8, <1>15, <1>17
<1> HIDE DEF G
<1>18. l \in G
  <2>1. \A k \in 0 .. l : k \in G
    BY <1>16, <1>17, Upward
  <2>2. QED
    BY <2>1
<1>19. ShiftBy(v, i[l], c, Part(f, l), Part(h, l))
  BY <1>18 DEF G, D
<1>20. Part(f, l) = m /\ Part(h, l) = n
  BY <1>1, <1>3, <1>4, <1>6 DEF Summing
<1>21. QED
  BY <1>14, <1>19, <1>20
-----------------------------------------------------------------------------
(* No light has gone on or out; c flies by what let c fly, or by no piece. *)
SameLight(v, u) == u.light = v.light /\ \A d \in Chars : Lamps(u, d) = Lamps(v, d)

Aloft(v, c) == v.flying[c] => v.kept[c] \/ IsAffected(c, "fly")
Flight(v, u, c) ==
  \/ Aloft(u, c)
  \/ /\ u.flying[c] = v.flying[c] /\ u.kept[c] = v.kept[c]
     /\ \A p \in InUse(v, c) : kit[p].flies => p \in InUse(u, c)

(* What affect_modify may do to c, with m for strength and n for hitroll.   *)
Turn(v, u, c, m, n) ==
  /\ Sound(u) /\ Aside(v, u, c) /\ Less(v, u, c) /\ Even(v, u, c, m, n)
  /\ SameLight(v, u) /\ Flight(v, u, c)

LEMMA FlightTwice ==
  ASSUME NEW v, NEW u, NEW t, NEW c, Flight(v, u, c), Flight(u, t, c)
  PROVE  Flight(v, t, c)
  BY DEF Flight, Aloft

LEMMA TurnTwice ==
  ASSUME scene \in Scenes, NEW v, Sound(v), NEW u, NEW t, NEW c \in Chars, NEW m \in Int, NEW n \in Int,
         NEW i \in Int, NEW j \in Int, Turn(v, u, c, m, n), Turn(u, t, c, i, j)
  PROVE  Turn(v, t, c, m + i, n + j)
<1>1. Sound(t) /\ Aside(v, t, c)
  BY AsideTwice DEF Turn
<1>2. Less(v, t, c)
  <2>1. Carried(t, c) \subseteq Carried(u, c)
    BY DEF Turn, Aside
  <2>2. QED
    BY <2>1, LessTwice DEF Turn
<1>3. Even(v, t, c, m + i, n + j)
  <2>1. StrOf(v, c) \in Int /\ HitOf(v, c) \in Int
    BY BalanceTypes
  <2>2. QED
    BY <2>1, EvenTwice DEF Turn
<1>4. SameLight(v, t)
  BY DEF Turn, SameLight
<1>5. Flight(v, t, c)
  BY FlightTwice DEF Turn
<1>6. QED
  BY <1>1, <1>2, <1>3, <1>4, <1>5 DEF Turn

LEMMA ShiftTurns ==
  ASSUME scene \in Scenes, NEW v, Sound(v), NEW u, NEW c \in Chars, NEW m \in Int, NEW n \in Int,
         ShiftBy(v, u, c, m, n)
  PROVE  Turn(v, u, c, m, n)
<1>1. /\ Sound(u) /\ Aside(v, u, c) /\ Less(v, u, c) /\ Even(v, u, c, m, n)
      /\ \A d : InUse(u, d) = InUse(v, d) /\ Lamps(u, d) = Lamps(v, d)
  BY ShiftKeeps
<1>2. SameLight(v, u)
  BY <1>1 DEF SameLight, ShiftBy
<1>3. Flight(v, u, c)
  BY <1>1 DEF Flight, ShiftBy
<1>4. QED
  BY <1>1, <1>2, <1>3 DEF Turn

-----------------------------------------------------------------------------
(* o is nobody's lamp in hand any more, and all others are.                 *)
NoLamp(v, u, o) == \A d \in Chars : Lamps(u, d) = Lamps(v, d) \ {o}

(* unequip_char: the piece comes off.                                       *)
Off(v, u, c, o) ==
  /\ Sound(u) /\ Aside(v, u, c) /\ Less(v, u, c) /\ Even(v, u, c, Might(o), Charm(v, o))
  /\ u.contents = v.contents /\ u.light = v.light /\ u.flying = v.flying /\ u.kept = v.kept
  /\ u.mod_str = v.mod_str /\ u.wear_loc[o] = "none"
  /\ \A p \in Objs \ {o} : u.wear_loc[p] = v.wear_loc[p]
  /\ InUse(u, c) = InUse(v, c) \ {o} /\ WornBy(u, c) = WornBy(v, c) \ {o}
  /\ NoLamp(v, u, o)

(* c no longer wears o, and nothing else is different.                      *)
Bared(v, u, c, o) ==
  /\ u.wear_loc[o] = "none" /\ \A p \in Objs \ {o} : u.wear_loc[p] = v.wear_loc[p]
  /\ \A d \in Chars : Carried(u, d) = Carried(v, d)
  /\ \A d \in Chars : d # c => WornBy(u, d) = WornBy(v, d)
  /\ WornBy(u, c) = WornBy(v, c) \ {o}

LEMMA Baring ==
  ASSUME scene \in Scenes, NEW v, Sound(v), NEW u, NEW c \in Chars, NEW o, Relocated(v, u, c, o, "none")
  PROVE  Bared(v, u, c, o)
<1>1. PICK loc : loc = "none"
  OBVIOUS
<1>2. Relocated(v, u, c, o, loc)
  BY <1>1
<1>3. /\ u.wear_loc[o] = loc /\ \A p \in Objs \ {o} : u.wear_loc[p] = v.wear_loc[p]
      /\ \A d \in Chars : Carried(u, d) = Carried(v, d)
      /\ \A d \in Chars : d # c => WornBy(u, d) = WornBy(v, d)
      /\ WornBy(u, c) = IF loc = "none" THEN WornBy(v, c) \ {o} ELSE WornBy(v, c) \cup {o}
  BY <1>2, SoundRelocated
<1>4. QED
  BY <1>1, <1>3 DEF Bared

LEMMA LampsLess ==
  ASSUME scene \in Scenes, NEW v, Sound(v), NEW u, NEW c \in Chars, NEW o \in Carried(v, c),
         Bared(v, u, c, o), u.lit = v.lit
  PROVE  NoLamp(v, u, o)
<1>0. /\ \A p \in Objs \ {o} : u.wear_loc[p] = v.wear_loc[p]
      /\ \A d \in Chars : d # c => WornBy(u, d) = WornBy(v, d)
      /\ WornBy(u, c) = WornBy(v, c) \ {o}
  BY DEF Bared
<1> SUFFICES ASSUME NEW d \in Chars, NEW p PROVE p \in Lamps(u, d) <=> p \in Lamps(v, d) \ {o}
  BY DEF NoLamp
<1>1. p \in WornBy(u, d) <=> p \in WornBy(v, d) \ {o}
  <2>1. CASE d = c
    BY <1>0, <2>1
  <2>2. CASE d # c
    <3>1. o \notin Carried(v, d)
      BY <2>2, OneBearer
    <3>2. o \notin WornBy(v, d)
      BY <3>1, InUseIs
    <3>3. QED
      BY <1>0, <2>2, <3>2
  <2>3. QED
    BY <2>1, <2>2
<1>2. p \in WornBy(v, d) => p \in Objs
  BY CarriedIs, ThingsAre
<1>3. p \in WornBy(v, d) \ {o} => u.wear_loc[p] = v.wear_loc[p]
  BY <1>0, <1>2
<1>4. QED
  BY <1>1, <1>3, InUseIs

LEMMA Doffing ==
  ASSUME scene \in Scenes, NEW v, Sound(v), NEW c \in Chars, NEW o \in InUse(v, c), NEW u,
         u = [v EXCEPT !.armor[c] = @ + ApplyAC(o, v.wear_loc[o]), !.wear_loc[o] = "none"]
  PROVE  Off(v, u, c, o)
<1>1. o \in Carried(v, c) /\ o \in Things /\ o \in Objs /\ v.wear_loc[o] # "none" /\ v.wear_loc[o] \notin Scabbards
  BY CarriedIs, ThingsAre, InUseIs
<1>2. PICK a \in Int : a = ApplyAC(o, v.wear_loc[o])
  BY <1>1, ArmourIs
<1>3. v \in WType /\ v.armor \in [Chars -> Int] /\ v.wear_loc \in [Objs -> WearLocs] /\ "none" \in WearLocs
  BY Fields, Places DEF Sound
<1>4. u = [v EXCEPT !.armor = [v.armor EXCEPT ![c] = @ + a], !.wear_loc = [v.wear_loc EXCEPT ![o] = "none"]]
  BY <1>2, <1>3 DEF WType
<1>5. PICK x : x = [v.armor EXCEPT ![c] = @ + a]
  OBVIOUS
<1>6. PICK l : l = [v.wear_loc EXCEPT ![o] = "none"]
  OBVIOUS
<1>7. x \in [Chars -> Int] /\ x[c] = v.armor[c] + a /\ \A d \in Chars : d # c => x[d] = v.armor[d]
  BY <1>3, <1>5
<1>8. l \in [Objs -> WearLocs]
  BY <1>3, <1>6
<1>9. u = [v EXCEPT !.armor = x, !.wear_loc = l]
  BY <1>4, <1>5, <1>6
<1>10. /\ u.contents = v.contents /\ u.light = v.light /\ u.flying = v.flying /\ u.kept = v.kept
       /\ u.mod_str = v.mod_str /\ u.hitroll = v.hitroll /\ u.armor = x /\ u.wear_loc = l
  BY <1>3, <1>9 DEF WType
<1>11. Still(v, u)
  BY <1>3, <1>9 DEF WType, Still
<1>12. u \in WType
  BY <1>3, <1>7, <1>8, <1>9 DEF WType
<1>13. Relocated(v, u, c, o, "none")
  BY <1>1, <1>3, <1>6, <1>10, <1>11, <1>12 DEF Relocated
<1>a. Sound(u) /\ Bared(v, u, c, o)
  BY <1>13, SoundRelocated, Baring
<1>14. /\ Sound(u) /\ u.wear_loc[o] = "none" /\ \A p \in Objs \ {o} : u.wear_loc[p] = v.wear_loc[p]
       /\ \A d \in Chars : Carried(u, d) = Carried(v, d)
       /\ \A d \in Chars : d # c => WornBy(u, d) = WornBy(v, d)
       /\ WornBy(u, c) = WornBy(v, c) \ {o}
  BY <1>a DEF Bared
<1>15. NoLamp(v, u, o)
  <2>1. u.lit = v.lit
    BY <1>11 DEF Still
  <2>2. QED
    BY <1>1, <1>a, <2>1, LampsLess
<1>16. \A p \in WornBy(u, c) : u.wear_loc[p] = v.wear_loc[p]
  <2>1. WornBy(v, c) \subseteq Objs
    BY CarriedIs, ThingsAre
  <2>2. QED
    BY <1>14, <2>1
<1>17. InUse(u, c) = InUse(v, c) \ {o}
  <2>1. \A p : p \in InUse(u, c) <=> p \in InUse(v, c) \ {o}
    BY <1>14, <1>16, InUseIs
  <2>2. QED
    BY <2>1
<1>18. Aside(v, u, c)
  <2>1. \A p \in Objs : p \notin Carried(v, c) => u.wear_loc[p] = v.wear_loc[p]
    BY <1>1, <1>14
  <2>2. QED
    BY <1>7, <1>10, <1>11, <1>14, <2>1 DEF Aside
<1>19. Less(v, u, c)
  BY <1>10, <1>14, <1>16 DEF Less
<1>20. OutOfUse(v, u, c, o)
  BY <1>11, <1>16, <1>17, InUseIs DEF OutOfUse, Still
<1>21. Even(v, u, c, Might(o), Charm(v, o))
  <2>1. /\ WornStr(v, c) = WornStr(u, c) + Might(o)
        /\ WornAC(v, c) = WornAC(u, c) + a
        /\ WornHit(v, c) = WornHit(u, c) + Charm(v, o)
    BY <1>2, <1>20, WornLess
  <2>2. /\ WornStr(u, c) \in Int /\ WornAC(u, c) \in Int /\ WornHit(u, c) \in Int
        /\ v.mod_str[c] \in Int /\ v.armor[c] \in Int /\ v.hitroll[c] \in Int
    BY <1>14, WornTypes
  <2>3. Might(o) \in Int /\ Charm(v, o) \in Int
    BY <1>1, MightIs DEF Charm
  <2>4. u.mod_str[c] = v.mod_str[c] /\ u.armor[c] = v.armor[c] + a /\ u.hitroll[c] = v.hitroll[c]
    BY <1>7, <1>10
  <2>5. StrOf(u, c) = StrOf(v, c) + Might(o)
    BY <2>1, <2>2, <2>3, <2>4 DEF StrOf
  <2>6. ArmOf(u, c) = ArmOf(v, c)
    BY <2>1, <2>2, <2>4 DEF ArmOf
  <2>7. HitOf(u, c) = HitOf(v, c) + Charm(v, o)
    BY <2>1, <2>2, <2>3, <2>4 DEF HitOf
  <2>8. QED
    BY <2>5, <2>6, <2>7 DEF Even
<1>22. QED
  BY <1>10, <1>14, <1>15, <1>17, <1>18, <1>19, <1>21 DEF Off
-----------------------------------------------------------------------------
(* unequip_char: its light goes out and its power ends.                     *)
Rest(v, u) ==
  /\ u \in WType /\ u.contents = v.contents /\ u.wear_loc = v.wear_loc /\ Still(v, u)
  /\ u.mod_str = v.mod_str /\ u.armor = v.armor /\ u.hitroll = v.hitroll

Dimmer(f, g, r) == g = [f EXCEPT ![r] = @ - 1]

DimTo(v, u, c, o) ==
  /\ Rest(v, u) /\ u.flying = v.flying /\ u.kept = v.kept
  /\ o \notin v.lit => u.light = v.light
  /\ o \in v.lit /\ v.light[in_room[c]] > 0 => Dimmer(v.light, u.light, in_room[c])

LEMMA Dimming ==
  ASSUME NEW v \in WType, NEW c \in Chars, in_room[c] \in Rooms, NEW o
  PROVE  DimTo(v, Dims(v, c, o), c, o)
<1>1. PICK r \in Rooms : r = in_room[c]
  OBVIOUS
<1>2. PICK u : u = Dims(v, c, o)
  OBVIOUS
<1>3. v.light \in [Rooms -> Int]
  BY Fields
<1>4. CASE o \in v.lit /\ v.light[r] > 0
  <2>1. PICK l : l = [v.light EXCEPT ![r] = @ - 1]
    OBVIOUS
  <2>2. l \in [Rooms -> Int]
    BY <1>3, <2>1
  <2>3. u = [v EXCEPT !.light = l]
    BY <1>1, <1>2, <1>4, <2>1 DEF Dims, WType
  <2>4. /\ u \in WType /\ u.contents = v.contents /\ u.wear_loc = v.wear_loc
        /\ u.mod_str = v.mod_str /\ u.armor = v.armor /\ u.hitroll = v.hitroll
        /\ u.flying = v.flying /\ u.kept = v.kept /\ u.light = l
    BY <2>2, <2>3 DEF WType
  <2>5. Still(v, u)
    BY <2>3 DEF WType, Still
  <2>6. Rest(v, u)
    BY <2>4, <2>5 DEF Rest
  <2>7. QED
    BY <1>1, <1>2, <1>4, <2>1, <2>4, <2>6 DEF DimTo, Dimmer
<1>5. CASE ~(o \in v.lit /\ v.light[r] > 0)
  <2>1. u = v
    BY <1>1, <1>2, <1>5 DEF Dims
  <2>2. QED
    BY <1>1, <1>2, <1>5, <2>1 DEF DimTo, Rest, Still
<1>6. QED
  BY <1>4, <1>5

GoneTo(v, u, c, o) ==
  /\ Rest(v, u) /\ u.light = v.light
  /\ \A d \in Chars : d # c => u.flying[d] = v.flying[d] /\ u.kept[d] = v.kept[d]
  /\ u.flying[c] => v.flying[c]
  /\ kit[o].flies => Aloft(u, c)
  /\ ~kit[o].flies => u.flying = v.flying /\ u.kept = v.kept

LEMMA Landing ==
  ASSUME NEW v \in WType, NEW c \in Chars, NEW o, NEW found
  PROVE  GoneTo(v, PowerGone(v, c, o, found), c, o)
<1>1. PICK u : u = PowerGone(v, c, o, found)
  OBVIOUS
<1>2. v.flying \in [Chars -> BOOLEAN] /\ v.kept \in [Chars -> BOOLEAN]
  BY Fields
<1>3. CASE ~kit[o].flies
  <2>1. u = v
    BY <1>1, <1>3 DEF PowerGone
  <2>2. QED
    BY <1>1, <1>3, <2>1 DEF GoneTo, Rest, Still
<1>4. CASE kit[o].flies /\ ~found
  <2>1. PICK k : k = [v.kept EXCEPT ![c] = @ \/ v.flying[c]]
    OBVIOUS
  <2>2. /\ k \in [Chars -> BOOLEAN] /\ k[c] = (v.kept[c] \/ v.flying[c])
        /\ \A d \in Chars : d # c => k[d] = v.kept[d]
    BY <1>2, <2>1
  <2>3. u = [v EXCEPT !.kept = k]
    BY <1>1, <1>4, <2>1 DEF PowerGone, WType
  <2>4. /\ u \in WType /\ u.contents = v.contents /\ u.wear_loc = v.wear_loc
        /\ u.mod_str = v.mod_str /\ u.armor = v.armor /\ u.hitroll = v.hitroll
        /\ u.flying = v.flying /\ u.kept = k /\ u.light = v.light
    BY <2>2, <2>3 DEF WType
  <2>5. Still(v, u)
    BY <2>3 DEF WType, Still
  <2>6. Rest(v, u)
    BY <2>4, <2>5 DEF Rest
  <2>7. Aloft(u, c)
    BY <2>2, <2>4 DEF Aloft
  <2>8. QED
    BY <1>1, <1>4, <2>2, <2>4, <2>6, <2>7 DEF GoneTo
<1>5. CASE kit[o].flies /\ found /\ IsAffected(c, "fly")
  <2>1. u = v
    BY <1>1, <1>5 DEF PowerGone
  <2>2. QED
    BY <1>1, <1>5, <2>1 DEF GoneTo, Rest, Still, Aloft
<1>6. CASE kit[o].flies /\ found /\ ~IsAffected(c, "fly")
  <2>1. PICK f : f = [v.flying EXCEPT ![c] = FALSE]
    OBVIOUS
  <2>2. PICK k : k = [v.kept EXCEPT ![c] = FALSE]
    OBVIOUS
  <2>3. /\ f \in [Chars -> BOOLEAN] /\ k \in [Chars -> BOOLEAN] /\ ~f[c]
        /\ \A d \in Chars : d # c => f[d] = v.flying[d] /\ k[d] = v.kept[d]
    BY <1>2, <2>1, <2>2
  <2>4. u = [v EXCEPT !.flying = f, !.kept = k]
    BY <1>1, <1>6, <2>1, <2>2 DEF PowerGone, WType
  <2>5. /\ u \in WType /\ u.contents = v.contents /\ u.wear_loc = v.wear_loc
        /\ u.mod_str = v.mod_str /\ u.armor = v.armor /\ u.hitroll = v.hitroll
        /\ u.flying = f /\ u.kept = k /\ u.light = v.light
    BY <2>3, <2>4 DEF WType
  <2>6. Still(v, u)
    BY <2>4 DEF WType, Still
  <2>7. Rest(v, u)
    BY <2>5, <2>6 DEF Rest
  <2>8. Aloft(u, c)
    BY <2>3, <2>5 DEF Aloft
  <2>9. QED
    BY <1>1, <1>6, <2>3, <2>5, <2>7, <2>8 DEF GoneTo
<1>7. QED
  BY <1>3, <1>4, <1>5, <1>6

(* Whatever changes neither lists nor places nor sums.                      *)
LEMMA RestKeeps ==
  ASSUME scene \in Scenes, NEW v, Sound(v), NEW u, NEW c \in Chars, Rest(v, u)
  PROVE  /\ Sound(u) /\ Even(v, u, c, 0, 0)
         /\ \A d : /\ Carried(u, d) = Carried(v, d) /\ WornBy(u, d) = WornBy(v, d)
                   /\ InUse(u, d) = InUse(v, d) /\ Lamps(u, d) = Lamps(v, d)
<1>1. Sound(u)
  BY SoundSame DEF Rest
<1>2. \A d : Carried(u, d) = Carried(v, d) /\ WornBy(u, d) = WornBy(v, d)
  BY DEF Carried, WornBy, Rest
<1>3. \A d : SameWear(v, u, d)
  BY <1>2 DEF SameWear, Rest, Still
<1>4. \A d : InUse(u, d) = InUse(v, d) /\ Lamps(u, d) = Lamps(v, d)
  BY <1>3, WearKept
<1>5. WornStr(u, c) = WornStr(v, c) /\ WornAC(u, c) = WornAC(v, c) /\ WornHit(u, c) = WornHit(v, c)
  BY <1>3, WearKept
<1>6. StrOf(u, c) = StrOf(v, c) /\ ArmOf(u, c) = ArmOf(v, c) /\ HitOf(u, c) = HitOf(v, c)
  BY <1>5 DEF StrOf, ArmOf, HitOf, Rest
<1>7. StrOf(v, c) \in Int /\ HitOf(v, c) \in Int
  BY BalanceTypes
<1>8. Even(v, u, c, 0, 0)
  BY <1>6, <1>7 DEF Even
<1>9. QED
  BY <1>1, <1>2, <1>4, <1>8

(* What unequip_char makes of v.                                            *)
Out(v, u, c, o) ==
  /\ NoLamp(v, u, o)
  /\ o \notin Lamps(v, c) => u.light = v.light
  /\ o \in Lamps(v, c) /\ v.light[in_room[c]] > 0 => Dimmer(v.light, u.light, in_room[c])

Undone(v, u, c, o) ==
  /\ Sound(u) /\ Aside(v, u, c) /\ Less(v, u, c) /\ Even(v, u, c, 0, 0)
  /\ Flight(v, u, c) /\ Out(v, u, c, o) /\ u.wear_loc[o] = "none"

LEMMA Undressed ==
  ASSUME scene \in Scenes, NEW v, Sound(v), NEW c \in Chars, in_room[c] \in Rooms, NEW o \in InUse(v, c),
         NEW u, Off(v, u, c, o), NEW t, Turn(u, t, c, -Might(o), -Charm(v, o)), NEW found,
         NEW r, r = PowerGone(Dims(t, c, o), c, o, found)
  PROVE  Undone(v, r, c, o) /\ r.contents = t.contents
<1>1. o \in Carried(v, c) /\ o \in WornBy(v, c) /\ o \in Things /\ o \in Objs
  BY CarriedIs, ThingsAre, InUseIs
<1>2. PICK m \in Int : m = Might(o)
  BY <1>1, MightIs
<1>3. PICK n \in Int : n = Charm(v, o)
  BY DEF Charm
<1>4. Sound(u) /\ Sound(t) /\ t \in WType
  BY DEF Off, Turn, Sound
<1>5. PICK s : s = Dims(t, c, o)
  OBVIOUS
<1>6. DimTo(t, s, c, o)
  BY <1>4, <1>5, Dimming
<1>7. Rest(t, s) /\ s \in WType
  BY <1>6 DEF DimTo, Rest
<1>8. GoneTo(s, r, c, o)
  BY <1>5, <1>7, Landing
<1>9. Rest(s, r)
  BY <1>8 DEF GoneTo
<1>10. Rest(t, r)
  BY <1>7, <1>9 DEF Rest, Still
<1>11. /\ Sound(r) /\ Even(t, r, c, 0, 0)
       /\ Carried(r, c) = Carried(t, c) /\ WornBy(r, c) = WornBy(t, c) /\ InUse(r, c) = InUse(t, c)
       /\ \A d : Lamps(r, d) = Lamps(t, d)
  BY <1>4, <1>10, RestKeeps
<1>12. r.contents = t.contents /\ r.wear_loc = t.wear_loc
  BY <1>10 DEF Rest
<1>13. /\ \A d \in Chars : d # c => r.flying[d] = t.flying[d] /\ r.kept[d] = t.kept[d]
       /\ (r.flying[c] => t.flying[c])
       /\ (kit[o].flies => Aloft(r, c))
       /\ (~kit[o].flies => r.flying = t.flying /\ r.kept = t.kept)
  BY <1>6, <1>8 DEF DimTo, GoneTo
<1>14. Aside(t, r, c)
  <2>1. Still(t, r) /\ r.mod_str = t.mod_str /\ r.armor = t.armor /\ r.hitroll = t.hitroll
    BY <1>10 DEF Rest
  <2>2. QED
    BY <1>11, <1>12, <1>13, <2>1 DEF Aside
<1>15. Less(t, r, c)
  BY <1>11, <1>12, <1>13 DEF Less
<1>16. Aside(v, r, c)
  <2>1. Aside(v, u, c) /\ Aside(u, t, c)
    BY DEF Off, Turn
  <2>2. Aside(v, t, c)
    BY <2>1, AsideTwice
  <2>3. QED
    BY <1>14, <2>2, AsideTwice
<1>17. Less(v, r, c)
  <2>1. Less(v, u, c) /\ Less(u, t, c) /\ Carried(t, c) \subseteq Carried(u, c)
    BY DEF Off, Turn, Aside
  <2>2. Less(v, t, c)
    BY <2>1, LessTwice
  <2>3. Carried(r, c) \subseteq Carried(t, c)
    BY <1>11
  <2>4. QED
    BY <1>15, <2>2, <2>3, LessTwice
<1>18. Even(v, r, c, 0, 0)
  <2>1. StrOf(v, c) \in Int /\ HitOf(v, c) \in Int /\ StrOf(t, c) \in Int /\ HitOf(t, c) \in Int
    BY <1>4, BalanceTypes
  <2>2. StrOf(u, c) = StrOf(v, c) + m /\ ArmOf(u, c) = ArmOf(v, c) /\ HitOf(u, c) = HitOf(v, c) + n
    BY <1>2, <1>3 DEF Off, Even
  <2>3. StrOf(t, c) = StrOf(u, c) + (-m) /\ ArmOf(t, c) = ArmOf(u, c) /\ HitOf(t, c) = HitOf(u, c) + (-n)
    BY <1>2, <1>3 DEF Turn, Even
  <2>4. StrOf(r, c) = StrOf(t, c) + 0 /\ ArmOf(r, c) = ArmOf(t, c) /\ HitOf(r, c) = HitOf(t, c) + 0
    BY <1>11 DEF Even
  <2>5. StrOf(r, c) = StrOf(v, c) /\ HitOf(r, c) = HitOf(v, c) /\ ArmOf(r, c) = ArmOf(v, c)
    BY <2>1, <2>2, <2>3, <2>4
  <2>6. QED
    BY <2>1, <2>5 DEF Even
<1>19. Flight(v, r, c)
  <2>1. CASE kit[o].flies
    BY <1>13, <2>1 DEF Flight
  <2>2. CASE ~kit[o].flies
    <3>1. Flight(v, u, c)
      BY <2>2 DEF Flight, Off
    <3>2. Flight(u, t, c)
      BY DEF Turn
    <3>3. Flight(t, r, c)
      BY <1>11, <1>13, <2>2 DEF Flight
    <3>4. QED
      BY <3>1, <3>2, <3>3, FlightTwice
  <2>3. QED
    BY <2>1, <2>2
<1>20. Out(v, r, c, o)
  <2>1. NoLamp(v, r, o)
    BY <1>11 DEF NoLamp, Off, Turn, SameLight
  <2>2. t.light = v.light /\ t.lit = v.lit
    BY DEF Off, Turn, SameLight, Aside, Still
  <2>3. r.light = s.light
    BY <1>8 DEF GoneTo
  <2>4. o \in Lamps(v, c) <=> o \in v.lit
    <3>1. o \in v.lit => v.wear_loc[o] \in Hands
      BY <1>1, InUseIs DEF Sound, Charmed, InHand
    <3>2. QED
      BY <1>1, <3>1, InUseIs
  <2>5. QED
    BY <1>6, <2>1, <2>2, <2>3, <2>4 DEF DimTo, Out
<1>21. r.wear_loc[o] = "none"
  <2>1. u.wear_loc[o] = "none" /\ WornBy(u, c) = WornBy(v, c) \ {o}
    BY DEF Off
  <2>2. CASE o \in Carried(u, c)
    <3>1. o \notin WornBy(t, c)
      BY <2>1 DEF Turn, Less
    <3>2. t.wear_loc[o] = "none"
      <4>1. SUFFICES ASSUME t.wear_loc[o] # "none" PROVE FALSE
        OBVIOUS
      <4>2. PICK d \in Chars : o \in Carried(t, d)
        BY <1>1, <1>4, <4>1 DEF Sound, Borne
      <4>3. d # c
        BY <3>1, <4>1, <4>2, InUseIs
      <4>4. o \in Carried(u, d)
        BY <4>2, <4>3 DEF Turn, Aside, Carried
      <4>5. QED
        BY <1>4, <2>2, <4>3, <4>4, OneBearer
    <3>3. QED
      BY <1>12, <3>2
  <2>3. CASE o \notin Carried(u, c)
    <3>1. t.wear_loc[o] = u.wear_loc[o]
      BY <1>1, <2>3 DEF Turn, Aside
    <3>2. QED
      BY <1>12, <2>1, <3>1
  <2>4. QED
    BY <2>2, <2>3
<1>22. QED
  BY <1>11, <1>12, <1>16, <1>17, <1>18, <1>19, <1>20, <1>21 DEF Undone
-----------------------------------------------------------------------------
(* obj_from_char, obj_to_room and obj_to_obj.                               *)
LEMMA RearrangedKeeps ==
  ASSUME scene \in Scenes, NEW v, Sound(v), NEW u, Rearranged(v, u), NEW c \in Chars
  PROVE  /\ InUse(u, c) = InUse(v, c) /\ Lamps(u, c) = Lamps(v, c)
         /\ Even(v, u, c, 0, 0)
<1>1. SameWear(v, u, c)
  BY DEF SameWear, Rearranged, Still
<1>2. /\ InUse(u, c) = InUse(v, c) /\ Lamps(u, c) = Lamps(v, c)
      /\ WornStr(u, c) = WornStr(v, c) /\ WornAC(u, c) = WornAC(v, c) /\ WornHit(u, c) = WornHit(v, c)
  BY <1>1, WearKept
<1>3. StrOf(u, c) = StrOf(v, c) /\ ArmOf(u, c) = ArmOf(v, c) /\ HitOf(u, c) = HitOf(v, c)
  BY <1>2 DEF StrOf, ArmOf, HitOf, Rearranged
<1>4. StrOf(v, c) \in Int /\ HitOf(v, c) \in Int
  BY BalanceTypes
<1>5. QED
  BY <1>2, <1>3, <1>4 DEF Even

(* Moving what is not worn, on the way from c.                              *)
LEMMA UndoneMoved ==
  ASSUME scene \in Scenes, NEW v, Sound(v), NEW c \in Chars, NEW o, NEW r, Undone(v, r, c, o),
         NEW s, Sound(s), Rearranged(r, s), Carried(s, c) \subseteq Carried(v, c),
         \A d \in Chars : d # c => s.contents[d] = r.contents[d],
         \A x \in Carried(s, c), y \in WornBy(s, c) :
           Before(v.contents[c], x, y) => Before(s.contents[c], x, y)
  PROVE  Undone(v, s, c, o)
<1>1. Sound(r) /\ Even(v, r, c, 0, 0) /\ Flight(v, r, c) /\ Out(v, r, c, o) /\ r.wear_loc[o] = "none"
  BY DEF Undone
<1>2. \A d \in Chars : InUse(s, d) = InUse(r, d) /\ Lamps(s, d) = Lamps(r, d) /\ Even(r, s, d, 0, 0)
  BY <1>1, RearrangedKeeps
<1>3. WornBy(s, c) = WornBy(r, c)
  BY DEF Rearranged
<1>4. Even(v, s, c, 0, 0)
  <2>1. StrOf(v, c) \in Int /\ HitOf(v, c) \in Int
    BY BalanceTypes
  <2>2. Even(r, s, c, 0, 0)
    BY <1>2
  <2>3. QED
    BY <1>1, <2>1, <2>2 DEF Even
<1>5. Flight(v, s, c)
  <2>1. Flight(r, s, c)
    BY <1>2 DEF Flight, Rearranged
  <2>2. QED
    BY <1>1, <2>1, FlightTwice
<1>6. Out(v, s, c, o)
  BY <1>1, <1>2 DEF Out, NoLamp, Rearranged
<1>7. Less(v, s, c)
  BY <1>3 DEF Less, Undone, Rearranged
<1>8. Aside(v, s, c)
  <2>1. Still(v, s)
    BY DEF Undone, Aside, Rearranged, Still
  <2>2. \A p \in Objs : p \notin Carried(v, c) => s.wear_loc[p] = v.wear_loc[p]
    BY DEF Undone, Aside, Rearranged
  <2>3. \A d \in Chars : d # c =>
          /\ s.contents[d] = v.contents[d] /\ s.mod_str[d] = v.mod_str[d] /\ s.armor[d] = v.armor[d]
          /\ s.hitroll[d] = v.hitroll[d] /\ s.flying[d] = v.flying[d] /\ s.kept[d] = v.kept[d]
    BY DEF Undone, Aside, Rearranged
  <2>4. QED
    BY <2>1, <2>2, <2>3 DEF Aside
<1>9. s.wear_loc[o] = "none"
  BY <1>1 DEF Rearranged
<1>10. QED
  BY <1>4, <1>5, <1>6, <1>7, <1>8, <1>9 DEF Undone

LEMMA UndoneTaken ==
  ASSUME scene \in Scenes, NEW v, Sound(v), NEW c \in Chars, NEW o, NEW r, Undone(v, r, c, o),
         o \in Carried(r, c), NEW s, s = TakeOut(r, c, o)
  PROVE  Undone(v, s, c, o) /\ TakenFrom(r, s, c, o)
<1>1. Sound(r) /\ r.wear_loc[o] = "none" /\ c \in Holders /\ o \in ToSet(r.contents[c])
  BY Where DEF Undone, Carried
<1>2. TakenFrom(r, s, c, o)
  BY <1>1, TakingOut
<1>3. Sound(s) /\ Rearranged(r, s) /\ Removed(r.contents[c], o, s.contents[c])
  BY <1>2 DEF TakenFrom
<1>4. \A d \in Chars : d # c => s.contents[d] = r.contents[d]
  BY <1>2, Where DEF TakenFrom
<1>5. Carried(s, c) \subseteq Carried(r, c)
  BY <1>3 DEF Removed, Carried
<1>6. Carried(s, c) \subseteq Carried(v, c)
  BY <1>5 DEF Undone, Aside
<1>7. ASSUME NEW x \in Carried(s, c), NEW y \in WornBy(s, c), Before(v.contents[c], x, y)
      PROVE  Before(s.contents[c], x, y)
  <2>1. x \in Carried(r, c) /\ y \in WornBy(r, c) /\ y \in Carried(s, c)
    BY <1>3, <1>5, InUseIs DEF Rearranged
  <2>2. Before(r.contents[c], x, y)
    BY <1>7, <2>1 DEF Undone, Less
  <2>3. QED
    BY <1>3, <2>1, <2>2 DEF Removed, Carried
<1>8. QED
  BY <1>2, <1>3, <1>4, <1>6, <1>7, UndoneMoved

LEMMA UndonePut ==
  ASSUME scene \in Scenes, NEW v, Sound(v), NEW c \in Chars, NEW o \in Things, NEW r, Undone(v, r, c, o),
         Nowhere(r, o), NEW h \in Rooms \cup {Corpse}, NEW s, s = PutIn(r, h, o)
  PROVE  Undone(v, s, c, o) /\ PlacedIn(r, s, h, o)
<1>1. Sound(r) /\ r.wear_loc[o] = "none" /\ h \in Holders
  BY Where DEF Undone
<1>2. PlacedIn(r, s, h, o)
  BY <1>1, PuttingIn
<1>3. Sound(s) /\ Rearranged(r, s)
  BY <1>2 DEF PlacedIn
<1>4. \A d \in Chars : s.contents[d] = r.contents[d]
  BY <1>2, Where DEF PlacedIn
<1>5. Carried(s, c) = Carried(r, c) /\ WornBy(s, c) = WornBy(r, c)
  BY <1>3, <1>4 DEF Carried, Rearranged
<1>6. Carried(s, c) \subseteq Carried(v, c)
  BY <1>5 DEF Undone, Aside
<1>7. \A x \in Carried(s, c), y \in WornBy(s, c) : Before(v.contents[c], x, y) => Before(s.contents[c], x, y)
  BY <1>4, <1>5 DEF Undone, Less
<1>8. QED
  BY <1>2, <1>3, <1>4, <1>6, <1>7, UndoneMoved

(* What was not worn.                                                       *)
LEMMA UndoneIdle ==
  ASSUME scene \in Scenes, NEW v, Sound(v), NEW c \in Chars, NEW o, v.wear_loc[o] = "none"
  PROVE  Undone(v, v, c, o)
<1>1. \A d \in Chars : o \notin Lamps(v, d)
  BY InUseIs
<1>2. NoLamp(v, v, o)
  BY <1>1 DEF NoLamp
<1>3. Out(v, v, c, o)
  BY <1>1, <1>2 DEF Out
<1>4. StrOf(v, c) \in Int /\ HitOf(v, c) \in Int
  BY BalanceTypes
<1>5. Even(v, v, c, 0, 0)
  BY <1>4 DEF Even
<1>6. Aside(v, v, c) /\ Less(v, v, c) /\ Flight(v, v, c)
  BY DEF Aside, Still, Less, Flight
<1>7. QED
  BY <1>3, <1>5, <1>6 DEF Undone

(* unequip_char with a shift for each affect.                               *)
LEMMA UnequipShifted ==
  ASSUME scene \in Scenes, NEW v, Sound(v), NEW c \in Chars, in_room[c] \in Rooms,
         NEW o \in InUse(v, c), NEW found, NEW u, u = Unequipped(v, c, o, found, Shifted)
  PROVE  Undone(v, u, c, o) /\ u.contents = v.contents
<1>1. o \in Things /\ v.wear_loc[o] \notin Scabbards
  BY CarriedIs, InUseIs
<1>2. PICK s : s = [v EXCEPT !.armor[c] = @ + ApplyAC(o, v.wear_loc[o]), !.wear_loc[o] = "none"]
  OBVIOUS
<1>3. Off(v, s, c, o)
  BY <1>2, Doffing
<1>4. PICK ds : ds = Reverts(v, o)
  OBVIOUS
<1>5. Sums(ds, -Might(o), -Charm(v, o), Swing(o))
  BY <1>1, <1>4, RevertsSum
<1>6. PICK t : t = ModifyAll(s, c, ds, found, Shifted)
  OBVIOUS
<1>7. Sound(s) /\ s \in WType
  BY <1>3 DEF Off, Sound
<1>8. ShiftBy(s, t, c, -Might(o), -Charm(v, o))
  BY <1>5, <1>6, <1>7, ModifyShifts
<1>9. -Might(o) \in Int /\ -Charm(v, o) \in Int
  BY <1>5 DEF Sums
<1>10. Turn(s, t, c, -Might(o), -Charm(v, o))
  BY <1>7, <1>8, <1>9, ShiftTurns
<1>11. u = PowerGone(Dims(t, c, o), c, o, found)
  BY <1>1, <1>2, <1>4, <1>6 DEF Unequipped
<1>12. Undone(v, u, c, o) /\ u.contents = t.contents
  BY <1>3, <1>10, <1>11, Undressed
<1>13. t.contents = v.contents
  BY <1>3, <1>8 DEF Off, ShiftBy
<1>14. QED
  BY <1>12, <1>13

(* A weapon dropped from within affect_modify.                              *)
LEMMA DropShifted ==
  ASSUME scene \in Scenes, NEW v, Sound(v), NEW c \in Chars, in_room[c] \in Rooms,
         NEW o \in InUse(v, c), kit[o].type # "light", NEW found,
         NEW u, u = Discarded(v, c, o, found, Shifted)
  PROVE  /\ Turn(v, u, c, 0, 0)
         /\ Carried(u, c) = Carried(v, c) \ {o} /\ o \in ToSet(u.contents[in_room[c]])
<1>1. o \in Things /\ v.wear_loc[o] # "none" /\ o \in Carried(v, c)
  BY CarriedIs, InUseIs
<1>2. PICK r : r = Unequipped(v, c, o, found, Shifted)
  OBVIOUS
<1>3. Undone(v, r, c, o) /\ r.contents = v.contents
  BY <1>2, UnequipShifted
<1>4. PICK s : s = TakeOut(r, c, o)
  OBVIOUS
<1>5. o \in Carried(r, c) /\ Carried(r, c) = Carried(v, c)
  BY <1>1, <1>3 DEF Carried
<1>6. Undone(v, s, c, o) /\ TakenFrom(r, s, c, o)
  BY <1>3, <1>4, <1>5, UndoneTaken
<1>7. PICK h \in Rooms : h = in_room[c]
  OBVIOUS
<1>8. u = PutIn(s, h, o)
  <2>1. s = FromChar(v, c, o, found, Shifted)
    BY <1>1, <1>2, <1>4 DEF FromChar
  <2>2. QED
    BY <1>7, <2>1 DEF Discarded
<1>9. Undone(v, u, c, o) /\ PlacedIn(s, u, h, o)
  BY <1>1, <1>6, <1>8, UndonePut DEF TakenFrom
<1>10. Carried(u, c) = Carried(v, c) \ {o}
  <2>1. u.contents[c] = s.contents[c]
    BY <1>9, Where DEF PlacedIn
  <2>2. ToSet(s.contents[c]) = ToSet(r.contents[c]) \ {o}
    BY <1>6 DEF TakenFrom, Removed
  <2>3. QED
    BY <1>3, <2>1, <2>2 DEF Carried
<1>11. o \in ToSet(u.contents[h])
  BY <1>9 DEF PlacedIn, Prepended
<1>12. SameLight(v, u)
  <2>1. o \notin v.lit
    BY DEF Sound, Charmed
  <2>2. \A d : o \notin Lamps(v, d)
    BY <2>1, InUseIs
  <2>3. NoLamp(v, u, o) /\ u.light = v.light
    BY <1>9, <2>2 DEF Undone, Out
  <2>4. QED
    BY <2>2, <2>3 DEF NoLamp, SameLight
<1>13. Turn(v, u, c, 0, 0)
  BY <1>9, <1>12 DEF Undone, Turn
<1>14. QED
  BY <1>7, <1>10, <1>11, <1>13
-----------------------------------------------------------------------------
(* get_eq_char finds the piece in a place, and get_curr_str rises with what *)
(* affects add.                                                             *)
EqIs(v, c, loc, x) ==
  \/ x = None /\ \A p \in WornBy(v, c) : v.wear_loc[p] # loc
  \/ /\ x # None /\ x \in WornBy(v, c) /\ v.wear_loc[x] = loc
     /\ \A p \in WornBy(v, c) : v.wear_loc[p] = loc => p = x

LEMMA EqChar ==
  ASSUME scene \in Scenes, NEW v, Sound(v), NEW c \in Chars, NEW loc, loc # "none"
  PROVE  EqIs(v, c, loc, GetEqChar(v, c, loc))
<1>1. PICK s : s = v.contents[c]
  OBVIOUS
<1>2. PICK n \in Nat : /\ n = Len(s) /\ DOMAIN s = 1 .. n
                       /\ \A k \in 1 .. n : s[k] \in Objs /\ s[k] \in ToSet(s)
                       /\ \A p \in ToSet(s) : \E k \in 1 .. n : s[k] = p
  <2>1. s \in Seq(Objs)
    BY <1>1, CarriedIs
  <2>2. QED
    BY <2>1, SeqIs
<1>3. Carried(v, c) = ToSet(s)
  BY <1>1 DEF Carried
<1>4. PICK W : W = {i \in 1 .. n : v.wear_loc[s[i]] = loc}
  OBVIOUS
<1>5. PICK x : x = GetEqChar(v, c, loc)
  OBVIOUS
<1>6. x = IF W = {} THEN None ELSE s[Min(W)]
  BY <1>1, <1>2, <1>4, <1>5 DEF GetEqChar
<1>7. CASE W = {}
  <2>1. \A p \in WornBy(v, c) : v.wear_loc[p] # loc
    BY <1>2, <1>3, <1>4, <1>7, InUseIs
  <2>2. QED
    BY <1>5, <1>6, <1>7, <2>1 DEF EqIs
<1>8. CASE W # {}
  <2>1. W \subseteq Nat
    BY <1>4
  <2>2. \E k \in W : \A j \in W : k <= j
    BY <1>8, <2>1, Least
  <2>3. Min(W) \in W
    BY <2>2 DEF Min
  <2>4. PICK k \in 1 .. n : k = Min(W) /\ v.wear_loc[s[k]] = loc
    BY <1>4, <2>3
  <2>5. x = s[k] /\ x \in Objs /\ x \in Carried(v, c) /\ v.wear_loc[x] = loc
    BY <1>2, <1>3, <1>6, <1>8, <2>4
  <2>6. x \in WornBy(v, c) /\ x # None
    BY <2>5, InUseIs, Where
  <2>7. \A p \in WornBy(v, c) : v.wear_loc[p] = loc => p = x
    BY <2>5, <2>6 DEF Sound, OneEach
  <2>8. QED
    BY <1>5, <2>5, <2>6, <2>7 DEF EqIs
<1>9. QED
  BY <1>7, <1>8

Cut(n) == LET str == PermStr + n IN IF str < MinStr THEN MinStr ELSE IF str > MaxStr THEN MaxStr ELSE str

LEMMA CutRises ==
  ASSUME NEW m \in Int, NEW n \in Int, m <= n
  PROVE  Cut(m) \in Int /\ Cut(n) \in Int /\ Cut(m) <= Cut(n)
<1>1. PermStr \in Int /\ MinStr \in Int /\ MaxStr \in Int /\ MinStr <= MaxStr
  BY Prototypes
<1>2. QED
  BY <1>1 DEF Cut

LEMMA StrIsCut ==
  ASSUME NEW v, NEW c
  PROVE  GetCurrStr(v, c) = Cut(v.mod_str[c])
  BY DEF GetCurrStr, Cut

-----------------------------------------------------------------------------
(* affect_modify: a shift, and a weapon too heavy at strength l is dropped. *)
Armless(v, u, c, l) ==
  \E x \in WornBy(v, c) :
    /\ x = GetEqChar(v, c, "wield") /\ EqIs(u, c, "wield", None)
    /\ Carried(u, c) = Carried(v, c) \ {x} /\ x \in ToSet(u.contents[in_room[c]])
    /\ kit[x].type = "weapon" /\ kit[x].heft > Cut(l)

Arms(v, u, c, m, n, l) == ShiftBy(v, u, c, m, n) \/ (Turn(v, u, c, m, n) /\ Armless(v, u, c, l))

LEMMA ArmsTurn ==
  ASSUME scene \in Scenes, NEW v, Sound(v), NEW c \in Chars, NEW m \in Int, NEW n \in Int, NEW l, NEW u,
         Arms(v, u, c, m, n, l)
  PROVE  Turn(v, u, c, m, n) /\ u \in WType
<1>1. Turn(v, u, c, m, n)
  BY ShiftTurns DEF Arms
<1>2. QED
  BY <1>1 DEF Turn, Sound

(* Only the list and the places tell what is where.                         *)
LEMMA EqSame ==
  ASSUME NEW v, NEW u, u.contents = v.contents, u.wear_loc = v.wear_loc
  PROVE  /\ \A c, loc : GetEqChar(u, c, loc) = GetEqChar(v, c, loc)
         /\ \A c, loc, x : EqIs(u, c, loc, x) <=> EqIs(v, c, loc, x)
         /\ \A c : WornBy(u, c) = WornBy(v, c) /\ Carried(u, c) = Carried(v, c)
<1>1. \A c : WornBy(u, c) = WornBy(v, c) /\ Carried(u, c) = Carried(v, c)
  BY DEF WornBy, Carried
<1>2. \A c, loc : GetEqChar(u, c, loc) = GetEqChar(v, c, loc)
  BY DEF GetEqChar
<1>3. \A c, loc, x : EqIs(u, c, loc, x) <=> EqIs(v, c, loc, x)
  BY <1>1 DEF EqIs
<1>4. QED
  BY <1>1, <1>2, <1>3

LEMMA Modifying ==
  ASSUME scene \in Scenes, NEW v, Sound(v), NEW c \in Chars, in_room[c] \in Rooms, NEW d \in Int \X Int,
         NEW found, NEW u, u = AffectModify(v, c, d, found)
  PROVE  /\ Arms(v, u, c, d[1], d[2], v.mod_str[c] + d[1])
         /\ EqIs(v, c, "wield", None) => ShiftBy(v, u, c, d[1], d[2])
<1>1. PICK m \in Int : m = d[1]
  OBVIOUS
<1>2. PICK n \in Int : n = d[2]
  OBVIOUS
<1>3. PICK s : s = Shifted(v, c, d, found)
  OBVIOUS
<1>4. v \in WType /\ v.mod_str[c] \in Int
  BY Fields DEF Sound
<1>5. ShiftBy(v, s, c, m, n)
  BY <1>1, <1>2, <1>3, <1>4, Shifting
<1>6. Sound(s)
  BY <1>5, ShiftKeeps
<1>7. PICK x : x = GetEqChar(s, c, "wield")
  OBVIOUS
<1>8. PICK loc : loc = "wield"
  OBVIOUS
<1>9. EqIs(s, c, loc, x)
  BY <1>6, <1>7, <1>8, EqChar
<1>10. CASE ~(x # None /\ TooHeavy(s, c, x))
  <2>1. u = s
    BY <1>3, <1>7, <1>10 DEF AffectModify
  <2>2. QED
    BY <1>1, <1>2, <1>5, <2>1 DEF Arms
<1>11. CASE x # None /\ TooHeavy(s, c, x)
  <2>1. u = Discarded(s, c, x, found, Shifted)
    BY <1>3, <1>7, <1>11 DEF AffectModify
  <2>2. x \in WornBy(s, c) /\ s.wear_loc[x] = loc
    BY <1>9, <1>11 DEF EqIs
  <2>3. x \in InUse(s, c)
    BY <1>8, <2>2, InUseIs, Places
  <2>4. kit[x].type = "weapon" /\ kit[x].heft > Cut(s.mod_str[c])
    BY <1>11, StrIsCut DEF TooHeavy
  <2>5. /\ Turn(s, u, c, 0, 0)
        /\ Carried(u, c) = Carried(s, c) \ {x} /\ x \in ToSet(u.contents[in_room[c]])
    BY <1>6, <2>1, <2>3, <2>4, DropShifted
  <2>6. s.mod_str[c] = v.mod_str[c] + m
    BY <1>5 DEF ShiftBy
  <2>7. Turn(v, u, c, m, n)
    <3>1. Turn(v, s, c, m, n)
      BY <1>5, ShiftTurns
    <3>2. m + 0 = m /\ n + 0 = n
      OBVIOUS
    <3>3. Turn(v, u, c, m + 0, n + 0)
      BY <2>5, <3>1, TurnTwice
    <3>4. QED
      BY <3>2, <3>3
  <2>8. EqIs(u, c, loc, None)
    <3>1. ASSUME NEW p \in WornBy(u, c), u.wear_loc[p] = loc PROVE FALSE
      <4>1. p \in WornBy(s, c) /\ s.wear_loc[p] = loc
        BY <2>5, <3>1 DEF Turn, Less
      <4>2. p = x
        BY <1>9, <1>11, <4>1 DEF EqIs
      <4>3. x \notin Carried(u, c)
        BY <2>5
      <4>4. QED
        BY <3>1, <4>2, <4>3, InUseIs
    <3>2. QED
      BY <3>1 DEF EqIs
  <2>9. /\ \A e, l : GetEqChar(s, e, l) = GetEqChar(v, e, l)
        /\ \A e, l, y : EqIs(s, e, l, y) <=> EqIs(v, e, l, y)
        /\ \A e : WornBy(s, e) = WornBy(v, e) /\ Carried(s, e) = Carried(v, e)
    BY <1>5, EqSame DEF ShiftBy
  <2>10. Armless(v, u, c, v.mod_str[c] + m)
    BY <1>7, <1>8, <2>2, <2>4, <2>5, <2>6, <2>8, <2>9 DEF Armless
  <2>11. ~EqIs(v, c, loc, None)
    <3>1. x \in WornBy(v, c) /\ v.wear_loc[x] = loc
      BY <1>5, <2>2, <2>9 DEF ShiftBy
    <3>2. QED
      BY <3>1 DEF EqIs
  <2>12. QED
    BY <1>1, <1>2, <1>8, <2>7, <2>10, <2>11 DEF Arms
<1>12. QED
  BY <1>10, <1>11
(* affect_modify for all of ds, which lets a weapon drop once.              *)
LEMMA ModifyDrops ==
  ASSUME scene \in Scenes, NEW v, Sound(v), NEW c \in Chars, in_room[c] \in Rooms, NEW found, NEW ds,
         NEW m, NEW n, NEW b, Sums(ds, m, n, b)
  PROVE  Arms(v, ModifyAll(v, c, ds, found, AffectModify), c, m, n, v.mod_str[c] - b)
<1>1. ds \in Seq(Int \X Int) /\ SumOf(Strengths(ds)) = m /\ SumOf(Hits(ds)) = n /\ b \in Int
  BY DEF Sums
<1>2. PICK l \in Nat : l = Len(ds) /\ \A k \in 1 .. l : ds[k] \in Int \X Int
  BY <1>1
<1>3. PICK f : f = Strengths(ds)
  OBVIOUS
<1>4. PICK h : h = Hits(ds)
  OBVIOUS
<1>5. /\ f \in [1 .. l -> Int] /\ h \in [1 .. l -> Int]
      /\ \A k \in 1 .. l : ds[k][1] = f[k] /\ ds[k][2] = h[k]
  <2>1. f = [k \in 1 .. l |-> ds[k][1]] /\ h = [k \in 1 .. l |-> ds[k][2]]
    BY <1>2, <1>3, <1>4 DEF Strengths, Hits
  <2>2. \A k \in 1 .. l : ds[k][1] \in Int /\ ds[k][2] \in Int
    BY <1>2
  <2>3. QED
    BY <2>1, <2>2
<1>6. Summing(f, l) /\ Summing(h, l)
  BY <1>5, PartsSum
<1>7. \A k \in 0 .. l : Part(f, k) >= -b
  BY <1>2, <1>3 DEF Sums
<1>8. PICK low \in Int : low = v.mod_str[c] - b
  BY <1>1, Fields DEF Sound
<1> DEFINE D == [k \in 0 .. l |-> {u \in WType : Arms(v, u, c, Part(f, k), Part(h, k), low)}]
           F == [k \in 1 .. l |-> [x \in D[k - 1] |-> AffectModify(x, c, ds[k], found)]]
<1>9. v \in D[0]
  <2>1. Part(f, 0) = 0 /\ Part(h, 0) = 0
    BY <1>6 DEF Summing
  <2>2. v \in WType
    BY DEF Sound
  <2>3. Arms(v, v, c, Part(f, 0), Part(h, 0), low)
    BY <2>1, <2>2, ShiftNone DEF Arms
  <2>4. 0 \in 0 .. l
    OBVIOUS
  <2>5. QED
    BY <2>2, <2>3, <2>4
<1>10. ASSUME NEW k \in 1 .. l, NEW x \in D[k - 1] PROVE AffectModify(x, c, ds[k], found) \in D[k]
  <2>1. k \in 0 .. l /\ k - 1 \in 0 .. l
    OBVIOUS
  <2>2. PICK p \in Int : p = Part(f, k - 1)
    BY <1>6, <2>1 DEF Summing
  <2>3. PICK q \in Int : q = Part(h, k - 1)
    BY <1>6, <2>1 DEF Summing
  <2>4. PICK i \in Int : i = f[k]
    BY <1>5
  <2>5. PICK j \in Int : j = h[k]
    BY <1>5
  <2>6. Part(f, k) = p + i /\ Part(h, k) = q + j /\ p + i >= -b
    BY <1>6, <1>7, <2>1, <2>2, <2>3, <2>4, <2>5 DEF Summing
  <2>7. x \in WType /\ Arms(v, x, c, p, q, low)
    BY <2>1, <2>2, <2>3
  <2>8. Turn(v, x, c, p, q)
    BY <2>7, ArmsTurn
  <2>9. Sound(x)
    BY <2>8 DEF Turn
  <2>10. PICK t : t = AffectModify(x, c, ds[k], found)
    OBVIOUS
  <2>11. /\ Arms(x, t, c, i, j, x.mod_str[c] + i)
         /\ EqIs(x, c, "wield", None) => ShiftBy(x, t, c, i, j)
    BY <1>2, <1>5, <2>4, <2>5, <2>9, <2>10, Modifying
  <2>12. v \in WType /\ v.mod_str[c] \in Int
    BY Fields DEF Sound
  <2>13. Arms(v, t, c, p + i, q + j, low)
    <3>1. CASE ShiftBy(v, x, c, p, q) /\ ShiftBy(x, t, c, i, j)
      BY <2>12, <3>1, ShiftTwice DEF Arms
    <3>2. CASE ShiftBy(v, x, c, p, q) /\ Turn(x, t, c, i, j) /\ Armless(x, t, c, x.mod_str[c] + i)
      <4>1. Turn(v, t, c, p + i, q + j)
        BY <2>8, <3>2, TurnTwice
      <4>2. x.mod_str[c] = v.mod_str[c] + p
        BY <3>2 DEF ShiftBy
      <4>3. PICK e \in Int : e = x.mod_str[c] + i
        BY <2>12, <4>2
      <4>4. low <= e
        <5>1. PICK z \in Int : z = v.mod_str[c]
          BY <2>12
        <5>2. e = z + p + i /\ low = z - b /\ b \in Int
          BY <1>1, <1>8, <4>2, <4>3, <5>1
        <5>3. p + i >= -b
          BY <2>6
        <5>4. QED
          BY <5>2, <5>3
      <4>5. Cut(low) <= Cut(e) /\ Cut(low) \in Int /\ Cut(e) \in Int
        BY <4>4, CutRises
      <4>6. PICK y \in WornBy(x, c) :
              /\ y = GetEqChar(x, c, "wield") /\ EqIs(t, c, "wield", None)
              /\ Carried(t, c) = Carried(x, c) \ {y} /\ y \in ToSet(t.contents[in_room[c]])
              /\ kit[y].type = "weapon" /\ kit[y].heft > Cut(e)
        BY <3>2, <4>3 DEF Armless
      <4>7. /\ GetEqChar(x, c, "wield") = GetEqChar(v, c, "wield")
            /\ WornBy(x, c) = WornBy(v, c) /\ Carried(x, c) = Carried(v, c)
        BY <3>2, EqSame DEF ShiftBy
      <4>8. y \in Things
        BY <4>6, <4>7, CarriedIs
      <4>9. kit[y].heft \in Int
        BY <4>8, ThingsAre DEF Prototype
      <4>10. kit[y].heft > Cut(low)
        BY <4>5, <4>6, <4>9
      <4>11. Armless(v, t, c, low)
        BY <4>6, <4>7, <4>10 DEF Armless
      <4>12. QED
        BY <4>1, <4>11 DEF Arms
    <3>3. CASE Turn(v, x, c, p, q) /\ Armless(v, x, c, low)
      <4>1. PICK y \in WornBy(v, c) :
              /\ y = GetEqChar(v, c, "wield") /\ EqIs(x, c, "wield", None)
              /\ Carried(x, c) = Carried(v, c) \ {y} /\ y \in ToSet(x.contents[in_room[c]])
              /\ kit[y].type = "weapon" /\ kit[y].heft > Cut(low)
        BY <3>3 DEF Armless
      <4>2. ShiftBy(x, t, c, i, j)
        BY <2>11, <4>1
      <4>3. Turn(x, t, c, i, j)
        BY <2>9, <4>2, ShiftTurns
      <4>4. Turn(v, t, c, p + i, q + j)
        BY <3>3, <4>3, TurnTwice
      <4>5. EqIs(t, c, "wield", None) /\ Carried(t, c) = Carried(x, c) /\ t.contents = x.contents
        BY <4>1, <4>2, EqSame DEF ShiftBy
      <4>6. Armless(v, t, c, low)
        BY <4>1, <4>5 DEF Armless
      <4>7. QED
        BY <4>4, <4>6 DEF Arms
    <3>4. QED
      BY <2>7, <2>11, <3>1, <3>2, <3>3 DEF Arms
  <2>14. t \in WType
    <3>1. p + i \in Int /\ q + j \in Int
      OBVIOUS
    <3>2. QED
      BY <2>13, <3>1, ArmsTurn
  <2>15. QED
    BY <2>1, <2>6, <2>10, <2>13, <2>14
<1> HIDE DEF D
<1>11. \A k \in 1 .. l : \A x \in D[k - 1] : F[k][x] = AffectModify(x, c, ds[k], found)
  OBVIOUS
<1> HIDE DEF F
<1>12. \A k \in 1 .. l : \A x \in D[k - 1] : F[k][x] \in D[k]
  BY <1>10, <1>11
<1>13. PICK j : Runs(j, F, D, v, l)
  BY <1>9, <1>12, Recursion
<1> DEFINE Q(i) == i = [k \in 0 .. l |-> IF k = 0 THEN v ELSE AffectModify(i[k - 1], c, ds[k], found)]
<1>14. Q(j)
  <2>1. j = [k \in 0 .. l |-> IF k = 0 THEN v ELSE F[k][j[k - 1]]] /\ \A k \in 0 .. l : j[k] \in D[k]
    BY <1>13 DEF Runs
  <2>2. \A k \in 0 .. l : k # 0 => k \in 1 .. l /\ k - 1 \in 0 .. l
    OBVIOUS
  <2>3. \A k \in 0 .. l : k # 0 => F[k][j[k - 1]] = AffectModify(j[k - 1], c, ds[k], found)
    BY <1>11, <2>1, <2>2
  <2>4. QED
    BY <2>1, <2>3
<1> DEFINE i == CHOOSE step : Q(step)
<1>15. Q(i)
  BY <1>14
<1>16. ModifyAll(v, c, ds, found, AffectModify) = i[l]
  BY <1>2 DEF ModifyAll
<1> HIDE DEF i
<1>17. i[0] = v /\ \A k \in 1 .. l : i[k] = AffectModify(i[k - 1], c, ds[k], found)
  <2>1. \A k \in 0 .. l : i[k] = IF k = 0 THEN v ELSE AffectModify(i[k - 1], c, ds[k], found)
    BY <1>15
  <2>2. 0 \in 0 .. l /\ \A k \in 1 .. l : k \in 0 .. l /\ k # 0
    OBVIOUS
  <2>3. QED
    BY <2>1, <2>2
<1> DEFINE G == {k \in 0 .. l : i[k] \in D[k]}
<1>18. 0 \in G
  BY <1>9, <1>17
<1>19. ASSUME NEW k \in 1 .. l, k - 1 \in G PROVE k \in G
  BY <1>10, <1>17, <1>19
<1> HIDE DEF G
<1>20. l \in G
  <2>1. \A k \in 0 .. l : k \in G
    BY <1>18, <1>19, Upward
  <2>2. QED
    BY <2>1
<1>21. Arms(v, i[l], c, Part(f, l), Part(h, l), low)
  BY <1>20 DEF G, D
<1>22. Part(f, l) = m /\ Part(h, l) = n
  BY <1>1, <1>3, <1>4, <1>6 DEF Summing
<1>23. QED
  BY <1>8, <1>16, <1>21, <1>22
-----------------------------------------------------------------------------
(* unequip_char: from a scabbard nothing else happens.                      *)
LEMMA UseKept ==
  ASSUME scene \in Scenes, NEW v, Sound(v), NEW u, Sound(u), NEW c \in Chars,
         InUse(u, c) = InUse(v, c), \A p \in InUse(v, c) : u.wear_loc[p] = v.wear_loc[p],
         u.enchanted = v.enchanted, u.mod_str = v.mod_str, u.armor = v.armor, u.hitroll = v.hitroll
  PROVE  Even(v, u, c, 0, 0)
<1>1. [o \in InUse(u, c) |-> ApplyAC(o, u.wear_loc[o])] = [o \in InUse(v, c) |-> ApplyAC(o, v.wear_loc[o])]
  OBVIOUS
<1>2. WornStr(u, c) = WornStr(v, c) /\ WornAC(u, c) = WornAC(v, c) /\ WornHit(u, c) = WornHit(v, c)
  BY <1>1 DEF WornStr, WornAC, WornHit
<1>3. StrOf(u, c) = StrOf(v, c) /\ ArmOf(u, c) = ArmOf(v, c) /\ HitOf(u, c) = HitOf(v, c)
  BY <1>2 DEF StrOf, ArmOf, HitOf
<1>4. StrOf(v, c) \in Int /\ HitOf(v, c) \in Int
  BY BalanceTypes
<1>5. QED
  BY <1>3, <1>4 DEF Even

LEMMA Unsheathed ==
  ASSUME scene \in Scenes, NEW v, Sound(v), NEW c \in Chars, NEW o \in WornBy(v, c), v.wear_loc[o] \in Scabbards,
         NEW u, u = [v EXCEPT !.wear_loc[o] = "none"]
  PROVE  Undone(v, u, c, o) /\ u.contents = v.contents /\ InUse(u, c) = InUse(v, c) /\ Bared(v, u, c, o)
<1>1. o \in Carried(v, c) /\ o \in Things /\ o \in Objs /\ o \notin InUse(v, c)
  BY CarriedIs, ThingsAre, InUseIs
<1>2. v \in WType /\ v.wear_loc \in [Objs -> WearLocs] /\ "none" \in WearLocs
  BY Fields, Places DEF Sound
<1>3. PICK l : l = [v.wear_loc EXCEPT ![o] = "none"]
  OBVIOUS
<1>4. l \in [Objs -> WearLocs]
  BY <1>2, <1>3
<1>5. u = [v EXCEPT !.wear_loc = l]
  BY <1>2, <1>3 DEF WType
<1>6. /\ u \in WType /\ u.contents = v.contents /\ u.wear_loc = l /\ u.light = v.light
      /\ u.mod_str = v.mod_str /\ u.armor = v.armor /\ u.hitroll = v.hitroll
      /\ u.flying = v.flying /\ u.kept = v.kept
  BY <1>2, <1>4, <1>5 DEF WType
<1>7. Still(v, u)
  BY <1>2, <1>5 DEF WType, Still
<1>8. Relocated(v, u, c, o, "none")
  BY <1>1, <1>2, <1>3, <1>6, <1>7 DEF Relocated
<1>9. Sound(u) /\ Bared(v, u, c, o)
  BY <1>8, SoundRelocated, Baring
<1>10. /\ u.wear_loc[o] = "none" /\ \A p \in Objs \ {o} : u.wear_loc[p] = v.wear_loc[p]
       /\ \A d \in Chars : Carried(u, d) = Carried(v, d)
       /\ WornBy(u, c) = WornBy(v, c) \ {o}
  BY <1>9 DEF Bared
<1>11. \A p \in WornBy(v, c) : p # o => u.wear_loc[p] = v.wear_loc[p]
  <2>1. WornBy(v, c) \subseteq Objs
    BY CarriedIs, ThingsAre
  <2>2. QED
    BY <1>10, <2>1
<1>12. InUse(u, c) = InUse(v, c)
  <2>1. \A p : p \in InUse(u, c) <=> p \in InUse(v, c)
    BY <1>1, <1>10, <1>11, InUseIs
  <2>2. QED
    BY <2>1
<1>13. \A p \in InUse(v, c) : u.wear_loc[p] = v.wear_loc[p]
  BY <1>1, <1>11, InUseIs
<1>14. Even(v, u, c, 0, 0)
  <2>1. u.enchanted = v.enchanted
    BY <1>7 DEF Still
  <2>2. QED
    BY <1>6, <1>9, <1>12, <1>13, <2>1, UseKept
<1>15. Flight(v, u, c)
  BY <1>6, <1>12 DEF Flight
<1>16. Aside(v, u, c)
  <2>1. \A p \in Objs : p \notin Carried(v, c) => u.wear_loc[p] = v.wear_loc[p]
    BY <1>1, <1>10
  <2>2. QED
    BY <1>6, <1>7, <1>10, <2>1 DEF Aside
<1>17. Less(v, u, c)
  BY <1>6, <1>10, <1>11 DEF Less
<1>18. Out(v, u, c, o)
  <2>1. u.lit = v.lit
    BY <1>7 DEF Still
  <2>2. NoLamp(v, u, o)
    BY <1>1, <1>9, <2>1, LampsLess
  <2>3. o \notin Lamps(v, c)
    <3>1. v.wear_loc[o] \notin Hands
      BY Places
    <3>2. QED
      BY <3>1, InUseIs
  <2>4. QED
    BY <1>6, <2>2, <2>3 DEF Out
<1>19. QED
  BY <1>6, <1>9, <1>10, <1>12, <1>14, <1>15, <1>16, <1>17, <1>18 DEF Undone

(* A weapon that c was too weak for, by no more than what o does.           *)
Fell(v, u, c, y, o) ==
  /\ y = GetEqChar(v, c, "wield") /\ y \in ToSet(u.contents[in_room[c]])
  /\ kit[y].type = "weapon" /\ kit[y].heft > Cut(v.mod_str[c] - Swing(o))

(* Nothing leaves the list but o and such a weapon.                         *)
Loses(v, u, c, o) == \A y \in Carried(v, c) : y \in Carried(u, c) \/ y = o \/ Fell(v, u, c, y, o)

LEMMA Unequipping ==
  ASSUME scene \in Scenes, NEW v, Sound(v), NEW c \in Chars, in_room[c] \in Rooms,
         NEW o \in WornBy(v, c), NEW found, NEW u, u = Unequipped(v, c, o, found, AffectModify)
  PROVE  Undone(v, u, c, o) /\ o \in Carried(u, c) /\ Loses(v, u, c, o)
<1>1. o \in Things /\ o \in Carried(v, c)
  BY CarriedIs, InUseIs
<1>2. CASE v.wear_loc[o] \in Scabbards
  <2>1. u = [v EXCEPT !.wear_loc[o] = "none"]
    BY <1>2 DEF Unequipped
  <2>2. Undone(v, u, c, o) /\ u.contents = v.contents
    BY <1>2, <2>1, Unsheathed
  <2>3. Carried(u, c) = Carried(v, c)
    BY <2>2 DEF Carried
  <2>4. QED
    BY <1>1, <2>2, <2>3 DEF Loses
<1>3. CASE v.wear_loc[o] \notin Scabbards
  <2>0. o \in InUse(v, c)
    BY <1>3, InUseIs
  <2>1. PICK s : s = [v EXCEPT !.armor[c] = @ + ApplyAC(o, v.wear_loc[o]), !.wear_loc[o] = "none"]
    OBVIOUS
  <2>2. Off(v, s, c, o)
    BY <2>0, <2>1, Doffing
  <2>3. PICK ds : ds = Reverts(v, o)
    OBVIOUS
  <2>4. Sums(ds, -Might(o), -Charm(v, o), Swing(o))
    BY <1>1, <2>3, RevertsSum
  <2>5. PICK t : t = ModifyAll(s, c, ds, found, AffectModify)
    OBVIOUS
  <2>6. Sound(s) /\ s \in WType
    BY <2>2 DEF Off, Sound
  <2>7. Arms(s, t, c, -Might(o), -Charm(v, o), s.mod_str[c] - Swing(o))
    BY <2>4, <2>5, <2>6, ModifyDrops
  <2>8. -Might(o) \in Int /\ -Charm(v, o) \in Int
    BY <2>4 DEF Sums
  <2>9. Turn(s, t, c, -Might(o), -Charm(v, o))
    BY <2>6, <2>7, <2>8, ArmsTurn
  <2>10. u = PowerGone(Dims(t, c, o), c, o, found)
    BY <1>3, <2>1, <2>3, <2>5 DEF Unequipped
  <2>11. Undone(v, u, c, o) /\ u.contents = t.contents
    BY <2>0, <2>2, <2>9, <2>10, Undressed
  <2>12. s.contents = v.contents /\ s.mod_str = v.mod_str /\ s.wear_loc[o] = "none"
         /\ Carried(s, c) = Carried(v, c)
    BY <2>2 DEF Off, Carried
  <2>13. CASE ShiftBy(s, t, c, -Might(o), -Charm(v, o))
    <3>1. Carried(u, c) = Carried(v, c)
      BY <2>11, <2>12, <2>13 DEF ShiftBy, Carried
    <3>2. QED
      BY <1>1, <2>11, <3>1 DEF Loses
  <2>14. CASE Armless(s, t, c, s.mod_str[c] - Swing(o))
    <3>1. PICK y \in WornBy(s, c) :
            /\ y = GetEqChar(s, c, "wield")
            /\ Carried(t, c) = Carried(s, c) \ {y} /\ y \in ToSet(t.contents[in_room[c]])
            /\ kit[y].type = "weapon" /\ kit[y].heft > Cut(s.mod_str[c] - Swing(o))
      BY <2>14 DEF Armless
    <3>2. PICK loc : loc = "wield" /\ loc # "none"
      OBVIOUS
    <3>3. EqIs(s, c, loc, y)
      BY <2>6, <3>1, <3>2, EqChar
    <3>4. y # None /\ s.wear_loc[y] = loc
      <4>1. y \in Objs
        BY <2>6, <3>1, CarriedIs, ThingsAre
      <4>2. QED
        BY <3>3, <4>1, Where DEF EqIs
    <3>5. y # o
      BY <2>12, <3>2, <3>4
    <3>6. y \in WornBy(v, c) /\ v.wear_loc[y] = loc
      <4>1. WornBy(s, c) = WornBy(v, c) \ {o} /\ \A p \in Objs \ {o} : s.wear_loc[p] = v.wear_loc[p]
        BY <2>2 DEF Off
      <4>2. y \in Objs
        BY <2>6, <3>1, CarriedIs, ThingsAre
      <4>3. QED
        BY <3>1, <3>4, <3>5, <4>1, <4>2
    <3>7. y = GetEqChar(v, c, loc)
      <4>1. EqIs(v, c, loc, GetEqChar(v, c, loc))
        BY <3>2, EqChar
      <4>2. QED
        BY <3>6, <4>1 DEF EqIs
    <3>8. Carried(u, c) = Carried(v, c) \ {y}
      BY <2>11, <2>12, <3>1 DEF Carried
    <3>9. Fell(v, u, c, y, o)
      BY <2>11, <2>12, <3>1, <3>2, <3>7 DEF Fell
    <3>10. QED
      BY <1>1, <2>11, <3>5, <3>8, <3>9 DEF Loses
  <2>15. QED
    BY <2>7, <2>13, <2>14 DEF Arms
<1>4. QED
  BY <1>2, <1>3

(* obj_from_char.                                                           *)
LEMMA FromCharTakes ==
  ASSUME scene \in Scenes, NEW v, Sound(v), NEW c \in Chars, NEW o \in Carried(v, c),
         o \in WornBy(v, c) => in_room[c] \in Rooms,
         NEW found, NEW u, u = FromChar(v, c, o, found, AffectModify)
  PROVE  Undone(v, u, c, o) /\ Nowhere(u, o) /\ Loses(v, u, c, o)
<1>1. PICK r : r = IF v.wear_loc[o] = "none" THEN v ELSE Unequipped(v, c, o, found, AffectModify)
  OBVIOUS
<1>2. Undone(v, r, c, o) /\ o \in Carried(r, c) /\ Loses(v, r, c, o)
  <2>1. CASE v.wear_loc[o] = "none"
    <3>1. r = v
      BY <1>1, <2>1
    <3>2. Undone(v, v, c, o)
      BY <2>1, UndoneIdle
    <3>3. Loses(v, v, c, o)
      BY DEF Loses
    <3>4. QED
      BY <3>1, <3>2, <3>3
  <2>2. CASE v.wear_loc[o] # "none"
    <3>1. o \in WornBy(v, c) /\ r = Unequipped(v, c, o, found, AffectModify)
      BY <1>1, <2>2, InUseIs
    <3>2. in_room[c] \in Rooms
      BY <3>1
    <3>3. QED
      BY <3>1, <3>2, Unequipping
  <2>3. QED
    BY <2>1, <2>2
<1>3. u = TakeOut(r, c, o)
  BY <1>1 DEF FromChar
<1>4. Undone(v, u, c, o) /\ TakenFrom(r, u, c, o)
  BY <1>2, <1>3, UndoneTaken
<1>5. Carried(u, c) = Carried(r, c) \ {o} /\ \A h \in Rooms : u.contents[h] = r.contents[h]
  BY <1>4, Where DEF TakenFrom, Removed, Carried
<1>6. Loses(v, u, c, o)
  <2>1. ASSUME NEW y \in Carried(v, c), y \notin Carried(u, c), y # o PROVE Fell(v, u, c, y, o)
    <3>1. y \notin Carried(r, c)
      BY <1>5, <2>1
    <3>2. Fell(v, r, c, y, o)
      BY <1>2, <2>1, <3>1 DEF Loses
    <3>3. o \in WornBy(v, c)
      <4>1. r # v
        BY <2>1, <3>1
      <4>2. QED
        BY <1>1, <4>1, InUseIs
    <3>4. in_room[c] \in Rooms
      BY <3>3
    <3>5. u.contents[in_room[c]] = r.contents[in_room[c]]
      BY <1>5, <3>4
    <3>6. QED
      BY <3>2, <3>5 DEF Fell
  <2>2. QED
    BY <2>1 DEF Loses
<1>7. QED
  BY <1>4, <1>6 DEF TakenFrom

(* What is taken from c and put into a room or a corpse.                    *)
LEMMA PutKeeps ==
  ASSUME scene \in Scenes, NEW v, Sound(v), NEW c \in Chars, in_room[c] \in Rooms, NEW o \in Things, NEW r,
         Undone(v, r, c, o), Nowhere(r, o), Loses(v, r, c, o), NEW h \in Rooms \cup {Corpse}, NEW u, u = PutIn(r, h, o)
  PROVE  Undone(v, u, c, o) /\ Loses(v, u, c, o) /\ o \in ToSet(u.contents[h])
<1>1. Undone(v, u, c, o) /\ PlacedIn(r, u, h, o)
  BY UndonePut
<1>2. Prepended(r.contents[h], o, u.contents[h]) /\ \A g \in Holders : g # h => u.contents[g] = r.contents[g]
  BY <1>1 DEF PlacedIn
<1>3. ToSet(u.contents[h]) = ToSet(r.contents[h]) \cup {o}
  BY <1>2 DEF Prepended
<1>4. Carried(u, c) = Carried(r, c)
  BY <1>2, Where DEF Carried
<1>5. \A y : Fell(v, r, c, y, o) => Fell(v, u, c, y, o)
  BY <1>2, <1>3, Where DEF Fell
<1>6. Loses(v, u, c, o)
  BY <1>4, <1>5 DEF Loses
<1>7. QED
  BY <1>1, <1>3, <1>6
-----------------------------------------------------------------------------
(* The lamps in a room.                                                     *)
LampsOf(v, at, r) == UNION {Lamps(v, c) : c \in {d \in Chars : at[d] = r}}
Bright(v, at) == \A r \in Rooms : v.light[r] = Cardinality(LampsOf(v, at, r))

LEMMA LampsAre ==
  ASSUME scene \in Scenes, NEW v, Sound(v), NEW at, NEW r
  PROVE  /\ \A o : o \in LampsOf(v, at, r) <=> \E c \in Chars : at[c] = r /\ o \in Lamps(v, c)
         /\ IsFiniteSet(LampsOf(v, at, r)) /\ Cardinality(LampsOf(v, at, r)) \in Nat
<1>1. \A o : o \in LampsOf(v, at, r) <=> \E c \in Chars : at[c] = r /\ o \in Lamps(v, c)
  BY DEF LampsOf
<1>2. LampsOf(v, at, r) \subseteq Things
  <2>1. \A c \in Chars : Lamps(v, c) \subseteq Things
    BY CarriedIs, InUseIs
  <2>2. QED
    BY <1>1, <2>1
<1>3. IsFiniteSet(LampsOf(v, at, r))
  BY <1>2, ThingsAre, FS_Subset
<1>4. QED
  BY <1>1, <1>3, FS_CardinalityType

(* One lamp less in one room, where all are at and then to.                 *)
OneLess(v, at, u, to, r) ==
  \A q \in Rooms : Cardinality(LampsOf(v, at, q)) = Cardinality(LampsOf(u, to, q)) + (IF q = r THEN 1 ELSE 0)

LEMMA LampOut ==
  ASSUME scene \in Scenes, NEW v, Sound(v), NEW u, NEW c \in Chars, NEW o \in Lamps(v, c),
         NoLamp(v, u, o), NEW at
  PROVE  OneLess(v, at, u, at, at[c])
<1>1. \A d \in Chars : \A p : p \in Lamps(u, d) <=> p \in Lamps(v, d) /\ p # o
  BY DEF NoLamp
<1>2. \A d \in Chars : o \in Lamps(v, d) => d = c
  BY InUseIs, OneBearer
<1> SUFFICES ASSUME NEW q \in Rooms
             PROVE  Cardinality(LampsOf(v, at, q)) = Cardinality(LampsOf(u, at, q)) + (IF q = at[c] THEN 1 ELSE 0)
  BY DEF OneLess
<1>3. PICK A : A = LampsOf(v, at, q)
  OBVIOUS
<1>4. PICK B : B = LampsOf(u, at, q)
  OBVIOUS
<1>5. \A p : p \in B <=> \E d \in Chars : at[d] = q /\ p \in Lamps(u, d)
  BY <1>4 DEF LampsOf
<1>6. /\ \A p : p \in A <=> \E d \in Chars : at[d] = q /\ p \in Lamps(v, d)
      /\ IsFiniteSet(A) /\ Cardinality(A) \in Nat
  BY <1>3, LampsAre
<1>7. \A p : p \in B <=> p \in A /\ p # o
  BY <1>1, <1>5, <1>6
<1>8. o \in A <=> at[c] = q
  BY <1>2, <1>6
<1>9. CASE at[c] = q
  <2>1. B = A \ {o} /\ o \in A
    BY <1>7, <1>8, <1>9
  <2>2. Cardinality(B) = Cardinality(A) - 1
    BY <1>6, <2>1, FS_RemoveElement
  <2>3. QED
    BY <1>3, <1>4, <1>6, <1>9, <2>2
<1>10. CASE at[c] # q
  <2>1. B = A
    BY <1>7, <1>8, <1>10
  <2>2. QED
    BY <1>3, <1>4, <1>6, <1>10, <2>1
<1>11. QED
  BY <1>9, <1>10

LEMMA OneLessBright ==
  ASSUME scene \in Scenes, NEW v, Sound(v), NEW u, Sound(u), NEW at, NEW to, NEW r \in Rooms,
         OneLess(v, at, u, to, r)
  PROVE  /\ Dimmer(v.light, u.light, r) => (Bright(v, at) <=> Bright(u, to))
         /\ Bright(v, at) => v.light[r] > 0
<1>1. v.light \in [Rooms -> Int] /\ u.light \in [Rooms -> Int]
  BY Fields DEF Sound
<1>2. \A q \in Rooms : Cardinality(LampsOf(v, at, q)) \in Nat /\ Cardinality(LampsOf(u, to, q)) \in Nat
  BY LampsAre
<1>3. Bright(v, at) => v.light[r] > 0
  <2>1. HAVE Bright(v, at)
  <2>2. v.light[r] = Cardinality(LampsOf(u, to, r)) + 1
    BY <2>1 DEF Bright, OneLess
  <2>3. QED
    BY <1>2, <2>2
<1>4. ASSUME Dimmer(v.light, u.light, r) PROVE Bright(v, at) <=> Bright(u, to)
  <2>1. \A q \in Rooms : u.light[q] = v.light[q] - (IF q = r THEN 1 ELSE 0)
    BY <1>1, <1>4 DEF Dimmer
  <2>2. \A q \in Rooms : Cardinality(LampsOf(v, at, q)) = Cardinality(LampsOf(u, to, q)) + (IF q = r THEN 1 ELSE 0)
    BY DEF OneLess
  <2>3. ASSUME NEW q \in Rooms
        PROVE  v.light[q] = Cardinality(LampsOf(v, at, q)) <=> u.light[q] = Cardinality(LampsOf(u, to, q))
    <3>1. PICK i \in Int : i = v.light[q]
      BY <1>1
    <3>2. PICK j \in Int : j = Cardinality(LampsOf(v, at, q))
      BY <1>2
    <3>3. PICK k \in Int : k = Cardinality(LampsOf(u, to, q))
      BY <1>2
    <3>4. PICK e \in Int : e = IF q = r THEN 1 ELSE 0
      OBVIOUS
    <3>5. u.light[q] = i - e /\ j = k + e
      BY <2>1, <2>2, <3>1, <3>2, <3>3, <3>4
    <3>6. QED
      BY <3>1, <3>2, <3>3, <3>5
  <2>4. QED
    BY <2>3 DEF Bright
<1>5. QED
  BY <1>3, <1>4

(* The same lamps, and the same count.                                      *)
LEMMA SameBright ==
  ASSUME NEW v, NEW u, SameLight(v, u), NEW at
  PROVE  Bright(v, at) <=> Bright(u, at)
<1>1. \A r : LampsOf(u, at, r) = LampsOf(v, at, r)
  <2>1. \A d \in Chars : Lamps(u, d) = Lamps(v, d)
    BY DEF SameLight
  <2>2. ASSUME NEW r PROVE LampsOf(u, at, r) = LampsOf(v, at, r)
    <3>1. {Lamps(u, d) : d \in {x \in Chars : at[x] = r}} = {Lamps(v, d) : d \in {x \in Chars : at[x] = r}}
      BY <2>1
    <3>2. QED
      BY <3>1 DEF LampsOf
  <2>3. QED
    BY <2>2
<1>2. u.light = v.light
  BY DEF SameLight
<1>3. QED
  BY <1>1, <1>2 DEF Bright

(* Taking things off leaves rooms as light as their lamps.                  *)
LEMMA UndoneBright ==
  ASSUME scene \in Scenes, NEW v, Sound(v), NEW u, NEW c \in Chars, NEW o, Undone(v, u, c, o),
         o \in WornBy(v, c) => in_room[c] \in Rooms, Bright(v, in_room)
  PROVE  Bright(u, in_room)
<1>1. Sound(u) /\ Out(v, u, c, o)
  BY DEF Undone
<1>2. CASE o \in Lamps(v, c)
  <2>1. PICK r \in Rooms : r = in_room[c]
    BY <1>2, InUseIs
  <2>2. OneLess(v, in_room, u, in_room, r)
    BY <1>1, <1>2, <2>1, LampOut DEF Out
  <2>3. v.light[r] > 0
    BY <1>1, <2>2, OneLessBright
  <2>4. Dimmer(v.light, u.light, r)
    BY <1>1, <1>2, <2>1, <2>3 DEF Out
  <2>5. QED
    BY <1>1, <2>2, <2>4, OneLessBright
<1>3. CASE o \notin Lamps(v, c)
  <2>2. CASE \E d \in Chars : o \in Lamps(v, d)
    <3>1. PICK d \in Chars : o \in Lamps(v, d)
      BY <2>2
    <3>2. d # c
      BY <1>3, <3>1
    <3>3. o \in Carried(v, d) /\ v.wear_loc[o] # "none" /\ u.wear_loc[o] = "none"
      BY <3>1, InUseIs DEF Undone
    <3>4. o \notin Carried(v, c) /\ o \in Objs
      BY <3>2, <3>3, OneBearer, CarriedIs, ThingsAre
    <3>5. u.wear_loc[o] = v.wear_loc[o]
      BY <3>4 DEF Undone, Aside
    <3>6. QED
      BY <3>3, <3>5
  <2>3. CASE \A d \in Chars : o \notin Lamps(v, d)
    <3>1. \A d \in Chars : Lamps(u, d) = Lamps(v, d)
      BY <1>1, <2>3 DEF Out, NoLamp
    <3>2. u.light = v.light
      BY <1>1, <1>3 DEF Out
    <3>3. SameLight(v, u)
      BY <3>1, <3>2 DEF SameLight
    <3>4. QED
      BY <3>3, SameBright
  <2>4. QED
    BY <2>2, <2>3
<1>4. QED
  BY <1>2, <1>3

-----------------------------------------------------------------------------
(* The inductive invariant, of a state v of lists and sums, of places and   *)
(* of spells.                                                               *)
Cast(S) == SumOf([a \in S |-> a.modifier])
OneOfEach(S) == S \in SUBSET AffType /\ IsFiniteSet(S) /\ \A a, b \in S : a.type = b.type => a = b

Balanced(v, c, S) == StrOf(v, c) = Cast(S) /\ ArmOf(v, c) = 100 /\ HitOf(v, c) = v.surplus[c]
Spelled(S) == \E a \in S : a.type = "fly"
Sourced(v, c, S) == v.flying[c] => v.kept[c] \/ Spelled(S) \/ \E o \in InUse(v, c) : kit[o].flies

(* A file by itself.                                                        *)
ACOf(k, loc) ==
  IF k.type # "armor" THEN 0
  ELSE k.ac * (CASE loc = "body" -> 3 [] loc \in {"hold", "finger"} -> 1 [] OTHER -> 0)
UsedIn(f) == {i \in DOMAIN f.things : f.things[i].wear_loc \notin Scabbards \cup {"none"}}

FileHands(f) ==
  \A i \in DOMAIN f.things :
    f.things[i].kit.type = "light" /\ f.things[i].wear_loc # "none" => f.things[i].wear_loc \in Hands
FilePlaces(f) ==
  \A i, j \in DOMAIN f.things :
    f.things[i].wear_loc = f.things[j].wear_loc /\ f.things[i].wear_loc # "none" => i = j
FileSums(f) ==
  /\ f.mod_str = Cast(f.affected) + SumOf([i \in UsedIn(f) |-> SumOf(f.things[i].kit.affects)])
  /\ f.armor = 100 - SumOf([i \in UsedIn(f) |-> ACOf(f.things[i].kit, f.things[i].wear_loc)])
  /\ f.hitroll = f.surplus
FilePowers(f) ==
  f.flying => f.kept \/ Spelled(f.affected) \/ \E i \in UsedIn(f) : f.things[i].kit.flies

FileFits(f) ==
  f \in FileType /\ OneOfEach(f.affected) /\ FileHands(f) /\ FilePlaces(f) /\ FileSums(f) /\ FilePowers(f)

Person(v, at, aff, c) ==
  /\ OneOfEach(aff[c]) /\ Balanced(v, c, aff[c]) /\ Sourced(v, c, aff[c]) /\ FileFits(v.file[c])
  /\ at[c] = None => WornBy(v, c) = {}

Fits(v, at, aff) == Sound(v) /\ \A c \in Chars : Person(v, at, aff, c)

(* What is different for one player only.                                   *)
Beside(at, aff, to, eff, c) == \A d \in Chars : d # c => to[d] = at[d] /\ eff[d] = aff[d]

LEMMA BesideNone ==
  ASSUME NEW at, NEW aff, NEW c
  PROVE  Beside(at, aff, at, aff, c)
  BY DEF Beside

LEMMA OthersFit ==
  ASSUME scene \in Scenes, NEW v, NEW at, NEW aff, Fits(v, at, aff), NEW u, Sound(u), NEW c \in Chars,
         Aside(v, u, c), NEW to, NEW eff, Beside(at, aff, to, eff, c), Person(u, to, eff, c)
  PROVE  Fits(u, to, eff)
<1>1. Sound(v)
  BY DEF Fits
<1>2. \A d \in Chars : d # c => SameWear(v, u, d) /\ Even(v, u, d, 0, 0)
  BY <1>1, OthersWear
<1>3. ASSUME NEW d \in Chars, d # c PROVE Person(u, to, eff, d)
  <2>1. Person(v, at, aff, d) /\ to[d] = at[d] /\ eff[d] = aff[d]
    BY <1>3 DEF Fits, Beside
  <2>2. SameWear(v, u, d) /\ Even(v, u, d, 0, 0)
    BY <1>2, <1>3
  <2>3. InUse(u, d) = InUse(v, d) /\ WornBy(u, d) = WornBy(v, d)
    BY <2>2, WearKept DEF SameWear
  <2>4. u.surplus = v.surplus /\ u.file = v.file /\ u.flying[d] = v.flying[d] /\ u.kept[d] = v.kept[d]
    BY <1>3 DEF Aside, Still
  <2>5. Balanced(u, d, aff[d])
    <3>1. Balanced(v, d, aff[d])
      BY <2>1 DEF Person
    <3>2. StrOf(v, d) \in Int /\ HitOf(v, d) \in Int
      BY <1>1, BalanceTypes
    <3>3. QED
      BY <2>2, <2>4, <3>1, <3>2 DEF Balanced, Even
  <2>6. Sourced(u, d, aff[d])
    BY <2>1, <2>3, <2>4 DEF Person, Sourced
  <2>7. QED
    BY <2>1, <2>3, <2>4, <2>5, <2>6 DEF Person
<1>4. QED
  BY <1>3 DEF Fits

(* A step that balances, for c alone.                                       *)
Steady(v, u, c) ==
  /\ Sound(u) /\ Aside(v, u, c) /\ Even(v, u, c, 0, 0)
  /\ Sourced(v, c, affected[c]) => Sourced(u, c, affected[c])
  /\ Bright(v, in_room) => Bright(u, in_room)

(* What it makes of a state that fits.                                      *)
Onward(v, u) == Fits(u, in_room, affected) /\ (Bright(v, in_room) => Bright(u, in_room))

LEMMA SteadyFits ==
  ASSUME scene \in Scenes, NEW v, Fits(v, in_room, affected), NEW c \in Chars, in_room[c] # None, NEW u,
         Steady(v, u, c)
  PROVE  Onward(v, u)
<1>1. Person(v, in_room, affected, c) /\ Sound(v)
  BY DEF Fits
<1>2. Sound(u) /\ Aside(v, u, c) /\ Even(v, u, c, 0, 0) /\ u.surplus = v.surplus /\ u.file = v.file
  BY DEF Steady, Aside, Still
<1>3. StrOf(v, c) \in Int /\ HitOf(v, c) \in Int
  BY <1>1, BalanceTypes
<1>4. Balanced(u, c, affected[c])
  BY <1>1, <1>2, <1>3 DEF Person, Balanced, Even
<1>5. Sourced(u, c, affected[c])
  BY <1>1 DEF Person, Steady
<1>6. Person(u, in_room, affected, c)
  BY <1>1, <1>2, <1>4, <1>5 DEF Person
<1>7. Fits(u, in_room, affected)
  BY <1>2, <1>6, OthersFit, BesideNone
<1>8. QED
  BY <1>7 DEF Onward, Steady

LEMMA FlightSourced ==
  ASSUME NEW v, NEW u, NEW c, Flight(v, u, c), Sourced(v, c, affected[c])
  PROVE  Sourced(u, c, affected[c])
  BY DEF Flight, Aloft, Sourced, Spelled, IsAffected

LEMMA UndoneSteady ==
  ASSUME scene \in Scenes, NEW v, Sound(v), NEW u, NEW c \in Chars, NEW o, Undone(v, u, c, o),
         o \in WornBy(v, c) => in_room[c] \in Rooms
  PROVE  Steady(v, u, c)
<1>1. Sound(u) /\ Aside(v, u, c) /\ Even(v, u, c, 0, 0) /\ Flight(v, u, c)
  BY DEF Undone
<1>2. Bright(v, in_room) => Bright(u, in_room)
  BY UndoneBright
<1>3. QED
  BY <1>1, <1>2, FlightSourced DEF Steady

(* Only the file of c is written.                                           *)
Filed(v, u, c) ==
  /\ u \in WType /\ u.contents = v.contents /\ u.wear_loc = v.wear_loc /\ u.mod_str = v.mod_str
  /\ u.armor = v.armor /\ u.hitroll = v.hitroll /\ u.flying = v.flying /\ u.kept = v.kept
  /\ u.light = v.light /\ u.enchanted = v.enchanted /\ u.marked = v.marked /\ u.lit = v.lit
  /\ u.surplus = v.surplus /\ FileFits(u.file[c]) /\ \A d \in Chars : d # c => u.file[d] = v.file[d]

LEMMA FiledSound ==
  ASSUME NEW v, Sound(v), NEW u, NEW c, Filed(v, u, c)
  PROVE  /\ Sound(u)
         /\ \A d : /\ WornBy(u, d) = WornBy(v, d) /\ InUse(u, d) = InUse(v, d) /\ Lamps(u, d) = Lamps(v, d)
                   /\ Carried(u, d) = Carried(v, d)
                   /\ StrOf(u, d) = StrOf(v, d) /\ ArmOf(u, d) = ArmOf(v, d) /\ HitOf(u, d) = HitOf(v, d)
<1>1. \A d : Carried(u, d) = Carried(v, d) /\ WornBy(u, d) = WornBy(v, d)
  BY DEF Filed, Carried, WornBy
<1>2. \A d : InUse(u, d) = InUse(v, d)
  BY <1>1 DEF Filed, InUse
<1>3. \A d : Lamps(u, d) = Lamps(v, d)
  BY <1>1 DEF Filed, Lamps
<1>4. \A d : WornStr(u, d) = WornStr(v, d) /\ WornAC(u, d) = WornAC(v, d) /\ WornHit(u, d) = WornHit(v, d)
  BY <1>2 DEF Filed, WornStr, WornAC, WornHit
<1>5. \A d : StrOf(u, d) = StrOf(v, d) /\ ArmOf(u, d) = ArmOf(v, d) /\ HitOf(u, d) = HitOf(v, d)
  BY <1>4 DEF Filed, StrOf, ArmOf, HitOf
<1>6. Listed(u) /\ Disjoint(u) /\ InHand(u) /\ Charmed(u) /\ u \in WType
  BY DEF Filed, Sound, Listed, Disjoint, InHand, Charmed
<1>7. Borne(u) /\ OneEach(u)
  BY <1>1 DEF Filed, Sound, Borne, OneEach
<1>8. QED
  BY <1>1, <1>2, <1>3, <1>5, <1>6, <1>7 DEF Sound

LEMMA FiledFits ==
  ASSUME NEW v, NEW at, NEW aff, Fits(v, at, aff), NEW u, NEW c, Filed(v, u, c)
  PROVE  Fits(u, at, aff) /\ (Bright(v, at) <=> Bright(u, at))
<1>1. Sound(v) /\ \A d \in Chars : Person(v, at, aff, d)
  BY DEF Fits
<1>2. Sound(u)
  BY <1>1, FiledSound
<1>3. ASSUME NEW d \in Chars PROVE Person(u, at, aff, d)
  <2>1. Person(v, at, aff, d)
    BY <1>1
  <2>2. /\ WornBy(u, d) = WornBy(v, d) /\ InUse(u, d) = InUse(v, d)
        /\ StrOf(u, d) = StrOf(v, d) /\ ArmOf(u, d) = ArmOf(v, d) /\ HitOf(u, d) = HitOf(v, d)
    BY <1>1, FiledSound
  <2>3. u.surplus = v.surplus /\ u.flying = v.flying /\ u.kept = v.kept
    BY DEF Filed
  <2>4. FileFits(u.file[d])
    BY <2>1 DEF Filed, Person
  <2>5. Balanced(u, d, aff[d]) /\ Sourced(u, d, aff[d])
    BY <2>1, <2>2, <2>3 DEF Person, Balanced, Sourced
  <2>6. QED
    BY <2>1, <2>2, <2>4, <2>5 DEF Person
<1>4. SameLight(v, u)
  BY <1>1, FiledSound DEF SameLight, Filed
<1>5. QED
  BY <1>2, <1>3, <1>4, SameBright DEF Fits

(* do_autosave.                                                             *)
ThingOf(v, o) == [kit |-> kit[o], wear_loc |-> v.wear_loc[o], marked |-> o \in v.marked]

LEMMA ImageThings ==
  ASSUME scene \in Scenes, NEW v, Sound(v), NEW c \in Chars, NEW room \in Rooms, NEW S \in SUBSET AffType,
         NEW f, f = Image(v, c, room, S)
  PROVE  /\ f \in FileType /\ DOMAIN f.things = DOMAIN v.contents[c]
         /\ \A i \in DOMAIN f.things : /\ v.contents[c][i] \in Carried(v, c)
                                       /\ f.things[i] = ThingOf(v, v.contents[c][i])
         /\ f.mod_str = v.mod_str[c] /\ f.armor = v.armor[c] /\ f.hitroll = v.hitroll[c]
         /\ f.flying = v.flying[c] /\ f.kept = v.kept[c] /\ f.affected = S
         /\ f.surplus = v.surplus[c] + WornHit(v, c)
<1>1. PICK s : s = v.contents[c]
  OBVIOUS
<1>2. s \in Seq(Objs) /\ Carried(v, c) = ToSet(s) /\ Carried(v, c) \subseteq Things
  BY <1>1, CarriedIs
<1>3. PICK ts : ts = [i \in DOMAIN s |-> ThingOf(v, s[i])]
  OBVIOUS
<1>4. f = [things |-> ts, mod_str |-> v.mod_str[c], armor |-> v.armor[c], hitroll |-> v.hitroll[c],
           flying |-> v.flying[c], kept |-> v.kept[c], affected |-> S, in_room |-> room,
           surplus |-> v.surplus[c] + WornHit(v, c)]
  BY <1>1, <1>3 DEF Image, ThingOf, WornHit
<1>5. v \in WType /\ v.wear_loc \in [Objs -> WearLocs]
  BY Fields DEF Sound
<1>6. \A i \in DOMAIN s : s[i] \in Carried(v, c)
  BY <1>2, SeqIs
<1>7. ASSUME NEW i \in DOMAIN s PROVE ThingOf(v, s[i]) \in FileThing
  <2>1. s[i] \in Things /\ s[i] \in Objs
    BY <1>2, <1>6, ThingsAre
  <2>2. kit[s[i]] \in Kits
    BY <2>1, ThingsAre DEF Prototype
  <2>3. v.wear_loc[s[i]] \in WearLocs /\ (s[i] \in v.marked) \in BOOLEAN
    BY <1>5, <2>1
  <2>4. QED
    BY <2>2, <2>3 DEF ThingOf, FileThing
<1>8. ts \in Seq(FileThing)
  <2>1. Len(s) \in Nat /\ DOMAIN s = 1 .. Len(s)
    BY <1>2, SeqIs
  <2>2. ts \in [1 .. Len(s) -> FileThing]
    BY <1>3, <1>7, <2>1
  <2>3. QED
    BY <2>1, <2>2
<1>9. WornHit(v, c) \in Int /\ v.mod_str[c] \in Int /\ v.armor[c] \in Int /\ v.hitroll[c] \in Int
  BY WornTypes
<1>10. v.surplus[c] \in Int /\ v.flying[c] \in BOOLEAN /\ v.kept[c] \in BOOLEAN
  BY <1>5, Fields
<1>11. v.surplus[c] + WornHit(v, c) \in Int
  BY <1>9, <1>10
<1>12. f \in FileType
  BY <1>4, <1>8, <1>9, <1>10, <1>11 DEF FileType
<1>13. f.things = ts /\ DOMAIN ts = DOMAIN s /\ \A i \in DOMAIN s : ts[i] = ThingOf(v, s[i])
  BY <1>3, <1>4
<1>14. QED
  BY <1>1, <1>4, <1>6, <1>12, <1>13

(* What f.things says of each place i in the list, of what is in use.       *)
Pictures(v, c, f, s) ==
  /\ s = v.contents[c] /\ DOMAIN f.things = DOMAIN s /\ IsInjective(s)
  /\ \A i \in DOMAIN s : /\ s[i] \in Carried(v, c) /\ f.things[i].kit = kit[s[i]]
                         /\ f.things[i].wear_loc = v.wear_loc[s[i]]
  /\ \A o \in Carried(v, c) : \E i \in DOMAIN s : s[i] = o

(* The pieces in use, by their numbers in the file.                         *)
LEMMA PicturesInUse ==
  ASSUME scene \in Scenes, NEW v, Sound(v), NEW c \in Chars, NEW f, NEW s, Pictures(v, c, f, s)
  PROVE  /\ UsedIn(f) \subseteq DOMAIN s /\ \A i \in DOMAIN s : i \in UsedIn(f) <=> s[i] \in InUse(v, c)
         /\ \A o \in InUse(v, c) : \E i \in UsedIn(f) : s[i] = o
         /\ \A i, j \in UsedIn(f) : s[i] = s[j] => i = j
         /\ IsFiniteSet(UsedIn(f))
<1>1. UsedIn(f) \subseteq DOMAIN s
  BY DEF UsedIn, Pictures
<1>2. \A i \in DOMAIN s : i \in UsedIn(f) <=> s[i] \in InUse(v, c)
  BY InUseIs DEF UsedIn, Pictures
<1>3. \A o \in InUse(v, c) : \E i \in UsedIn(f) : s[i] = o
  BY <1>2, InUseIs DEF Pictures
<1>4. \A i, j \in UsedIn(f) : s[i] = s[j] => i = j
  BY <1>1 DEF Pictures, IsInjective
<1>5. IsFiniteSet(UsedIn(f))
  <2>1. s \in Seq(Objs)
    BY CarriedIs DEF Pictures
  <2>2. DOMAIN s = 1 .. Len(s) /\ Len(s) \in Int /\ 1 \in Int
    BY <2>1, SeqIs
  <2>3. IsFiniteSet(DOMAIN s)
    BY <2>2, FS_Interval
  <2>4. QED
    BY <1>1, <2>3, FS_Subset
<1>6. QED
  BY <1>1, <1>2, <1>3, <1>4, <1>5

Renaming(S, T, s, f, g) ==
  /\ IsFiniteSet(S) /\ s \in [S -> T] /\ f \in [S -> Int] /\ g \in [T -> Int]
  /\ (\A i, j \in S : s[i] = s[j] => i = j) /\ (\A y \in T : \E i \in S : s[i] = y)
  /\ \A i \in S : g[s[i]] = f[i]

LEMMA SumNamed ==
  ASSUME NEW S, NEW T, NEW s, NEW f, NEW g, Renaming(S, T, s, f, g)
  PROVE  SumOf(f) = SumOf(g)
<1>1. /\ IsFiniteSet(S) /\ s \in [S -> T] /\ f \in [S -> Int] /\ g \in [T -> Int]
      /\ (\A i, j \in S : s[i] = s[j] => i = j) /\ (\A y \in T : \E i \in S : s[i] = y)
      /\ \A i \in S : g[s[i]] = f[i]
  BY DEF Renaming
<1>2. QED
  BY <1>1, SumRenamed

LEMMA PicturesSums ==
  ASSUME scene \in Scenes, NEW v, Sound(v), NEW c \in Chars, NEW f, NEW s, Pictures(v, c, f, s)
  PROVE  /\ SumOf([i \in UsedIn(f) |-> SumOf(f.things[i].kit.affects)]) = WornStr(v, c)
         /\ SumOf([i \in UsedIn(f) |-> ACOf(f.things[i].kit, f.things[i].wear_loc)]) = WornAC(v, c)
         /\ (\E i \in UsedIn(f) : f.things[i].kit.flies) <=> (\E o \in InUse(v, c) : kit[o].flies)
<1>1. PICK U : U = UsedIn(f)
  OBVIOUS
<1>2. PICK T : T = InUse(v, c)
  OBVIOUS
<1>3. PICK n : n = [i \in U |-> s[i]]
  OBVIOUS
<1>4. /\ U \subseteq DOMAIN s /\ \A i \in U : s[i] \in T /\ \A o \in T : \E j \in U : s[j] = o
      /\ \A i, j \in U : s[i] = s[j] => i = j
      /\ IsFiniteSet(U) /\ \A o \in T : \E j \in U : s[j] = o
  BY <1>1, <1>2, PicturesInUse
<1>5. n \in [U -> T] /\ (\A i, j \in U : n[i] = n[j] => i = j) /\ \A o \in T : \E i \in U : n[i] = o
  BY <1>3, <1>4
<1>6. \A i \in U : f.things[i].kit = kit[n[i]] /\ f.things[i].wear_loc = v.wear_loc[n[i]]
  BY <1>3, <1>4 DEF Pictures
<1>7. \A o \in T : o \in Things
  BY <1>2, CarriedIs
<1>8. SumOf([i \in U |-> SumOf(f.things[i].kit.affects)]) = SumOf([o \in T |-> Might(o)])
  <2>1. PICK g : g = [i \in U |-> SumOf(f.things[i].kit.affects)]
    OBVIOUS
  <2>2. PICK h : h = [o \in T |-> Might(o)]
    OBVIOUS
  <2>3. h \in [T -> Int]
    BY <1>7, <2>2, MightIs
  <2>4. \A i \in U : g[i] = Might(n[i])
    BY <1>6, <2>1 DEF Might
  <2>5. \A i \in U : n[i] \in T
    BY <1>5
  <2>6. \A i \in U : h[n[i]] = g[i] /\ g[i] \in Int
    BY <2>2, <2>3, <2>4, <2>5
  <2>7. g \in [U -> Int]
    BY <2>1, <2>6
  <2>8. SumOf(g) = SumOf(h)
    <3>1. Renaming(U, T, n, g, h)
      BY <1>4, <1>5, <2>3, <2>6, <2>7 DEF Renaming
    <3>2. QED
      BY <3>1, SumNamed
  <2>9. QED
    BY <2>1, <2>2, <2>8
<1>9. SumOf([i \in U |-> ACOf(f.things[i].kit, f.things[i].wear_loc)])
      = SumOf([o \in T |-> ApplyAC(o, v.wear_loc[o])])
  <2>1. PICK g : g = [i \in U |-> ACOf(f.things[i].kit, f.things[i].wear_loc)]
    OBVIOUS
  <2>2. PICK h : h = [o \in T |-> ApplyAC(o, v.wear_loc[o])]
    OBVIOUS
  <2>3. h \in [T -> Int]
    BY <1>7, <2>2, ArmourIs
  <2>4. \A i \in U : g[i] = ApplyAC(n[i], v.wear_loc[n[i]])
    BY <1>6, <2>1 DEF ACOf, ApplyAC
  <2>5. \A i \in U : n[i] \in T
    BY <1>5
  <2>6. \A i \in U : h[n[i]] = g[i] /\ g[i] \in Int
    BY <2>2, <2>3, <2>4, <2>5
  <2>7. g \in [U -> Int]
    BY <2>1, <2>6
  <2>8. SumOf(g) = SumOf(h)
    <3>1. Renaming(U, T, n, g, h)
      BY <1>4, <1>5, <2>3, <2>6, <2>7 DEF Renaming
    <3>2. QED
      BY <3>1, SumNamed
  <2>9. QED
    BY <2>1, <2>2, <2>8
<1>10. (\E i \in U : f.things[i].kit.flies) <=> (\E o \in T : kit[o].flies)
  BY <1>5, <1>6
<1>11. QED
  BY <1>1, <1>2, <1>8, <1>9, <1>10 DEF WornStr, WornAC, Might

LEMMA ImageFits ==
  ASSUME scene \in Scenes, NEW v, Sound(v), NEW c \in Chars, NEW room \in Rooms, NEW S,
         OneOfEach(S), Balanced(v, c, S), Sourced(v, c, S), NEW f, f = Image(v, c, room, S)
  PROVE  FileFits(f)
<1>1. PICK s : s = v.contents[c]
  OBVIOUS
<1>2. S \in SUBSET AffType
  BY DEF OneOfEach
<1>3. /\ f \in FileType /\ DOMAIN f.things = DOMAIN s
      /\ \A i \in DOMAIN s : s[i] \in Carried(v, c) /\ f.things[i] = ThingOf(v, s[i])
      /\ f.mod_str = v.mod_str[c] /\ f.armor = v.armor[c] /\ f.hitroll = v.hitroll[c]
      /\ f.flying = v.flying[c] /\ f.kept = v.kept[c] /\ f.affected = S
      /\ f.surplus = v.surplus[c] + WornHit(v, c)
  BY <1>1, <1>2, ImageThings
<1>4. s \in Seq(Objs) /\ Carried(v, c) = ToSet(s) /\ IsInjective(s) /\ Carried(v, c) \subseteq Things
  BY <1>1, CarriedIs
<1>5. Pictures(v, c, f, s)
  <2>1. \A o \in ToSet(s) : \E i \in DOMAIN s : s[i] = o
    BY <1>4, SeqIs
  <2>2. ASSUME NEW i \in DOMAIN s
        PROVE  f.things[i].kit = kit[s[i]] /\ f.things[i].wear_loc = v.wear_loc[s[i]]
    <3>1. f.things[i] = ThingOf(v, s[i])
      BY <1>3
    <3>2. ThingOf(v, s[i]).kit = kit[s[i]] /\ ThingOf(v, s[i]).wear_loc = v.wear_loc[s[i]]
      BY DEF ThingOf
    <3>3. QED
      BY <3>1, <3>2
  <2>3. QED
    BY <1>1, <1>3, <1>4, <2>1, <2>2 DEF Pictures
<1>6. FileHands(f)
  BY <1>3, <1>4, <1>5 DEF FileHands, Pictures, Sound, InHand
<1>7. FilePlaces(f)
  <2>1. ASSUME NEW i \in DOMAIN s, NEW j \in DOMAIN s, v.wear_loc[s[i]] = v.wear_loc[s[j]], v.wear_loc[s[i]] # "none"
        PROVE  i = j
    <3>1. s[i] \in WornBy(v, c) /\ s[j] \in WornBy(v, c)
      BY <1>3, <2>1, InUseIs
    <3>2. s[i] = s[j]
      BY <2>1, <3>1 DEF Sound, OneEach
    <3>3. QED
      BY <1>4, <3>2 DEF IsInjective
  <2>2. \A i \in DOMAIN s : f.things[i].wear_loc = v.wear_loc[s[i]]
    BY <1>5 DEF Pictures
  <2>3. QED
    BY <1>3, <2>1, <2>2 DEF FilePlaces
<1>8. FileSums(f)
  <2>1. v.mod_str[c] - WornStr(v, c) = Cast(S) /\ v.armor[c] + WornAC(v, c) = 100
        /\ v.hitroll[c] - WornHit(v, c) = v.surplus[c]
    BY DEF Balanced, StrOf, ArmOf, HitOf
  <2>2. /\ WornStr(v, c) \in Int /\ WornAC(v, c) \in Int /\ WornHit(v, c) \in Int
        /\ v.mod_str[c] \in Int /\ v.armor[c] \in Int /\ v.hitroll[c] \in Int
    BY WornTypes
  <2>3. v.surplus[c] \in Int
    BY Fields DEF Sound
  <2>4. /\ v.mod_str[c] = Cast(S) + WornStr(v, c) /\ v.armor[c] = 100 - WornAC(v, c)
        /\ v.hitroll[c] = v.surplus[c] + WornHit(v, c)
    BY <2>1, <2>2, <2>3
  <2>5. QED
    BY <1>3, <1>5, <2>4, PicturesSums DEF FileSums
<1>9. FilePowers(f)
  BY <1>3, <1>5, PicturesSums DEF FilePowers, Sourced
<1>10. QED
  BY <1>3, <1>6, <1>7, <1>8, <1>9 DEF FileFits

LEMMA Saving ==
  ASSUME scene \in Scenes, NEW v, Sound(v), NEW c \in Chars, NEW room \in Rooms, NEW S,
         OneOfEach(S), Balanced(v, c, S), Sourced(v, c, S), FileFits(v.file[c]),
         NEW u, u = SavedAs(v, c, room, S)
  PROVE  Filed(v, u, c)
<1>1. v \in WType /\ v.file \in [Chars -> FileType]
  BY Fields DEF Sound
<1>2. CASE scene.files
  <2>1. PICK f : f = Image(v, c, room, S)
    OBVIOUS
  <2>2. FileFits(f)
    BY <2>1, ImageFits
  <2>3. PICK fs : fs = [v.file EXCEPT ![c] = f]
    OBVIOUS
  <2>4. u = [v EXCEPT !.file = fs]
    BY <1>1, <1>2, <2>1, <2>3 DEF SavedAs, WType
  <2>5. fs \in [Chars -> FileType] /\ fs[c] = f /\ \A d \in Chars : d # c => fs[d] = v.file[d]
    BY <1>1, <2>2, <2>3 DEF FileFits
  <2>6. u \in WType
    BY <1>1, <2>4, <2>5 DEF WType
  <2>7. u.file = fs
    BY <1>1, <2>4 DEF WType
  <2>8. QED
    BY <1>1, <2>2, <2>4, <2>5, <2>6, <2>7 DEF Filed, WType
<1>3. CASE ~scene.files
  <2>1. u = v
    BY <1>3 DEF SavedAs
  <2>2. QED
    BY <1>1, <2>1 DEF Filed
<1>4. QED
  BY <1>2, <1>3

(* It changes nothing in the game.                                          *)
LEMMA SavedFits ==
  ASSUME scene \in Scenes, NEW v, Fits(v, in_room, affected), NEW c \in Chars, in_room[c] \in Rooms,
         NEW u, u = Saved(v, c)
  PROVE  Filed(v, u, c) /\ Onward(v, u)
<1>1. Sound(v) /\ Person(v, in_room, affected, c)
  BY DEF Fits
<1>2. Filed(v, u, c)
  BY <1>1, Saving DEF Saved, Person
<1>3. QED
  BY <1>2, FiledFits DEF Onward

-----------------------------------------------------------------------------
(* equip_char: the piece goes on, where nothing is.                         *)
Vacant(v, c, o, loc) ==
  /\ o \in Carried(v, c) /\ v.wear_loc[o] = "none" /\ loc \in Wearable /\ EqIs(v, c, loc, None)
  /\ kit[o].type = "light" => loc \in Hands

On(v, u, c, o, loc) ==
  /\ Sound(u) /\ Aside(v, u, c) /\ Even(v, u, c, -Might(o), -Charm(v, o))
  /\ u.contents = v.contents /\ u.light = v.light /\ u.flying = v.flying /\ u.kept = v.kept
  /\ u.mod_str = v.mod_str /\ u.wear_loc[o] = loc
  /\ \A p \in Objs \ {o} : u.wear_loc[p] = v.wear_loc[p]
  /\ InUse(u, c) = InUse(v, c) \cup {o} /\ WornBy(u, c) = WornBy(v, c) \cup {o}
  /\ NoLamp(u, v, o) /\ (o \in v.lit => o \in Lamps(u, c))

(* c wears o, and nothing else is different.                                *)
Clad(v, u, c, o, loc) ==
  /\ u.wear_loc[o] = loc /\ \A p \in Objs \ {o} : u.wear_loc[p] = v.wear_loc[p]
  /\ \A d \in Chars : Carried(u, d) = Carried(v, d)
  /\ \A d \in Chars : d # c => WornBy(u, d) = WornBy(v, d)
  /\ WornBy(u, c) = WornBy(v, c) \cup {o}

LEMMA Cladding ==
  ASSUME scene \in Scenes, NEW v, Sound(v), NEW u, NEW c \in Chars, NEW o, NEW loc, loc # "none",
         Relocated(v, u, c, o, loc)
  PROVE  Clad(v, u, c, o, loc)
  BY SoundRelocated DEF Clad

LEMMA LampsMore ==
  ASSUME scene \in Scenes, NEW v, Sound(v), NEW u, NEW c \in Chars, NEW o, NEW loc,
         Vacant(v, c, o, loc), Clad(v, u, c, o, loc), u.lit = v.lit
  PROVE  NoLamp(u, v, o) /\ (o \in v.lit => o \in Lamps(u, c))
<1>0. /\ \A p \in Objs \ {o} : u.wear_loc[p] = v.wear_loc[p]
      /\ \A d \in Chars : d # c => WornBy(u, d) = WornBy(v, d)
      /\ WornBy(u, c) = WornBy(v, c) \cup {o} /\ u.wear_loc[o] = loc
  BY DEF Clad
<1>a. \A d \in Chars : o \notin WornBy(v, d)
  BY InUseIs DEF Vacant
<1>1. ASSUME NEW d \in Chars, NEW p PROVE p \in Lamps(v, d) <=> p \in Lamps(u, d) \ {o}
  <2>1. p \in WornBy(v, d) <=> p \in WornBy(u, d) \ {o}
    BY <1>0, <1>a
  <2>2. p \in WornBy(v, d) => p \in Objs
    BY CarriedIs, ThingsAre
  <2>3. p \in WornBy(v, d) => u.wear_loc[p] = v.wear_loc[p]
    BY <1>0, <1>a, <2>2
  <2>4. QED
    BY <2>1, <2>3, InUseIs
<1>2. o \in v.lit => o \in Lamps(u, c)
  <2>1. HAVE o \in v.lit
  <2>2. loc \in Hands
    BY <2>1 DEF Vacant, Sound, Charmed
  <2>3. QED
    BY <1>0, <2>1, <2>2, InUseIs
<1>3. QED
  BY <1>1, <1>2 DEF NoLamp

PutOn(v, c, o, loc) == [v EXCEPT !.armor[c] = @ - ApplyAC(o, loc), !.wear_loc[o] = loc]

LEMMA Donning ==
  ASSUME scene \in Scenes, NEW v, Sound(v), NEW c \in Chars, NEW o, NEW loc, Vacant(v, c, o, loc),
         NEW u, u = PutOn(v, c, o, loc)
  PROVE  On(v, u, c, o, loc)
<1>1. /\ o \in Carried(v, c) /\ o \in Things /\ o \in Objs /\ v.wear_loc[o] = "none" /\ o \notin WornBy(v, c)
      /\ loc \in WearLocs /\ loc # "none" /\ loc \notin Scabbards
  BY CarriedIs, ThingsAre, InUseIs, Places DEF Vacant
<1>2. PICK a \in Int : a = ApplyAC(o, loc)
  BY <1>1, ArmourIs
<1>3. v \in WType /\ v.armor \in [Chars -> Int] /\ v.wear_loc \in [Objs -> WearLocs]
  BY Fields DEF Sound
<1>4. u = [v EXCEPT !.armor = [v.armor EXCEPT ![c] = @ - a], !.wear_loc = [v.wear_loc EXCEPT ![o] = loc]]
  BY <1>2, <1>3 DEF WType, PutOn
<1>5. PICK x : x = [v.armor EXCEPT ![c] = @ - a]
  OBVIOUS
<1>6. PICK l : l = [v.wear_loc EXCEPT ![o] = loc]
  OBVIOUS
<1>7. x \in [Chars -> Int] /\ x[c] = v.armor[c] - a /\ \A d \in Chars : d # c => x[d] = v.armor[d]
  BY <1>3, <1>5
<1>8. l \in [Objs -> WearLocs]
  BY <1>1, <1>3, <1>6
<1>9. u = [v EXCEPT !.armor = x, !.wear_loc = l]
  BY <1>4, <1>5, <1>6
<1>10. /\ u.contents = v.contents /\ u.light = v.light /\ u.flying = v.flying /\ u.kept = v.kept
       /\ u.mod_str = v.mod_str /\ u.hitroll = v.hitroll /\ u.armor = x /\ u.wear_loc = l
  BY <1>3, <1>9 DEF WType
<1>11. Still(v, u)
  BY <1>3, <1>9 DEF WType, Still
<1>12. u \in WType
  BY <1>3, <1>7, <1>8, <1>9 DEF WType
<1>13. Relocated(v, u, c, o, loc)
  <2>1. \A p \in WornBy(v, c) : v.wear_loc[p] # loc
    BY DEF Vacant, EqIs
  <2>2. kit[o].type = "light" => loc \in Hands
    BY DEF Vacant
  <2>3. QED
    BY <1>1, <1>3, <1>6, <1>10, <1>11, <1>12, <2>1, <2>2 DEF Relocated
<1>a. Sound(u) /\ Clad(v, u, c, o, loc)
  BY <1>1, <1>13, SoundRelocated, Cladding
<1>14. /\ Sound(u) /\ u.wear_loc[o] = loc /\ \A p \in Objs \ {o} : u.wear_loc[p] = v.wear_loc[p]
       /\ \A d \in Chars : Carried(u, d) = Carried(v, d)
       /\ \A d \in Chars : d # c => WornBy(u, d) = WornBy(v, d)
       /\ WornBy(u, c) = WornBy(v, c) \cup {o}
  BY <1>a DEF Clad
<1>15. NoLamp(u, v, o) /\ (o \in v.lit => o \in Lamps(u, c))
  <2>1. u.lit = v.lit
    BY <1>11 DEF Still
  <2>2. QED
    BY <1>a, <2>1, LampsMore
<1>16. \A p \in WornBy(v, c) : u.wear_loc[p] = v.wear_loc[p]
  <2>1. WornBy(v, c) \subseteq Objs
    BY CarriedIs, ThingsAre
  <2>2. QED
    BY <1>1, <1>14, <2>1
<1>17. InUse(u, c) = InUse(v, c) \cup {o}
  <2>1. \A p : p \in InUse(u, c) <=> p \in InUse(v, c) \cup {o}
    BY <1>1, <1>14, <1>16, InUseIs
  <2>2. QED
    BY <2>1
<1>18. Aside(v, u, c)
  <2>1. \A p \in Objs : p \notin Carried(v, c) => u.wear_loc[p] = v.wear_loc[p]
    BY <1>1, <1>14
  <2>2. QED
    BY <1>7, <1>10, <1>11, <1>14, <2>1 DEF Aside
<1>20. OutOfUse(u, v, c, o)
  <2>1. InUse(v, c) = InUse(u, c) \ {o} /\ o \in InUse(u, c)
    BY <1>1, <1>17, InUseIs
  <2>2. \A p \in InUse(v, c) : v.wear_loc[p] = u.wear_loc[p]
    BY <1>16, InUseIs
  <2>3. QED
    BY <1>11, <2>1, <2>2 DEF OutOfUse, Still
<1>21. Even(v, u, c, -Might(o), -Charm(v, o))
  <2>0. Charm(u, o) = Charm(v, o)
    BY <1>11 DEF Still, Charm
  <2>1. /\ WornStr(u, c) = WornStr(v, c) + Might(o)
        /\ WornAC(u, c) = WornAC(v, c) + a
        /\ WornHit(u, c) = WornHit(v, c) + Charm(v, o)
    <3>0. Sound(u)
      BY <1>a
    <3>1. /\ WornStr(u, c) = WornStr(v, c) + Might(o)
          /\ WornAC(u, c) = WornAC(v, c) + ApplyAC(o, u.wear_loc[o])
          /\ WornHit(u, c) = WornHit(v, c) + Charm(u, o)
      BY <3>0, <1>20, WornLess
    <3>2. ApplyAC(o, u.wear_loc[o]) = a
      BY <1>2, <1>14
    <3>3. QED
      BY <2>0, <3>1, <3>2
  <2>2. /\ WornStr(v, c) \in Int /\ WornAC(v, c) \in Int /\ WornHit(v, c) \in Int
        /\ v.mod_str[c] \in Int /\ v.armor[c] \in Int /\ v.hitroll[c] \in Int
    BY WornTypes
  <2>3. Might(o) \in Int /\ Charm(v, o) \in Int
    BY <1>1, MightIs DEF Charm
  <2>4. u.mod_str[c] = v.mod_str[c] /\ u.armor[c] = v.armor[c] - a /\ u.hitroll[c] = v.hitroll[c]
    BY <1>7, <1>10
  <2>5. StrOf(u, c) = StrOf(v, c) + (-Might(o))
    BY <2>1, <2>2, <2>3, <2>4 DEF StrOf
  <2>6. ArmOf(u, c) = ArmOf(v, c)
    BY <2>1, <2>2, <2>4 DEF ArmOf
  <2>7. HitOf(u, c) = HitOf(v, c) + (-Charm(v, o))
    BY <2>1, <2>2, <2>3, <2>4 DEF HitOf
  <2>8. QED
    BY <2>5, <2>6, <2>7 DEF Even
<1>22. QED
  BY <1>10, <1>14, <1>15, <1>17, <1>18, <1>21 DEF On

(* Its light, if it is lit.                                                 *)
Shines(v, u, c, o) ==
  /\ Rest(v, u) /\ u.flying = v.flying /\ u.kept = v.kept
  /\ o \notin v.lit => u.light = v.light
  /\ o \in v.lit => Dimmer(u.light, v.light, in_room[c])

LEMMA Shining ==
  ASSUME NEW v \in WType, NEW c \in Chars, in_room[c] \in Rooms, NEW o, NEW l, l = v.lit, NEW u,
         u = IF o \in l THEN [v EXCEPT !.light[in_room[c]] = @ + 1] ELSE v
  PROVE  Shines(v, u, c, o)
<1>1. v.light \in [Rooms -> Int]
  BY Fields
<1>2. CASE o \in l
  <2>1. PICK g : g = [v.light EXCEPT ![in_room[c]] = @ + 1]
    OBVIOUS
  <2>2. u = [v EXCEPT !.light = g]
    BY <1>2, <2>1 DEF WType
  <2>3. g \in [Rooms -> Int]
    BY <1>1, <2>1
  <2>4. u \in WType /\ u.light = g
    BY <2>2, <2>3 DEF WType
  <2>5. Dimmer(g, v.light, in_room[c])
    <3>1. g[in_room[c]] = v.light[in_room[c]] + 1 /\ \A r \in Rooms : r # in_room[c] => g[r] = v.light[r]
      BY <1>1, <2>1
    <3>2. PICK k : k = [g EXCEPT ![in_room[c]] = @ - 1]
      OBVIOUS
    <3>3. k \in [Rooms -> Int] /\ \A r \in Rooms : k[r] = v.light[r]
      BY <1>1, <2>3, <3>1, <3>2
    <3>4. k = v.light
      BY <1>1, <3>3
    <3>5. QED
      BY <3>2, <3>4 DEF Dimmer
  <2>6. Rest(v, u) /\ u.flying = v.flying /\ u.kept = v.kept
    BY <2>2, <2>4 DEF WType, Rest, Still
  <2>7. QED
    BY <1>2, <2>4, <2>5, <2>6 DEF Shines
<1>3. CASE o \notin l
  BY <1>3 DEF Shines, Rest, Still
<1>4. QED
  BY <1>2, <1>3

(* Its power.                                                               *)
Rises(v, u, c, o) ==
  /\ Rest(v, u) /\ u.light = v.light /\ u.kept = v.kept
  /\ \A d \in Chars : d # c => u.flying[d] = v.flying[d]
  /\ u.flying[c] => v.flying[c] \/ (v.wear_loc[o] # "none" /\ kit[o].flies)

LEMMA Rising ==
  ASSUME NEW v \in WType, NEW c \in Chars, NEW o, NEW found, NEW u, u = PowerOn(v, c, o, found)
  PROVE  Rises(v, u, c, o)
<1>1. v.flying \in [Chars -> BOOLEAN]
  BY Fields
<1>2. CASE found /\ v.wear_loc[o] # "none" /\ kit[o].flies
  <2>1. PICK g : g = [v.flying EXCEPT ![c] = TRUE]
    OBVIOUS
  <2>2. u = [v EXCEPT !.flying = g]
    BY <1>2, <2>1 DEF WType, PowerOn
  <2>3. g \in [Chars -> BOOLEAN] /\ \A d \in Chars : d # c => g[d] = v.flying[d]
    BY <1>1, <2>1
  <2>4. u \in WType /\ u.flying = g
    BY <2>2, <2>3 DEF WType
  <2>5. Rest(v, u) /\ u.light = v.light /\ u.kept = v.kept
    BY <2>2, <2>4 DEF WType, Rest, Still
  <2>6. QED
    BY <1>2, <2>3, <2>4, <2>5 DEF Rises
<1>3. CASE ~(found /\ v.wear_loc[o] # "none" /\ kit[o].flies)
  <2>1. u = v
    BY <1>3 DEF PowerOn
  <2>2. QED
    BY <2>1 DEF Rises, Rest, Still
<1>4. QED
  BY <1>2, <1>3

(* A player who wears o in v, and after affect_modify what is left of that. *)
LEMMA StillOn ==
  ASSUME scene \in Scenes, NEW v, Sound(v), NEW t, Sound(t), NEW c \in Chars, NEW o \in WornBy(v, c),
         Aside(v, t, c), Less(v, t, c), t.wear_loc[o] # "none"
  PROVE  o \in WornBy(t, c) /\ t.wear_loc[o] = v.wear_loc[o]
<1>1. o \in Objs /\ o \in Carried(v, c)
  BY CarriedIs, ThingsAre, InUseIs
<1>2. PICK d \in Chars : o \in Carried(t, d)
  BY <1>1 DEF Sound, Borne
<1>3. d = c
  <2>1. SUFFICES ASSUME d # c PROVE FALSE
    OBVIOUS
  <2>2. o \in Carried(v, d)
    BY <1>2, <2>1 DEF Aside, Carried
  <2>3. QED
    BY <1>1, <2>1, <2>2, OneBearer
<1>4. o \in WornBy(t, c)
  BY <1>2, <1>3, InUseIs
<1>5. QED
  BY <1>4 DEF Less

(* What the affects of a piece do after it has been put on.                 *)
LEMMA Donned ==
  ASSUME scene \in Scenes, NEW v, Sound(v), NEW c \in Chars, in_room[c] \in Rooms, NEW o, NEW loc,
         Vacant(v, c, o, loc), NEW s, On(v, s, c, o, loc), NEW found, NEW t,
         t = ModifyAll(s, c, Affects(v, o), found, AffectModify)
  PROVE  /\ Turn(s, t, c, Might(o), Charm(v, o)) /\ t \in WType /\ Loses(v, t, c, o)
<1>1. o \in Carried(v, c) /\ o \in Things /\ o \in Objs /\ loc # "none"
  BY CarriedIs, ThingsAre, Places DEF Vacant
<1>2. Sound(s) /\ s \in WType
  BY DEF On, Sound
<1>3. PICK ds : ds = Affects(v, o)
  OBVIOUS
<1>4. Sums(ds, Might(o), Charm(v, o), Swing(o))
  BY <1>1, <1>3, AffectsSum
<1>5. Arms(s, t, c, Might(o), Charm(v, o), s.mod_str[c] - Swing(o))
  BY <1>2, <1>3, <1>4, ModifyDrops
<1>6. Might(o) \in Int /\ Charm(v, o) \in Int
  BY <1>4 DEF Sums
<1>7. Turn(s, t, c, Might(o), Charm(v, o)) /\ t \in WType
  BY <1>2, <1>5, <1>6, ArmsTurn
<1>8. s.contents = v.contents /\ s.mod_str = v.mod_str /\ Carried(s, c) = Carried(v, c)
  BY DEF On, Carried
<1>9. Loses(v, t, c, o)
  <2>1. CASE ShiftBy(s, t, c, Might(o), Charm(v, o))
    <3>1. Carried(t, c) = Carried(v, c)
      BY <1>8, <2>1 DEF ShiftBy, Carried
    <3>2. QED
      BY <3>1 DEF Loses
  <2>2. CASE Armless(s, t, c, s.mod_str[c] - Swing(o))
    <3>1. PICK y \in WornBy(s, c) :
            /\ y = GetEqChar(s, c, "wield")
            /\ Carried(t, c) = Carried(s, c) \ {y} /\ y \in ToSet(t.contents[in_room[c]])
            /\ kit[y].type = "weapon" /\ kit[y].heft > Cut(s.mod_str[c] - Swing(o))
      BY <2>2 DEF Armless
    <3>2. PICK hand : hand = "wield" /\ hand # "none"
      OBVIOUS
    <3>3. y \in Objs
      BY <1>2, <3>1, CarriedIs, ThingsAre
    <3>4. s.wear_loc[y] = hand
      <4>1. EqIs(s, c, hand, y)
        BY <1>2, <3>1, <3>2, EqChar
      <4>2. QED
        BY <3>3, <4>1, Where DEF EqIs
    <3>5. ASSUME y # o PROVE Fell(v, t, c, y, o)
      <4>1. y \in WornBy(v, c) /\ v.wear_loc[y] = hand
        <5>1. WornBy(s, c) = WornBy(v, c) \cup {o} /\ \A p \in Objs \ {o} : s.wear_loc[p] = v.wear_loc[p]
          BY DEF On
        <5>2. QED
          BY <3>1, <3>3, <3>4, <3>5, <5>1
      <4>2. y = GetEqChar(v, c, hand)
        <5>1. EqIs(v, c, hand, GetEqChar(v, c, hand))
          BY <3>2, EqChar
        <5>2. QED
          BY <4>1, <5>1 DEF EqIs
      <4>3. QED
        BY <1>8, <3>1, <3>2, <4>2 DEF Fell
    <3>6. Carried(t, c) = Carried(v, c) \ {y}
      BY <1>8, <3>1
    <3>7. QED
      BY <3>5, <3>6 DEF Loses
  <2>3. QED
    BY <1>5, <2>1, <2>2 DEF Arms
<1>10. QED
  BY <1>7, <1>9

(* A state after Rest: for c alone, if nobody else's flying has changed.    *)
LEMMA RestAside ==
  ASSUME scene \in Scenes, NEW v, Sound(v), NEW u, NEW c \in Chars, Rest(v, u),
         \A d \in Chars : d # c => u.flying[d] = v.flying[d] /\ u.kept[d] = v.kept[d]
  PROVE  Aside(v, u, c)
<1>1. /\ u.contents = v.contents /\ u.wear_loc = v.wear_loc /\ Still(v, u)
      /\ u.mod_str = v.mod_str /\ u.armor = v.armor /\ u.hitroll = v.hitroll
  BY DEF Rest
<1>2. Carried(u, c) = Carried(v, c)
  BY <1>1 DEF Carried
<1>3. QED
  BY <1>1, <1>2 DEF Aside

LEMMA Equipping ==
  ASSUME scene \in Scenes, NEW v, Sound(v), NEW c \in Chars, in_room[c] \in Rooms, NEW o, NEW loc,
         Vacant(v, c, o, loc), NEW found, NEW zap, ~zap, NEW u, u = Equipped(v, c, o, loc, found, zap)
  PROVE  Steady(v, u, c) /\ Loses(v, u, c, o)
<1>1. o \in Carried(v, c) /\ o \in Things /\ o \in Objs /\ loc # "none" /\ loc \notin Scabbards
  BY CarriedIs, ThingsAre, Places DEF Vacant
<1>2. PICK s : s = PutOn(v, c, o, loc)
  OBVIOUS
<1>3. On(v, s, c, o, loc) /\ Sound(s)
  BY <1>2, Donning DEF On
<1>4. PICK t : t = ModifyAll(s, c, Affects(v, o), found, AffectModify)
  OBVIOUS
<1>5. Turn(s, t, c, Might(o), Charm(v, o)) /\ t \in WType /\ Loses(v, t, c, o)
  BY <1>3, <1>4, Donned
<1>6. Sound(t) /\ Aside(s, t, c) /\ Less(s, t, c) /\ SameLight(s, t) /\ Flight(s, t, c)
  BY <1>5 DEF Turn
<1>7. PICK r : r = IF o \in v.lit THEN [t EXCEPT !.light[in_room[c]] = @ + 1] ELSE t
  OBVIOUS
<1>8. u = PowerOn(r, c, o, found)
  BY <1>2, <1>4, <1>7 DEF Equipped, PutOn
<1>9. v.lit = t.lit
  BY <1>3, <1>6 DEF On, Aside, Still
<1>10. Shines(t, r, c, o)
  BY <1>5, <1>7, <1>9, Shining
<1>11. Rest(t, r) /\ r \in WType
  BY <1>10 DEF Shines, Rest
<1>12. Rises(r, u, c, o)
  BY <1>8, <1>11, Rising
<1>13. Rest(t, u)
  BY <1>11, <1>12 DEF Rises, Rest, Still
<1>14. /\ Sound(u) /\ Even(t, u, c, 0, 0) /\ Carried(u, c) = Carried(t, c)
       /\ InUse(u, c) = InUse(t, c) /\ \A d : Lamps(u, d) = Lamps(t, d)
  BY <1>6, <1>13, RestKeeps
<1>15. u.kept = t.kept /\ \A d \in Chars : d # c => u.flying[d] = t.flying[d]
  BY <1>10, <1>12 DEF Shines, Rises
<1>16. Aside(v, u, c)
  <2>1. Aside(t, u, c)
    BY <1>6, <1>13, <1>15, RestAside
  <2>2. Aside(v, s, c)
    BY <1>3 DEF On
  <2>3. Aside(v, t, c)
    BY <1>6, <2>2, AsideTwice
  <2>4. QED
    BY <2>1, <2>3, AsideTwice
<1>17. Even(v, u, c, 0, 0)
  <2>1. PICK m \in Int : m = Might(o)
    BY <1>1, MightIs
  <2>2. PICK n \in Int : n = Charm(v, o)
    BY DEF Charm
  <2>3. StrOf(v, c) \in Int /\ HitOf(v, c) \in Int
    BY BalanceTypes
  <2>4. StrOf(s, c) = StrOf(v, c) + (-m) /\ ArmOf(s, c) = ArmOf(v, c) /\ HitOf(s, c) = HitOf(v, c) + (-n)
    BY <1>3, <2>1, <2>2 DEF On, Even
  <2>5. StrOf(t, c) = StrOf(s, c) + m /\ ArmOf(t, c) = ArmOf(s, c) /\ HitOf(t, c) = HitOf(s, c) + n
    BY <1>5, <2>1, <2>2 DEF Turn, Even
  <2>6. StrOf(u, c) = StrOf(t, c) + 0 /\ ArmOf(u, c) = ArmOf(t, c) /\ HitOf(u, c) = HitOf(t, c) + 0
    BY <1>14 DEF Even
  <2>7. StrOf(u, c) = StrOf(v, c) + 0 /\ ArmOf(u, c) = ArmOf(v, c) /\ HitOf(u, c) = HitOf(v, c) + 0
    BY <2>3, <2>4, <2>5, <2>6
  <2>8. QED
    BY <2>7 DEF Even
<1>18. Loses(v, u, c, o)
  <2>1. u.contents = t.contents
    BY <1>13 DEF Rest
  <2>2. QED
    BY <1>5, <1>14, <2>1 DEF Loses, Fell
<1>19. Sourced(v, c, affected[c]) => Sourced(u, c, affected[c])
  <2>1. HAVE Sourced(v, c, affected[c])
  <2>2. Sourced(s, c, affected[c])
    BY <1>3, <2>1 DEF On, Sourced
  <2>3. Sourced(t, c, affected[c])
    BY <1>6, <2>2, FlightSourced
  <2>4. r.flying = t.flying /\ r.wear_loc = t.wear_loc
    BY <1>10 DEF Shines, Rest
  <2>5. CASE t.wear_loc[o] # "none" /\ kit[o].flies
    <3>1. o \in WornBy(s, c) /\ s.wear_loc[o] = loc
      BY <1>3 DEF On
    <3>2. o \in WornBy(t, c) /\ t.wear_loc[o] = loc
      BY <1>3, <1>6, <2>5, <3>1, StillOn
    <3>3. o \in InUse(t, c)
      BY <1>1, <3>2, InUseIs
    <3>4. QED
      BY <1>14, <2>5, <3>3 DEF Sourced
  <2>6. CASE ~(t.wear_loc[o] # "none" /\ kit[o].flies)
    <3>1. u.flying[c] => t.flying[c]
      BY <1>12, <2>4, <2>6 DEF Rises
    <3>2. QED
      BY <1>14, <1>15, <2>3, <3>1 DEF Sourced
  <2>7. QED
    BY <2>5, <2>6
<1>20. Bright(v, in_room) => Bright(u, in_room)
  <2>1. NoLamp(s, v, o) /\ s.light = v.light
    BY <1>3 DEF On
  <2>2. t.light = v.light /\ \A d \in Chars : Lamps(t, d) = Lamps(s, d)
    BY <1>6, <2>1 DEF SameLight
  <2>3. NoLamp(u, v, o)
    BY <1>14, <2>1, <2>2 DEF NoLamp
  <2>4. u.light = r.light
    BY <1>12 DEF Rises
  <2>5. CASE o \in v.lit
    <3>1. o \in Lamps(u, c)
      <4>1. o \in Lamps(s, c)
        BY <1>3, <2>5 DEF On
      <4>2. QED
        BY <1>14, <2>2, <4>1
    <3>2. OneLess(u, in_room, v, in_room, in_room[c])
      BY <1>14, <2>3, <3>1, LampOut
    <3>3. Dimmer(u.light, v.light, in_room[c])
      BY <1>9, <1>10, <2>2, <2>4, <2>5 DEF Shines
    <3>4. QED
      BY <1>14, <3>2, <3>3, OneLessBright
  <2>6. CASE o \notin v.lit
    <3>1. u.light = v.light
      BY <1>9, <1>10, <2>2, <2>4, <2>6 DEF Shines
    <3>2. u.lit = v.lit
      BY <1>16 DEF Aside, Still
    <3>3. \A d \in Chars : o \notin Lamps(u, d)
      BY <2>6, <3>2, InUseIs
    <3>4. SameLight(v, u)
      BY <2>3, <3>1, <3>3 DEF NoLamp, SameLight
    <3>5. QED
      BY <3>4, SameBright
  <2>7. QED
    BY <2>5, <2>6
<1>21. QED
  BY <1>14, <1>16, <1>17, <1>18, <1>19, <1>20 DEF Steady

(* obj_from_char, obj_to_room: what is zapped or dropped.                   *)
LEMMA Discarding ==
  ASSUME scene \in Scenes, NEW v, Fits(v, in_room, affected), NEW c \in Chars, in_room[c] \in Rooms,
         NEW o \in Carried(v, c), NEW found, NEW u, u = Discarded(v, c, o, found, AffectModify)
  PROVE  /\ Undone(v, u, c, o) /\ Onward(v, u) /\ Loses(v, u, c, o)
         /\ o \in ToSet(u.contents[in_room[c]])
<1>1. Sound(v) /\ o \in Things
  BY CarriedIs DEF Fits
<1>2. PICK r : r = FromChar(v, c, o, found, AffectModify)
  OBVIOUS
<1>3. Undone(v, r, c, o) /\ Nowhere(r, o) /\ Loses(v, r, c, o)
  BY <1>1, <1>2, FromCharTakes
<1>4. u = PutIn(r, in_room[c], o)
  BY <1>2 DEF Discarded
<1>5. Undone(v, u, c, o) /\ Loses(v, u, c, o) /\ o \in ToSet(u.contents[in_room[c]])
  BY <1>1, <1>3, <1>4, PutKeeps
<1>6. Steady(v, u, c)
  BY <1>1, <1>5, UndoneSteady
<1>7. in_room[c] # None
  BY Where
<1>8. QED
  BY <1>5, <1>6, <1>7, SteadyFits

LEMMA OnwardTwice ==
  ASSUME NEW v, NEW u, NEW t, Onward(v, u), Onward(u, t)
  PROVE  Onward(v, t)
  BY DEF Onward

LEMMA OnwardNone ==
  ASSUME NEW v, Fits(v, in_room, affected)
  PROVE  Onward(v, v)
  BY DEF Onward

(* equip_char, with its zap.                                                *)
LEMMA EquipFits ==
  ASSUME scene \in Scenes, NEW v, Fits(v, in_room, affected), NEW c \in Chars, in_room[c] \in Rooms,
         NEW o, NEW loc, Vacant(v, c, o, loc), NEW found, NEW zap, NEW u, u = Equipped(v, c, o, loc, found, zap)
  PROVE  Onward(v, u) /\ Loses(v, u, c, o)
<1>1. Sound(v) /\ in_room[c] # None
  BY Where DEF Fits
<1>2. CASE ~zap
  BY <1>1, <1>2, Equipping, SteadyFits
<1>3. CASE zap
  <2>1. PICK s : s = Discarded(v, c, o, found, AffectModify)
    OBVIOUS
  <2>2. o \in Carried(v, c)
    BY DEF Vacant
  <2>3. Onward(v, s) /\ Loses(v, s, c, o)
    BY <2>1, <2>2, Discarding
  <2>4. u = Saved(s, c)
    BY <1>3, <2>1 DEF Equipped
  <2>5. Filed(s, u, c) /\ Onward(s, u)
    BY <2>3, <2>4, SavedFits DEF Onward
  <2>6. u.contents = s.contents
    BY <2>5 DEF Filed
  <2>7. Loses(v, u, c, o)
    BY <2>3, <2>6 DEF Loses, Fell, Carried
  <2>8. QED
    BY <2>3, <2>5, <2>7, OnwardTwice
<1>4. QED
  BY <1>2, <1>3

(* wear_obj: a place is cleared, and the first free one taken.              *)
LEMMA MinIn ==
  ASSUME NEW S, S \subseteq Nat, S # {}
  PROVE  Min(S) \in S
<1>1. \E k \in S : \A j \in S : k <= j
  BY Least
<1>2. QED
  BY <1>1 DEF Min

(* The places that o fits, and a free one among them.                       *)
LEMMA VacantFirst ==
  ASSUME scene \in Scenes, NEW v, Sound(v), NEW c \in Chars, NEW o \in Carried(v, c), v.wear_loc[o] = "none",
         NEW fits, fits = kit[o].fits, NEW free, free = {i \in DOMAIN fits : GetEqChar(v, c, fits[i]) = None},
         free # {}
  PROVE  Vacant(v, c, o, fits[Min(free)])
<1>1. o \in Things
  BY CarriedIs
<1>2. fits \in Seq(Wearable) /\ (kit[o].type = "light" => fits \in Seq(Hands))
  BY <1>1, ThingsAre DEF Prototype
<1>3. DOMAIN fits = 1 .. Len(fits) /\ Len(fits) \in Nat
  BY <1>2
<1>4. free \subseteq Nat
  BY <1>3
<1>5. PICK i : i = Min(free)
  OBVIOUS
<1>6. i \in DOMAIN fits /\ GetEqChar(v, c, fits[i]) = None
  BY <1>4, <1>5, MinIn
<1>7. PICK loc : loc = fits[i]
  OBVIOUS
<1>8. loc \in Wearable /\ (kit[o].type = "light" => loc \in Hands)
  BY <1>2, <1>3, <1>6, <1>7
<1>9. loc # "none"
  BY <1>8, Places
<1>10. EqIs(v, c, loc, None)
  <2>1. EqIs(v, c, loc, GetEqChar(v, c, loc))
    BY <1>9, EqChar
  <2>2. GetEqChar(v, c, loc) = None
    BY <1>6, <1>7
  <2>3. QED
    BY <2>1, <2>2
<1>11. Vacant(v, c, o, loc)
  BY <1>8, <1>10 DEF Vacant
<1>12. QED
  BY <1>5, <1>7, <1>11

(* What is worn there, and can be taken off.                                *)
LEMMA LooseWorn ==
  ASSUME scene \in Scenes, NEW v, Sound(v), NEW c \in Chars, NEW o \in Things, NEW fits, fits = kit[o].fits,
         NEW loose, loose \subseteq {i \in DOMAIN fits : GetEqChar(v, c, fits[i]) # None}, loose # {}
  PROVE  GetEqChar(v, c, fits[Min(loose)]) \in WornBy(v, c)
<1>1. fits \in Seq(Wearable)
  BY ThingsAre DEF Prototype
<1>2. DOMAIN fits = 1 .. Len(fits) /\ Len(fits) \in Nat
  BY <1>1
<1>3. loose \subseteq Nat
  BY <1>2
<1>4. PICK i : i = Min(loose)
  OBVIOUS
<1>5. i \in DOMAIN fits /\ GetEqChar(v, c, fits[i]) # None
  BY <1>3, <1>4, MinIn
<1>6. PICK loc : loc = fits[i]
  OBVIOUS
<1>7. loc # "none"
  BY <1>1, <1>2, <1>5, <1>6, Places
<1>8. EqIs(v, c, loc, GetEqChar(v, c, loc)) /\ GetEqChar(v, c, loc) # None
  BY <1>5, <1>6, <1>7, EqChar
<1>9. GetEqChar(v, c, loc) \in WornBy(v, c)
  BY <1>8 DEF EqIs
<1>10. QED
  BY <1>4, <1>6, <1>9

(* unequip_char of another piece leaves o where it is.                      *)
LEMMA UnequipFits ==
  ASSUME scene \in Scenes, NEW v, Fits(v, in_room, affected), NEW c \in Chars, in_room[c] \in Rooms,
         NEW x \in WornBy(v, c), NEW found, NEW u, u = Unequipped(v, c, x, found, AffectModify)
  PROVE  /\ Onward(v, u) /\ Loses(v, u, c, x)
         /\ \A o \in Carried(v, c) : v.wear_loc[o] = "none" => o \in Carried(u, c) /\ u.wear_loc[o] = "none"
<1>1. Sound(v) /\ in_room[c] # None
  BY Where DEF Fits
<1>2. Undone(v, u, c, x) /\ x \in Carried(u, c) /\ Loses(v, u, c, x)
  BY <1>1, Unequipping
<1>3. Onward(v, u)
  BY <1>1, <1>2, UndoneSteady, SteadyFits
<1>4. ASSUME NEW o \in Carried(v, c), v.wear_loc[o] = "none"
      PROVE  o \in Carried(u, c) /\ u.wear_loc[o] = "none"
  <2>1. o \notin WornBy(v, c) /\ o # x
    BY <1>4, InUseIs
  <2>2. ~Fell(v, u, c, o, x)
    <3>1. PICK hand : hand = "wield" /\ hand # "none"
      OBVIOUS
    <3>2. EqIs(v, c, hand, GetEqChar(v, c, hand))
      BY <1>1, <3>1, EqChar
    <3>3. o # None
      BY <1>1, CarriedIs, ThingsAre, Where
    <3>4. o # GetEqChar(v, c, hand)
      BY <2>1, <3>2, <3>3 DEF EqIs
    <3>5. QED
      BY <3>1, <3>4 DEF Fell
  <2>3. o \in Carried(u, c)
    BY <1>2, <2>1, <2>2 DEF Loses
  <2>4. o \notin WornBy(u, c)
    BY <1>2, <2>1 DEF Undone, Less
  <2>5. QED
    BY <2>3, <2>4, InUseIs
<1>5. QED
  BY <1>2, <1>3, <1>4

(* wear_obj as it goes about this.                                          *)
Loose(v, c, fits) ==
  {i \in DOMAIN fits : GetEqChar(v, c, fits[i]) # None /\ ~kit[GetEqChar(v, c, fits[i])].noremove}
FreePlaces(v, c, fits) == {i \in DOMAIN fits : GetEqChar(v, c, fits[i]) = None}
MustClear(v, c, fits, fReplace) ==
  fReplace /\ Loose(v, c, fits) # {} /\ \A i \in DOMAIN fits : GetEqChar(v, c, fits[i]) # None
Cleared(v, c, fits, fReplace, found) ==
  IF MustClear(v, c, fits, fReplace)
  THEN Unequipped(v, c, GetEqChar(v, c, fits[Min(Loose(v, c, fits))]), found, AffectModify) ELSE v
Fitted(s, c, o, fits, found, zap) ==
  IF FreePlaces(s, c, fits) = {} THEN s
  ELSE Equipped(s, c, o, fits[Min(FreePlaces(s, c, fits))], found, zap)

LEMMA WornIs ==
  ASSUME NEW v, NEW c, NEW o, NEW fReplace, NEW found, NEW zap
  PROVE  Worn(v, c, o, fReplace, found, zap)
         = Fitted(Cleared(v, c, kit[o].fits, fReplace, found), c, o, kit[o].fits, found, zap)
  BY DEF Worn, Fitted, FreePlaces, Cleared, MustClear, Loose

LEMMA Wearing ==
  ASSUME scene \in Scenes, NEW v, Fits(v, in_room, affected), NEW c \in Chars, in_room[c] \in Rooms,
         NEW o \in Carried(v, c), v.wear_loc[o] = "none", NEW fReplace, NEW found, NEW zap,
         NEW u, u = Worn(v, c, o, fReplace, found, zap)
  PROVE  Onward(v, u) /\ (~fReplace => Loses(v, u, c, o))
<1>1. Sound(v) /\ o \in Things
  BY CarriedIs DEF Fits
<1>2. PICK fits : fits = kit[o].fits
  OBVIOUS
<1>3. PICK loose : loose = Loose(v, c, fits)
  OBVIOUS
<1>4. PICK x : x = GetEqChar(v, c, fits[Min(loose)])
  OBVIOUS
<1>5. PICK s : s = Cleared(v, c, fits, fReplace, found)
  OBVIOUS
<1>6. /\ MustClear(v, c, fits, fReplace) => s = Unequipped(v, c, x, found, AffectModify)
      /\ ~MustClear(v, c, fits, fReplace) => s = v
      /\ MustClear(v, c, fits, fReplace) => fReplace /\ loose # {}
  BY <1>3, <1>4, <1>5 DEF Cleared, MustClear
<1>7. PICK free : free = {i \in DOMAIN fits : GetEqChar(s, c, fits[i]) = None}
  OBVIOUS
<1>8. u = IF free = {} THEN s ELSE Equipped(s, c, o, fits[Min(free)], found, zap)
  <2>1. u = Fitted(s, c, o, fits, found, zap)
    BY <1>2, <1>5, WornIs
  <2>2. free = FreePlaces(s, c, fits)
    BY <1>7 DEF FreePlaces
  <2>3. QED
    BY <2>1, <2>2 DEF Fitted
<1>9. Onward(v, s) /\ o \in Carried(s, c) /\ s.wear_loc[o] = "none"
  <2>1. CASE MustClear(v, c, fits, fReplace)
    <3>1. loose # {}
      BY <1>6, <2>1
    <3>2. loose \subseteq {i \in DOMAIN fits : GetEqChar(v, c, fits[i]) # None}
      BY <1>3 DEF Loose
    <3>3. x \in WornBy(v, c)
      BY <1>1, <1>2, <1>4, <3>1, <3>2, LooseWorn
    <3>4. QED
      BY <1>6, <2>1, <3>3, UnequipFits
  <2>2. CASE ~MustClear(v, c, fits, fReplace)
    BY <1>6, <2>2, OnwardNone
  <2>3. QED
    BY <2>1, <2>2
<1>10. Fits(s, in_room, affected) /\ Sound(s)
  BY <1>9 DEF Onward, Fits
<1>11. CASE free = {}
  <2>1. u = s /\ (~fReplace => s = v)
    BY <1>6, <1>8, <1>11
  <2>2. QED
    BY <1>9, <2>1 DEF Loses
<1>12. CASE free # {}
  <2>1. Vacant(s, c, o, fits[Min(free)])
    BY <1>2, <1>7, <1>9, <1>10, <1>12, VacantFirst
  <2>2. u = Equipped(s, c, o, fits[Min(free)], found, zap)
    BY <1>8, <1>12
  <2>3. Onward(s, u) /\ Loses(s, u, c, o)
    BY <1>10, <2>1, <2>2, EquipFits
  <2>4. ~fReplace => s = v
    BY <1>6
  <2>5. QED
    BY <1>9, <2>3, <2>4, OnwardTwice
<1>13. QED
  BY <1>11, <1>12

(* remove_obj                                                               *)
LEMMA TakingOff ==
  ASSUME scene \in Scenes, NEW v, Fits(v, in_room, affected), NEW c \in Chars, in_room[c] \in Rooms,
         NEW o \in WornBy(v, c), NEW found, NEW u, u = TakenOff(v, c, o, found)
  PROVE  Onward(v, u) /\ Loses(v, u, c, o)
<1>1. CASE kit[o].noremove
  BY <1>1, OnwardNone DEF TakenOff, Loses
<1>2. CASE ~kit[o].noremove
  BY <1>2, UnequipFits DEF TakenOff
<1>3. QED
  BY <1>1, <1>2

-----------------------------------------------------------------------------
(* Spells.                                                                  *)
LEMMA CastType ==
  ASSUME NEW S, OneOfEach(S)
  PROVE  /\ Cast(S) \in Int /\ (S = {} => Cast(S) = 0) /\ [a \in S |-> a.modifier] \in [S -> Int]
<1>1. IsFiniteSet(S) /\ \A a \in S : a.modifier \in Int
  BY DEF OneOfEach, AffType
<1>2. PICK f : f = [a \in S |-> a.modifier]
  OBVIOUS
<1>3. f \in [S -> Int]
  BY <1>1, <1>2
<1>4. SumOf(f) \in Int /\ (S = {} => SumOf(f) = 0)
  BY <1>1, <1>3, SumType
<1>5. QED
  BY <1>2, <1>3, <1>4 DEF Cast

(* S is R and the affect a.                                                 *)
LEMMA CastWith ==
  ASSUME NEW S, OneOfEach(S), NEW R, OneOfEach(R), NEW a \in S, R = S \ {a}
  PROVE  Cast(S) = Cast(R) + a.modifier
<1>1. PICK f : f = [b \in S |-> b.modifier]
  OBVIOUS
<1>2. PICK g : g = [b \in R |-> b.modifier]
  OBVIOUS
<1>3. f \in [S -> Int] /\ g \in [R -> Int]
  BY <1>1, <1>2, CastType
<1>4. Extends(f, S, a, g, R)
  BY <1>1, <1>2, <1>3 DEF Extends, OneOfEach
<1>5. SumOf(f) = SumOf(g) + f[a]
  BY <1>4, SumWith
<1>6. f[a] = a.modifier
  BY <1>1
<1>7. QED
  BY <1>1, <1>2, <1>5, <1>6 DEF Cast

LEMMA FewerEach ==
  ASSUME NEW S, OneOfEach(S), NEW R, R \subseteq S
  PROVE  OneOfEach(R)
<1>1. IsFiniteSet(R)
  BY FS_Subset DEF OneOfEach
<1>2. QED
  BY <1>1 DEF OneOfEach

LEMMA OneMoreEach ==
  ASSUME NEW S, OneOfEach(S), NEW a \in AffType, \A b \in S : b.type # a.type, NEW R, R = S \cup {a}
  PROVE  OneOfEach(R) /\ a \in R /\ S = R \ {a}
<1>1. IsFiniteSet(R)
  BY FS_AddElement DEF OneOfEach
<1>2. R \in SUBSET AffType
  BY DEF OneOfEach
<1>3. \A x, y \in R : x.type = y.type => x = y
  BY DEF OneOfEach
<1>4. a \notin S
  OBVIOUS
<1>5. QED
  BY <1>1, <1>2, <1>3, <1>4 DEF OneOfEach

(* What a spell on c may do, when S is what there is on c then.             *)
Enspelled(v, u, c, S) ==
  /\ Sound(u) /\ Aside(v, u, c) /\ OneOfEach(S) /\ Balanced(u, c, S) /\ Sourced(u, c, S)
  /\ Bright(v, in_room) => Bright(u, in_room)

LEMMA EnspelledFits ==
  ASSUME scene \in Scenes, affected \in [Chars -> SUBSET AffType], NEW v, Fits(v, in_room, affected),
         NEW c \in Chars, in_room[c] # None,
         NEW u, NEW S, Enspelled(v, u, c, S), NEW eff, eff = [affected EXCEPT ![c] = S]
  PROVE  Fits(u, in_room, eff) /\ (Bright(v, in_room) => Bright(u, in_room))
<1>1. eff[c] = S /\ \A d \in Chars : d # c => eff[d] = affected[d]
  OBVIOUS
<1>2. Beside(in_room, affected, in_room, eff, c)
  BY <1>1 DEF Beside
<1>3. FileFits(u.file[c])
  BY DEF Fits, Person, Enspelled, Aside, Still
<1>4. Sound(u) /\ Aside(v, u, c) /\ Person(u, in_room, eff, c)
  BY <1>1, <1>3 DEF Enspelled, Person
<1>5. Fits(u, in_room, eff)
  BY <1>2, <1>4, OthersFit
<1>6. QED
  BY <1>5 DEF Enspelled

LEMMA BalanceMoved ==
  ASSUME scene \in Scenes, NEW v, Sound(v), NEW u, NEW c \in Chars, NEW m \in Int, Even(v, u, c, m, 0),
         u.surplus = v.surplus, NEW S, NEW R, Cast(S) \in Int, Cast(R) = Cast(S) + m, Balanced(v, c, S)
  PROVE  Balanced(u, c, R)
<1>1. HitOf(v, c) \in Int
  BY BalanceTypes
<1>2. QED
  BY <1>1 DEF Balanced, Even

(* Power by itself.                                                         *)
Powers(v, u, c) ==
  /\ Rest(v, u) /\ u.light = v.light
  /\ \A d \in Chars : d # c => u.flying[d] = v.flying[d] /\ u.kept[d] = v.kept[d]

LEMMA PoweringUp ==
  ASSUME NEW v \in WType, NEW c \in Chars, NEW u, u = [v EXCEPT !.flying[c] = TRUE]
  PROVE  Powers(v, u, c)
<1>1. v.flying \in [Chars -> BOOLEAN]
  BY Fields
<1>2. PICK g : g = [v.flying EXCEPT ![c] = TRUE]
  OBVIOUS
<1>3. u = [v EXCEPT !.flying = g]
  BY <1>2 DEF WType
<1>4. g \in [Chars -> BOOLEAN] /\ \A d \in Chars : d # c => g[d] = v.flying[d]
  BY <1>1, <1>2
<1>5. u \in WType /\ u.flying = g /\ u.kept = v.kept
  BY <1>3, <1>4 DEF WType
<1>6. Rest(v, u) /\ u.light = v.light
  BY <1>3, <1>5 DEF WType, Rest, Still
<1>7. QED
  BY <1>4, <1>5, <1>6 DEF Powers

LEMMA PoweringDown ==
  ASSUME NEW v \in WType, NEW c \in Chars, NEW u, u = [v EXCEPT !.flying[c] = FALSE, !.kept[c] = FALSE]
  PROVE  Powers(v, u, c) /\ ~u.flying[c]
<1>1. v.flying \in [Chars -> BOOLEAN] /\ v.kept \in [Chars -> BOOLEAN]
  BY Fields
<1>2. PICK g : g = [v.flying EXCEPT ![c] = FALSE]
  OBVIOUS
<1>3. PICK k : k = [v.kept EXCEPT ![c] = FALSE]
  OBVIOUS
<1>4. u = [v EXCEPT !.flying = g, !.kept = k]
  BY <1>2, <1>3 DEF WType
<1>5. /\ g \in [Chars -> BOOLEAN] /\ k \in [Chars -> BOOLEAN] /\ ~g[c]
      /\ \A d \in Chars : d # c => g[d] = v.flying[d] /\ k[d] = v.kept[d]
  BY <1>1, <1>2, <1>3
<1>6. u \in WType /\ u.flying = g /\ u.kept = k
  BY <1>4, <1>5 DEF WType
<1>7. Rest(v, u) /\ u.light = v.light
  BY <1>4, <1>6 DEF WType, Rest, Still
<1>8. QED
  BY <1>5, <1>6, <1>7 DEF Powers

(* Power, then strength.                                                    *)
LEMMA PowerModified ==
  ASSUME scene \in Scenes, NEW v, Sound(v), NEW c \in Chars, in_room[c] \in Rooms, NEW s, Powers(v, s, c),
         NEW m \in Int, NEW found, NEW u, u = AffectModify(s, c, <<m, 0>>, found)
  PROVE  /\ Sound(u) /\ Aside(v, u, c) /\ Even(v, u, c, m, 0) /\ (u.flying[c] => s.flying[c])
         /\ Flight(s, u, c) /\ InUse(s, c) = InUse(v, c) /\ u.surplus = v.surplus
         /\ Bright(v, in_room) => Bright(u, in_room)
<1>1. Rest(v, s) /\ s.light = v.light
  BY DEF Powers
<1>2. /\ Sound(s) /\ Even(v, s, c, 0, 0) /\ s \in WType
      /\ \A d : InUse(s, d) = InUse(v, d) /\ Lamps(s, d) = Lamps(v, d)
  BY <1>1, RestKeeps DEF Rest
<1>3. Aside(v, s, c)
  BY <1>1, RestAside DEF Powers
<1>4. PICK d : d = <<m, 0>>
  OBVIOUS
<1>5. d \in Int \X Int /\ d[1] = m /\ d[2] = 0
  BY <1>4
<1>6. Arms(s, u, c, m, 0, s.mod_str[c] + m)
  BY <1>2, <1>4, <1>5, Modifying
<1>7. 0 \in Int
  OBVIOUS
<1>8. Turn(s, u, c, m, 0)
  BY <1>2, <1>6, <1>7, ArmsTurn
<1>9. Sound(u) /\ Aside(s, u, c) /\ Even(s, u, c, m, 0) /\ SameLight(s, u) /\ Flight(s, u, c) /\ Less(s, u, c)
  BY <1>8 DEF Turn
<1>10. Aside(v, u, c)
  BY <1>3, <1>9, AsideTwice
<1>11. Even(v, u, c, m, 0)
  <2>1. StrOf(v, c) \in Int /\ HitOf(v, c) \in Int
    BY BalanceTypes
  <2>2. Even(v, u, c, 0 + m, 0 + 0)
    BY <1>2, <1>7, <1>9, <2>1, EvenTwice
  <2>3. 0 + m = m /\ 0 + 0 = 0
    OBVIOUS
  <2>4. QED
    BY <2>2, <2>3
<1>12. Bright(v, in_room) => Bright(u, in_room)
  <2>1. SameLight(v, u)
    BY <1>1, <1>2, <1>9 DEF SameLight
  <2>2. QED
    BY <2>1, SameBright
<1>13. u.surplus = v.surplus
  BY <1>10 DEF Aside, Still
<1>14. QED
  BY <1>2, <1>9, <1>10, <1>11, <1>12, <1>13 DEF Less

(* affect_to_char: S is what there is on c before.                          *)
LEMMA AddingAffect ==
  ASSUME scene \in Scenes, NEW v, Sound(v), NEW c \in Chars, in_room[c] \in Rooms,
         NEW S, OneOfEach(S), Balanced(v, c, S), Sourced(v, c, S), Spelled(S) <=> Spelled(affected[c]),
         NEW a \in AffType, \A b \in S : b.type # a.type, NEW R, R = S \cup {a}, NEW found,
         NEW u, u = Adds(v, c, a, found)
  PROVE  Enspelled(v, u, c, R)
<1>1. PICK s : s = IF a.type = "fly" THEN [v EXCEPT !.flying[c] = TRUE] ELSE v
  OBVIOUS
<1>2. u = AffectModify(s, c, <<a.modifier, 0>>, found)
  BY <1>1 DEF Adds
<1>3. Powers(v, s, c) /\ (a.type # "fly" => s = v)
  <2>1. v \in WType
    BY DEF Sound
  <2>2. CASE a.type = "fly"
    BY <1>1, <2>1, <2>2, PoweringUp
  <2>3. CASE a.type # "fly"
    BY <1>1, <2>1, <2>3 DEF Powers, Rest, Still
  <2>4. QED
    BY <2>2, <2>3
<1>4. PICK m \in Int : m = a.modifier
  BY DEF AffType
<1>5. /\ Sound(u) /\ Aside(v, u, c) /\ Even(v, u, c, m, 0)
      /\ Flight(s, u, c) /\ u.surplus = v.surplus
      /\ Bright(v, in_room) => Bright(u, in_room)
  BY <1>2, <1>3, <1>4, PowerModified
<1>6. OneOfEach(R) /\ a \in R /\ S = R \ {a}
  BY OneMoreEach
<1>7. Cast(S) \in Int /\ Cast(R) = Cast(S) + m
  BY <1>4, <1>6, CastType, CastWith
<1>8. Balanced(u, c, R)
  BY <1>5, <1>7, BalanceMoved
<1>9. Sourced(u, c, R)
  <2>1. CASE a.type = "fly"
    BY <1>6, <2>1 DEF Sourced, Spelled
  <2>2. CASE a.type # "fly"
    <3>1. Sourced(v, c, affected[c])
      BY DEF Sourced
    <3>2. Sourced(u, c, affected[c])
      BY <1>3, <1>5, <2>2, <3>1, FlightSourced
    <3>3. Spelled(affected[c]) => Spelled(R)
      BY DEF Spelled
    <3>4. QED
      BY <3>2, <3>3 DEF Sourced
  <2>3. QED
    BY <2>1, <2>2
<1>10. QED
  BY <1>5, <1>6, <1>8, <1>9 DEF Enspelled

(* affect_remove.                                                           *)
LEMMA TakingAffect ==
  ASSUME scene \in Scenes, NEW v, Fits(v, in_room, affected), NEW c \in Chars, in_room[c] \in Rooms,
         NEW a \in affected[c], NEW R, R = affected[c] \ {a}, NEW found, NEW u, u = Takes(v, c, a, found)
  PROVE  Enspelled(v, u, c, R)
<1>1. PICK s : s = IF a.type = "fly" THEN [v EXCEPT !.flying[c] = FALSE, !.kept[c] = FALSE] ELSE v
  OBVIOUS
<1>2. u = AffectModify(s, c, <<-a.modifier, 0>>, found)
  BY <1>1 DEF Takes
<1>a. Sound(v) /\ OneOfEach(affected[c]) /\ Balanced(v, c, affected[c]) /\ Sourced(v, c, affected[c])
  BY DEF Fits, Person
<1>3. Powers(v, s, c) /\ (a.type = "fly" => ~s.flying[c]) /\ (a.type # "fly" => s = v)
  <2>1. v \in WType
    BY <1>a DEF Sound
  <2>2. CASE a.type = "fly"
    BY <1>1, <2>1, <2>2, PoweringDown
  <2>3. CASE a.type # "fly"
    BY <1>1, <2>1, <2>3 DEF Powers, Rest, Still
  <2>4. QED
    BY <2>2, <2>3
<1>4. PICK n \in Int : n = a.modifier
  BY <1>a DEF AffType, OneOfEach
<1>b. PICK m \in Int : m = -n
  OBVIOUS
<1>5. /\ Sound(u) /\ Aside(v, u, c) /\ Even(v, u, c, m, 0) /\ (u.flying[c] => s.flying[c])
      /\ Flight(s, u, c) /\ u.surplus = v.surplus
      /\ Bright(v, in_room) => Bright(u, in_room)
  BY <1>2, <1>3, <1>4, <1>a, <1>b, PowerModified
<1>6. OneOfEach(R)
  BY <1>a, FewerEach
<1>7. Cast(affected[c]) \in Int /\ Cast(R) = Cast(affected[c]) + m
  <2>1. Cast(affected[c]) = Cast(R) + n
    BY <1>4, <1>6, <1>a, CastWith
  <2>2. Cast(R) \in Int /\ Cast(affected[c]) \in Int
    BY <1>6, <1>a, CastType
  <2>3. QED
    BY <1>b, <2>1, <2>2
<1>8. Balanced(u, c, R)
  BY <1>5, <1>7, <1>a, BalanceMoved
<1>9. Sourced(u, c, R)
  <2>1. CASE a.type = "fly"
    BY <1>3, <1>5, <2>1 DEF Sourced
  <2>2. CASE a.type # "fly"
    <3>2. Sourced(u, c, affected[c])
      BY <1>3, <1>5, <1>a, <2>2, FlightSourced
    <3>3. Spelled(affected[c]) => Spelled(R)
      BY <2>2 DEF Spelled
    <3>4. QED
      BY <3>2, <3>3 DEF Sourced
  <2>3. QED
    BY <2>1, <2>2
<1>10. QED
  BY <1>5, <1>6, <1>8, <1>9 DEF Enspelled

LEMMA EnspelledTwice ==
  ASSUME NEW v, NEW u, NEW t, NEW c, NEW S, NEW R, Enspelled(v, u, c, S), Enspelled(u, t, c, R)
  PROVE  Enspelled(v, t, c, R)
<1>1. Aside(v, t, c)
  BY AsideTwice DEF Enspelled
<1>2. QED
  BY <1>1 DEF Enspelled

(* affect_join: the old poison off, and the sum of both on.                 *)
LEMMA Joining ==
  ASSUME scene \in Scenes, NEW v, Fits(v, in_room, affected), NEW c \in Chars, in_room[c] \in Rooms,
         NEW old \in affected[c], NEW new \in AffType, new.type = old.type, old.type # "fly",
         NEW R, R = (affected[c] \ {old}) \cup {new}, NEW found,
         NEW u, u = Adds(Takes(v, c, old, found), c, new, found)
  PROVE  Enspelled(v, u, c, R)
<1>1. PICK s : s = Takes(v, c, old, found)
  OBVIOUS
<1>2. PICK S : S = affected[c] \ {old}
  OBVIOUS
<1>3. Enspelled(v, s, c, S)
  BY <1>1, <1>2, TakingAffect
<1>4. Spelled(S) <=> Spelled(affected[c])
  BY <1>2 DEF Spelled
<1>5. \A b \in S : b.type # new.type
  BY <1>2 DEF Fits, Person, OneOfEach
<1>6. Sound(s) /\ OneOfEach(S) /\ Balanced(s, c, S) /\ Sourced(s, c, S)
  BY <1>3 DEF Enspelled
<1>7. R = S \cup {new}
  BY <1>2
<1>8. u = Adds(s, c, new, found)
  BY <1>1
<1>9. Enspelled(s, u, c, R)
  BY <1>4, <1>5, <1>6, <1>7, <1>8, AddingAffect
<1>10. QED
  BY <1>3, <1>9, EnspelledTwice

-----------------------------------------------------------------------------
(* raw_kill and do_clearstats end all spells on somebody who wears nothing. *)
Ended(v, u, c, m) ==
  /\ u \in WType /\ u.contents = v.contents /\ u.wear_loc = v.wear_loc /\ Still(v, u)
  /\ u.light = v.light /\ u.armor = v.armor
  /\ u.mod_str[c] = v.mod_str[c] - m
  /\ \A d \in Chars : d # c =>
       /\ u.mod_str[d] = v.mod_str[d] /\ u.hitroll[d] = v.hitroll[d]
       /\ u.flying[d] = v.flying[d] /\ u.kept[d] = v.kept[d]

LEMMA EndsOne ==
  ASSUME scene \in Scenes, NEW v, Sound(v), NEW c \in Chars, in_room[c] \in Rooms, WornBy(v, c) = {},
         NEW m \in Int, NEW u, Ended(v, u, c, m), NEW a \in AffType, NEW t, t = Takes(u, c, a, TRUE)
  PROVE  Ended(v, t, c, m + a.modifier)
<1>1. u \in WType /\ u.contents = v.contents /\ u.wear_loc = v.wear_loc /\ Still(v, u)
  BY DEF Ended
<1>2. Sound(u)
  BY <1>1, SoundSame
<1>3. WornBy(u, c) = {}
  BY <1>1, EqSame
<1>4. PICK s : s = IF a.type = "fly" THEN [u EXCEPT !.flying[c] = FALSE, !.kept[c] = FALSE] ELSE u
  OBVIOUS
<1>5. t = AffectModify(s, c, <<-a.modifier, 0>>, TRUE)
  BY <1>4 DEF Takes
<1>6. Powers(u, s, c)
  <2>1. CASE a.type = "fly"
    BY <1>1, <1>4, <2>1, PoweringDown
  <2>2. CASE a.type # "fly"
    BY <1>1, <1>4, <2>2 DEF Powers, Rest, Still
  <2>3. QED
    BY <2>1, <2>2
<1>7. Rest(u, s)
  BY <1>6 DEF Powers
<1>8. Sound(s) /\ WornBy(s, c) = {}
  BY <1>2, <1>3, <1>7, RestKeeps
<1>9. PICK n \in Int : n = a.modifier
  BY DEF AffType
<1>10. PICK d : d = <<-n, 0>>
  OBVIOUS
<1>b. d \in Int \X Int /\ d[1] = -n /\ d[2] = 0
  BY <1>10
<1>11. EqIs(s, c, "wield", None)
  BY <1>8 DEF EqIs
<1>12. ShiftBy(s, t, c, -n, 0)
  BY <1>5, <1>8, <1>9, <1>10, <1>b, <1>11, Modifying
<1>13. /\ t \in WType /\ t.contents = v.contents /\ t.wear_loc = v.wear_loc /\ Still(v, t)
       /\ t.light = v.light /\ t.armor = v.armor
  BY <1>6, <1>12 DEF Ended, Powers, Rest, ShiftBy, Still
<1>14. t.mod_str[c] = v.mod_str[c] - (m + n)
  <2>1. u.mod_str[c] = v.mod_str[c] - m /\ s.mod_str = u.mod_str /\ t.mod_str[c] = s.mod_str[c] + (-n)
    BY <1>6, <1>12 DEF Ended, Powers, Rest, ShiftBy
  <2>2. PICK k \in Int : k = v.mod_str[c]
    BY WornTypes
  <2>3. t.mod_str[c] = (k - m) + (-n)
    BY <2>1, <2>2
  <2>4. (k - m) + (-n) = k - (m + n)
    OBVIOUS
  <2>5. QED
    BY <2>2, <2>3, <2>4
<1>15. ASSUME NEW e \in Chars, e # c
       PROVE  /\ t.mod_str[e] = v.mod_str[e] /\ t.hitroll[e] = v.hitroll[e]
              /\ t.flying[e] = v.flying[e] /\ t.kept[e] = v.kept[e]
  <2>1. /\ u.mod_str[e] = v.mod_str[e] /\ u.hitroll[e] = v.hitroll[e]
        /\ u.flying[e] = v.flying[e] /\ u.kept[e] = v.kept[e]
    BY <1>15 DEF Ended
  <2>2. /\ s.mod_str = u.mod_str /\ s.hitroll = u.hitroll
        /\ s.flying[e] = u.flying[e] /\ s.kept[e] = u.kept[e]
    BY <1>6, <1>15 DEF Powers, Rest
  <2>3. /\ t.mod_str[e] = s.mod_str[e] /\ t.hitroll[e] = s.hitroll[e]
        /\ t.flying = s.flying /\ t.kept = s.kept
    BY <1>12, <1>15 DEF ShiftBy
  <2>4. QED
    BY <2>1, <2>2, <2>3
<1>16. QED
  BY <1>9, <1>13, <1>14, <1>15 DEF Ended

(* Somebody whose things and sums are what they were.                       *)
AsBefore(v, u, d) ==
  /\ WornBy(u, d) = WornBy(v, d)
  /\ \A o \in WornBy(v, d) : /\ u.wear_loc[o] = v.wear_loc[o]
                             /\ o \in u.enchanted <=> o \in v.enchanted
                             /\ o \in u.lit <=> o \in v.lit
  /\ u.mod_str[d] = v.mod_str[d] /\ u.armor[d] = v.armor[d] /\ u.hitroll[d] = v.hitroll[d]
  /\ u.flying[d] = v.flying[d] /\ u.kept[d] = v.kept[d] /\ u.surplus[d] = v.surplus[d]
  /\ u.file[d] = v.file[d]

LEMMA BeforeIs ==
  ASSUME NEW v, NEW u, NEW d, AsBefore(v, u, d)
  PROVE  /\ InUse(u, d) = InUse(v, d) /\ Lamps(u, d) = Lamps(v, d)
         /\ StrOf(u, d) = StrOf(v, d) /\ ArmOf(u, d) = ArmOf(v, d) /\ HitOf(u, d) = HitOf(v, d)
<1>1. InUse(u, d) = InUse(v, d)
  <2>1. \A o : o \in InUse(u, d) <=> o \in InUse(v, d)
    BY InUseIs DEF AsBefore
  <2>2. QED
    BY <2>1
<1>2. Lamps(u, d) = Lamps(v, d)
  <2>1. \A o : o \in Lamps(u, d) <=> o \in Lamps(v, d)
    BY InUseIs DEF AsBefore
  <2>2. QED
    BY <2>1
<1>3. WornStr(u, d) = WornStr(v, d)
  BY <1>1 DEF WornStr
<1>4. WornAC(u, d) = WornAC(v, d)
  <2>1. \A o \in InUse(v, d) : ApplyAC(o, u.wear_loc[o]) = ApplyAC(o, v.wear_loc[o])
    BY InUseIs DEF AsBefore
  <2>2. [o \in InUse(v, d) |-> ApplyAC(o, u.wear_loc[o])] = [o \in InUse(v, d) |-> ApplyAC(o, v.wear_loc[o])]
    BY <2>1
  <2>3. QED
    BY <1>1, <2>2 DEF WornAC
<1>5. WornHit(u, d) = WornHit(v, d)
  <2>1. \A o : o \in InUse(u, d) \cap u.enchanted <=> o \in InUse(v, d) \cap v.enchanted
    BY <1>1, InUseIs DEF AsBefore
  <2>2. InUse(u, d) \cap u.enchanted = InUse(v, d) \cap v.enchanted
    BY <2>1
  <2>3. QED
    BY <2>2 DEF WornHit
<1>6. QED
  BY <1>1, <1>2, <1>3, <1>4, <1>5 DEF AsBefore, StrOf, ArmOf, HitOf

LEMMA AllFit ==
  ASSUME NEW v, NEW at, NEW aff, Fits(v, at, aff), NEW u, Sound(u), NEW c,
         \A d \in Chars : d # c => AsBefore(v, u, d),
         NEW to, NEW eff, Beside(at, aff, to, eff, c), c \in Chars => Person(u, to, eff, c)
  PROVE  Fits(u, to, eff)
<1>1. ASSUME NEW d \in Chars, d # c PROVE Person(u, to, eff, d)
  <2>1. Person(v, at, aff, d) /\ to[d] = at[d] /\ eff[d] = aff[d] /\ AsBefore(v, u, d)
    BY <1>1 DEF Fits, Beside
  <2>2. /\ InUse(u, d) = InUse(v, d)
        /\ StrOf(u, d) = StrOf(v, d) /\ ArmOf(u, d) = ArmOf(v, d) /\ HitOf(u, d) = HitOf(v, d)
    BY <2>1, BeforeIs
  <2>3. /\ u.flying[d] = v.flying[d] /\ u.kept[d] = v.kept[d] /\ u.surplus[d] = v.surplus[d]
        /\ u.file[d] = v.file[d] /\ WornBy(u, d) = WornBy(v, d)
    BY <2>1 DEF AsBefore
  <2>4. Balanced(u, d, aff[d]) /\ Sourced(u, d, aff[d])
    BY <2>1, <2>2, <2>3 DEF Person, Balanced, Sourced
  <2>5. QED
    BY <2>1, <2>3, <2>4 DEF Person
<1>2. QED
  BY <1>1 DEF Fits

(* All spells.                                                              *)
LEMMA EndsAll ==
  ASSUME scene \in Scenes, NEW v, Sound(v), NEW c \in Chars, in_room[c] \in Rooms, WornBy(v, c) = {},
         NEW S, OneOfEach(S)
  PROVE  Ended(v, FoldSet(LAMBDA a, u : Takes(u, c, a, TRUE), v, S), c, Cast(S))
<1> DEFINE Q(i) == i = [s \in SUBSET S |-> IF s = {} THEN v ELSE Takes(i[s \ {AnyOf(s)}], c, AnyOf(s), TRUE)]
           it == CHOOSE i : Q(i)
           F == [a \in S |-> [u \in WType |-> Takes(u, c, a, TRUE)]]
           D == [s \in SUBSET S |-> {u \in WType : Ended(v, u, c, Cast(s))}]
<1>1. FoldSet(LAMBDA a, u : Takes(u, c, a, TRUE), v, S) = it[S]
  BY DEF FoldSet, MapThenFoldSet, AnyOf
<1>2. IsFiniteSet(S) /\ \A a \in S : a \in AffType
  BY DEF OneOfEach
<1>3. \A s \in SUBSET S : OneOfEach(s)
  BY FewerEach
<1>4. Ended(v, v, c, Cast({})) /\ v \in WType
  <2>1. Cast({}) = 0
    BY <1>3, CastType
  <2>2. v \in WType /\ v.mod_str[c] \in Int
    BY WornTypes DEF Sound
  <2>3. QED
    BY <2>1, <2>2 DEF Ended, Still
<1>5. ASSUME NEW s \in SUBSET S, s # {}, NEW u \in WType, Ended(v, u, c, Cast(s \ {AnyOf(s)}))
      PROVE  /\ Takes(u, c, AnyOf(s), TRUE) \in WType
             /\ Ended(v, Takes(u, c, AnyOf(s), TRUE), c, Cast(s))
  <2>1. AnyOf(s) \in s /\ s \ {AnyOf(s)} \in SUBSET S
    BY <1>2, <1>5, AnyOfIs
  <2>2. PICK a : a = AnyOf(s)
    OBVIOUS
  <2>3. PICK r : r = s \ {a}
    OBVIOUS
  <2>4. a \in s /\ a \in AffType /\ OneOfEach(s) /\ OneOfEach(r)
    BY <1>2, <1>3, <2>1, <2>2, <2>3
  <2>5. Cast(s) = Cast(r) + a.modifier /\ Cast(r) \in Int
    BY <2>3, <2>4, CastWith, CastType
  <2>6. Ended(v, u, c, Cast(r))
    BY <1>5, <2>2, <2>3
  <2>7. PICK t : t = Takes(u, c, a, TRUE)
    OBVIOUS
  <2>8. Ended(v, t, c, Cast(r) + a.modifier)
    BY <2>4, <2>5, <2>6, <2>7, EndsOne
  <2>9. Ended(v, t, c, Cast(s)) /\ t \in WType
    BY <2>5, <2>8 DEF Ended
  <2>10. QED
    BY <2>2, <2>7, <2>9
<1>6. v \in D[{}]
  BY <1>4
<1>7. ASSUME NEW s \in SUBSET S, s # {} PROVE \A u \in D[s \ {AnyOf(s)}] : F[AnyOf(s)][u] \in D[s]
  <2>1. AnyOf(s) \in S /\ s \ {AnyOf(s)} \in SUBSET S
    BY <1>2, <1>7, AnyOfIs
  <2>2. \A u \in D[s \ {AnyOf(s)}] : u \in WType /\ Ended(v, u, c, Cast(s \ {AnyOf(s)}))
    BY <2>1
  <2>3. \A u \in WType : F[AnyOf(s)][u] = Takes(u, c, AnyOf(s), TRUE)
    BY <2>1
  <2>4. \A u : u \in WType /\ Ended(v, u, c, Cast(s)) => u \in D[s]
    OBVIOUS
  <2> HIDE DEF F, D
  <2>5. QED
    BY <1>5, <1>7, <2>2, <2>3, <2>4
<1>8. \A a \in S : \A u \in WType : F[a][u] = Takes(u, c, a, TRUE)
  OBVIOUS
<1>9. \A s \in SUBSET S : \A u \in D[s] : u \in WType /\ Ended(v, u, c, Cast(s))
  OBVIOUS
<1> HIDE DEF F, D
<1>10. PICK j : Folds(F, D, v, S, j)
  BY <1>2, <1>6, <1>7, FoldExists
<1>11. \A s \in SUBSET S : j[s] \in D[s]
  BY <1>10 DEF Folds
<1>12. ASSUME NEW s \in SUBSET S, s # {}
       PROVE  F[AnyOf(s)][j[s \ {AnyOf(s)}]] = Takes(j[s \ {AnyOf(s)}], c, AnyOf(s), TRUE)
  <2>1. AnyOf(s) \in S /\ s \ {AnyOf(s)} \in SUBSET S
    BY <1>2, <1>12, AnyOfIs
  <2>2. j[s \ {AnyOf(s)}] \in WType
    BY <1>9, <1>11, <2>1
  <2>3. QED
    BY <1>8, <2>1, <2>2
<1>13. Q(j)
  BY <1>10, <1>12 DEF Folds
<1>14. Q(it)
  BY <1>13
<1> HIDE DEF it
<1>15. \A s \in SUBSET S : it[s] = IF s = {} THEN v ELSE Takes(it[s \ {AnyOf(s)}], c, AnyOf(s), TRUE)
  BY <1>14
<1> DEFINE G == {s \in SUBSET S : it[s] \in WType /\ Ended(v, it[s], c, Cast(s))}
<1>16. {} \in G
  BY <1>4, <1>15
<1>17. \A s \in SUBSET S : s # {} /\ s \ {AnyOf(s)} \in G => s \in G
  BY <1>5, <1>15
<1>18. S \in G
  <2> HIDE DEF G
  <2>1. QED
    BY <1>2, <1>16, <1>17, ElementByElement
<1>19. QED
  BY <1>1, <1>18

(* The numbers of one structure are set.                                    *)
Resets(v, u, c) ==
  /\ u \in WType /\ u.contents = v.contents /\ u.wear_loc = v.wear_loc /\ u.enchanted = v.enchanted
  /\ u.marked = v.marked /\ u.lit = v.lit /\ u.file = v.file /\ u.light = v.light
  /\ \A d \in Chars : d # c =>
       /\ u.mod_str[d] = v.mod_str[d] /\ u.armor[d] = v.armor[d] /\ u.hitroll[d] = v.hitroll[d]
       /\ u.flying[d] = v.flying[d] /\ u.kept[d] = v.kept[d] /\ u.surplus[d] = v.surplus[d]

(* Numbers that a structure can have.                                       *)
Numbers(f) ==
  /\ f.mod_str \in Int /\ f.armor \in Int /\ f.hitroll \in Int /\ f.surplus \in Int
  /\ f.flying \in BOOLEAN /\ f.kept \in BOOLEAN

HasNumbers(u, c, f) ==
  /\ u.mod_str[c] = f.mod_str /\ u.armor[c] = f.armor /\ u.hitroll[c] = f.hitroll
  /\ u.flying[c] = f.flying /\ u.kept[c] = f.kept /\ u.surplus[c] = f.surplus

LEMMA Resetting ==
  ASSUME NEW v \in WType, NEW c \in Chars, NEW f, Numbers(f), NEW u, u = With(v, c, f)
  PROVE  Resets(v, u, c) /\ HasNumbers(u, c, f)
<1>1. /\ v.mod_str \in [Chars -> Int] /\ v.armor \in [Chars -> Int] /\ v.hitroll \in [Chars -> Int]
      /\ v.flying \in [Chars -> BOOLEAN] /\ v.kept \in [Chars -> BOOLEAN] /\ v.surplus \in [Chars -> Int]
  BY Fields
<1>2. PICK m : m = [v.mod_str EXCEPT ![c] = f.mod_str]
  OBVIOUS
<1>3. PICK a : a = [v.armor EXCEPT ![c] = f.armor]
  OBVIOUS
<1>4. PICK h : h = [v.hitroll EXCEPT ![c] = f.hitroll]
  OBVIOUS
<1>5. PICK g : g = [v.flying EXCEPT ![c] = f.flying]
  OBVIOUS
<1>6. PICK k : k = [v.kept EXCEPT ![c] = f.kept]
  OBVIOUS
<1>7. PICK s : s = [v.surplus EXCEPT ![c] = f.surplus]
  OBVIOUS
<1>8. u = [v EXCEPT !.mod_str = m, !.armor = a, !.hitroll = h, !.flying = g, !.kept = k, !.surplus = s]
  BY <1>2, <1>3, <1>4, <1>5, <1>6, <1>7 DEF With, WType
<1>9. /\ m \in [Chars -> Int] /\ a \in [Chars -> Int] /\ h \in [Chars -> Int]
      /\ g \in [Chars -> BOOLEAN] /\ k \in [Chars -> BOOLEAN] /\ s \in [Chars -> Int]
  BY <1>1, <1>2, <1>3, <1>4, <1>5, <1>6, <1>7 DEF Numbers
<1>10. /\ m[c] = f.mod_str /\ a[c] = f.armor /\ h[c] = f.hitroll /\ g[c] = f.flying /\ k[c] = f.kept
       /\ s[c] = f.surplus
  BY <1>1, <1>2, <1>3, <1>4, <1>5, <1>6, <1>7
<1>11. \A d \in Chars : d # c =>
         /\ m[d] = v.mod_str[d] /\ a[d] = v.armor[d] /\ h[d] = v.hitroll[d]
         /\ g[d] = v.flying[d] /\ k[d] = v.kept[d] /\ s[d] = v.surplus[d]
  BY <1>1, <1>2, <1>3, <1>4, <1>5, <1>6, <1>7
<1>12. /\ u \in WType /\ u.mod_str = m /\ u.armor = a /\ u.hitroll = h /\ u.flying = g /\ u.kept = k
       /\ u.surplus = s
       /\ u.contents = v.contents /\ u.wear_loc = v.wear_loc /\ u.enchanted = v.enchanted
       /\ u.marked = v.marked /\ u.lit = v.lit /\ u.file = v.file /\ u.light = v.light
  BY <1>8, <1>9 DEF WType
<1>13. Resets(v, u, c)
  BY <1>11, <1>12 DEF Resets
<1>14. HasNumbers(u, c, f)
  BY <1>10, <1>12 DEF HasNumbers
<1>15. QED
  BY <1>13, <1>14

LEMMA ResetsKeep ==
  ASSUME NEW v, Sound(v), NEW u, NEW c, Resets(v, u, c)
  PROVE  /\ Sound(u) /\ SameLight(v, u) /\ \A d \in Chars : d # c => AsBefore(v, u, d)
         /\ WornBy(u, c) = WornBy(v, c) /\ InUse(u, c) = InUse(v, c)
         /\ WornStr(u, c) = WornStr(v, c) /\ WornAC(u, c) = WornAC(v, c) /\ WornHit(u, c) = WornHit(v, c)
<1>1. \A d : Carried(u, d) = Carried(v, d) /\ WornBy(u, d) = WornBy(v, d)
  BY DEF Resets, Carried, WornBy
<1>2. \A d : InUse(u, d) = InUse(v, d) /\ Lamps(u, d) = Lamps(v, d)
  BY <1>1 DEF Resets, InUse, Lamps
<1>3. Listed(u) /\ Disjoint(u) /\ InHand(u) /\ Charmed(u) /\ u \in WType
  BY DEF Resets, Sound, Listed, Disjoint, InHand, Charmed
<1>4. Borne(u) /\ OneEach(u)
  BY <1>1 DEF Resets, Sound, Borne, OneEach
<1>5. Sound(u)
  BY <1>3, <1>4 DEF Sound
<1>6. SameLight(v, u)
  BY <1>2 DEF Resets, SameLight
<1>7. \A d \in Chars : d # c => AsBefore(v, u, d)
  BY <1>1 DEF Resets, AsBefore
<1>8. WornStr(u, c) = WornStr(v, c) /\ WornAC(u, c) = WornAC(v, c) /\ WornHit(u, c) = WornHit(v, c)
  BY <1>2 DEF Resets, WornStr, WornAC, WornHit
<1>9. QED
  BY <1>1, <1>2, <1>5, <1>6, <1>7, <1>8

(* Somebody whom all spells have left, and who wears nothing.               *)
Clean(v, u, c) ==
  /\ Sound(u) /\ SameLight(v, u) /\ \A d \in Chars : d # c => AsBefore(v, u, d)
  /\ WornBy(u, c) = {} /\ Balanced(u, c, {}) /\ Sourced(u, c, {}) /\ u.file = v.file

LEMMA Cleansing ==
  ASSUME scene \in Scenes, NEW v, Sound(v), NEW c \in Chars, in_room[c] \in Rooms, WornBy(v, c) = {},
         OneOfEach(affected[c]), Balanced(v, c, affected[c]), NEW u, u = Cleansed(v, c)
  PROVE  Clean(v, u, c)
<1>1. PICK s : s = FoldSet(LAMBDA a, x : Takes(x, c, a, TRUE), v, affected[c])
  OBVIOUS
<1>2. Ended(v, s, c, Cast(affected[c]))
  BY <1>1, EndsAll
<1>3. s \in WType /\ s.contents = v.contents /\ s.wear_loc = v.wear_loc /\ Still(v, s)
  BY <1>2 DEF Ended
<1>4. Sound(s) /\ WornBy(s, c) = {}
  BY <1>3, SoundSame, EqSame
<1>5. InUse(v, c) = {} /\ InUse(s, c) = {}
  BY <1>4, InUseIs
<1>6. s.mod_str[c] = 0
  <2>1. s.mod_str[c] = v.mod_str[c] - Cast(affected[c])
    BY <1>2 DEF Ended
  <2>2. WornStr(v, c) = 0 /\ v.mod_str[c] \in Int
    BY <1>5, WornTypes
  <2>3. v.mod_str[c] - WornStr(v, c) = Cast(affected[c])
    BY DEF Balanced, StrOf
  <2>4. QED
    BY <2>1, <2>2, <2>3
<1>7. PICK f : f = [mod_str |-> s.mod_str[c], armor |-> 100, hitroll |-> 0, flying |-> FALSE, kept |-> FALSE,
                    surplus |-> 0]
  OBVIOUS
<1>8. Numbers(f) /\ f.mod_str = 0 /\ f.armor = 100 /\ f.hitroll = 0 /\ ~f.flying /\ f.surplus = 0
  BY <1>6, <1>7 DEF Numbers
<1>9. u = With(s, c, f)
  <2>1. u = [s EXCEPT !.armor[c] = 100, !.hitroll[c] = 0, !.surplus[c] = 0,
                      !.flying[c] = FALSE, !.kept[c] = FALSE]
    BY <1>1 DEF Cleansed
  <2>2. s.mod_str \in [Chars -> Int]
    BY <1>3, Fields
  <2>3. [s.mod_str EXCEPT ![c] = s.mod_str[c]] = s.mod_str
    BY <2>2
  <2>4. PICK a : a = [s.armor EXCEPT ![c] = 100]
    OBVIOUS
  <2>5. PICK h : h = [s.hitroll EXCEPT ![c] = 0]
    OBVIOUS
  <2>6. PICK g : g = [s.flying EXCEPT ![c] = FALSE]
    OBVIOUS
  <2>7. PICK k : k = [s.kept EXCEPT ![c] = FALSE]
    OBVIOUS
  <2>8. PICK l : l = [s.surplus EXCEPT ![c] = 0]
    OBVIOUS
  <2>9. u = [s EXCEPT !.armor = a, !.hitroll = h, !.surplus = l, !.flying = g, !.kept = k]
    BY <1>3, <2>1, <2>4, <2>5, <2>6, <2>7, <2>8 DEF WType
  <2>10. With(s, c, f) = [s EXCEPT !.mod_str = s.mod_str, !.armor = a, !.hitroll = h, !.flying = g, !.kept = k,
                                   !.surplus = l]
    BY <1>3, <1>7, <2>3, <2>4, <2>5, <2>6, <2>7, <2>8 DEF With, WType
  <2>11. QED
    BY <1>3, <2>9, <2>10 DEF WType
<1>10. Resets(s, u, c) /\ HasNumbers(u, c, f)
  BY <1>3, <1>8, <1>9, Resetting
<1>11. /\ Sound(u) /\ SameLight(s, u) /\ \A d \in Chars : d # c => AsBefore(s, u, d)
       /\ WornBy(u, c) = {} /\ InUse(u, c) = {}
  BY <1>4, <1>5, <1>10, ResetsKeep
<1>12. SameLight(v, u)
  <2>1. \A d \in Chars : Lamps(s, d) = Lamps(v, d)
    <3>1. s.lit = v.lit /\ \A d : Carried(s, d) = Carried(v, d)
      BY <1>3 DEF Still, Carried
    <3>2. QED
      BY <1>3, <3>1 DEF Lamps
  <2>2. s.light = v.light
    BY <1>2 DEF Ended
  <2>3. QED
    BY <1>11, <2>1, <2>2 DEF SameLight
<1>13. ASSUME NEW d \in Chars, d # c PROVE AsBefore(v, u, d)
  <2>1. AsBefore(s, u, d)
    BY <1>11, <1>13
  <2>2. AsBefore(v, s, d)
    <3>1. s.lit = v.lit /\ s.enchanted = v.enchanted /\ s.surplus = v.surplus /\ s.file = v.file
      BY <1>3 DEF Still
    <3>2. /\ s.mod_str[d] = v.mod_str[d] /\ s.armor[d] = v.armor[d] /\ s.hitroll[d] = v.hitroll[d]
          /\ s.flying[d] = v.flying[d] /\ s.kept[d] = v.kept[d]
      BY <1>2, <1>13 DEF Ended
    <3>3. WornBy(s, d) = WornBy(v, d)
      BY <1>3, EqSame
    <3>4. QED
      BY <1>3, <3>1, <3>2, <3>3 DEF AsBefore
  <2>3. QED
    BY <2>1, <2>2 DEF AsBefore
<1>14. Balanced(u, c, {})
  <2>1. WornStr(u, c) = 0 /\ WornAC(u, c) = 0 /\ WornHit(u, c) = 0
    BY <1>11, WornTypes
  <2>2. Cast({}) = 0
    <3>1. {} \subseteq affected[c]
      OBVIOUS
    <3>2. OneOfEach({})
      BY <3>1, FewerEach
    <3>3. QED
      BY <3>2, CastType
  <2>3. QED
    BY <1>8, <1>10, <2>1, <2>2 DEF Balanced, StrOf, ArmOf, HitOf, HasNumbers
<1>15. Sourced(u, c, {})
  BY <1>8, <1>10 DEF Sourced, HasNumbers
<1>16. u.file = v.file
  BY <1>3, <1>10 DEF Resets, Still
<1>17. QED
  BY <1>11, <1>12, <1>13, <1>14, <1>15, <1>16 DEF Clean

-----------------------------------------------------------------------------
(* char_from_room and char_to_room.                                         *)
LightOnly(v, u) == Rest(v, u) /\ u.flying = v.flying /\ u.kept = v.kept

LEMMA LightOnlyKeeps ==
  ASSUME scene \in Scenes, NEW v, NEW at, NEW aff, Fits(v, at, aff), NEW u, LightOnly(v, u),
         NEW c \in Chars, NEW to, NEW eff, Beside(at, aff, to, eff, c), eff[c] = aff[c],
         to[c] = None => at[c] = None
  PROVE  Fits(u, to, eff) /\ \A d : Lamps(u, d) = Lamps(v, d) /\ WornBy(u, d) = WornBy(v, d)
<1>1. Sound(v) /\ Person(v, at, aff, c) /\ Rest(v, u) /\ u.flying = v.flying /\ u.kept = v.kept
  BY DEF Fits, LightOnly
<1>2. /\ Sound(u) /\ Even(v, u, c, 0, 0)
      /\ \A d : WornBy(u, d) = WornBy(v, d) /\ InUse(u, d) = InUse(v, d) /\ Lamps(u, d) = Lamps(v, d)
  BY <1>1, RestKeeps
<1>3. Aside(v, u, c)
  BY <1>1, RestAside
<1>4. u.surplus = v.surplus /\ u.file = v.file
  BY <1>1 DEF Rest, Still
<1>5. StrOf(v, c) \in Int /\ HitOf(v, c) \in Int
  BY <1>1, BalanceTypes
<1>6. Balanced(u, c, aff[c])
  BY <1>1, <1>2, <1>4, <1>5 DEF Person, Balanced, Even
<1>7. Sourced(u, c, aff[c])
  BY <1>1, <1>2 DEF Person, Sourced
<1>8. Person(u, to, eff, c)
  BY <1>1, <1>2, <1>4, <1>6, <1>7 DEF Person
<1>9. QED
  BY <1>2, <1>3, <1>8, OthersFit

LEMMA Leaving ==
  ASSUME NEW v \in WType, NEW c \in Chars, in_room[c] \in Rooms, NEW u, u = FromRoom(v, c)
  PROVE  /\ LightOnly(v, u) /\ (Lamps(v, c) = {} => u = v)
         /\ Lamps(v, c) # {} /\ v.light[in_room[c]] > 0 => Dimmer(v.light, u.light, in_room[c])
<1>1. v.light \in [Rooms -> Int]
  BY Fields
<1>2. CASE Lamps(v, c) # {} /\ v.light[in_room[c]] > 0
  <2>1. PICK g : g = [v.light EXCEPT ![in_room[c]] = @ - 1]
    OBVIOUS
  <2>2. u = [v EXCEPT !.light = g]
    BY <1>2, <2>1 DEF FromRoom, WType
  <2>3. g \in [Rooms -> Int]
    BY <1>1, <2>1
  <2>4. u \in WType /\ u.light = g
    BY <2>2, <2>3 DEF WType
  <2>5. LightOnly(v, u)
    BY <2>2, <2>4 DEF WType, LightOnly, Rest, Still
  <2>6. QED
    BY <1>2, <2>1, <2>4, <2>5 DEF Dimmer
<1>3. CASE ~(Lamps(v, c) # {} /\ v.light[in_room[c]] > 0)
  <2>1. u = v
    BY <1>3 DEF FromRoom
  <2>2. QED
    BY <1>3, <2>1 DEF LightOnly, Rest, Still
<1>4. QED
  BY <1>2, <1>3

LEMMA Entering ==
  ASSUME NEW v \in WType, NEW c \in Chars, NEW to \in Rooms, NEW u, u = ToRoom(v, c, to)
  PROVE  /\ LightOnly(v, u) /\ (Lamps(v, c) = {} => u = v)
         /\ Lamps(v, c) # {} => Dimmer(u.light, v.light, to)
<1>1. v.light \in [Rooms -> Int]
  BY Fields
<1>2. CASE Lamps(v, c) # {}
  <2>1. PICK g : g = [v.light EXCEPT ![to] = @ + 1]
    OBVIOUS
  <2>2. u = [v EXCEPT !.light = g]
    BY <1>2, <2>1 DEF ToRoom, WType
  <2>3. g \in [Rooms -> Int]
    BY <1>1, <2>1
  <2>4. u \in WType /\ u.light = g
    BY <2>2, <2>3 DEF WType
  <2>5. LightOnly(v, u)
    BY <2>2, <2>4 DEF WType, LightOnly, Rest, Still
  <2>6. Dimmer(g, v.light, to)
    <3>1. g[to] = v.light[to] + 1 /\ \A r \in Rooms : r # to => g[r] = v.light[r]
      BY <1>1, <2>1
    <3>2. PICK k : k = [g EXCEPT ![to] = @ - 1]
      OBVIOUS
    <3>3. k \in [Rooms -> Int] /\ \A r \in Rooms : k[r] = v.light[r]
      BY <1>1, <2>3, <3>1, <3>2
    <3>4. k = v.light
      BY <1>1, <3>3
    <3>5. QED
      BY <3>2, <3>4 DEF Dimmer
  <2>7. QED
    BY <1>2, <2>4, <2>5, <2>6
<1>3. CASE Lamps(v, c) = {}
  <2>1. u = v
    BY <1>3 DEF ToRoom
  <2>2. QED
    BY <1>3, <2>1 DEF LightOnly, Rest, Still
<1>4. QED
  BY <1>2, <1>3

(* Only c has gone: from a room to none, or from none.                      *)
Elsewhere(at, to, c) == \A d \in Chars : d # c => to[d] = at[d]

(* Somebody with one lamp leaves a room.                                    *)
LEMMA LampGone ==
  ASSUME scene \in Scenes, NEW v, Sound(v), NEW c \in Chars, ~TwoLamps(v, c), Lamps(v, c) # {},
         NEW at, at[c] \in Rooms, NEW to, to[c] \notin Rooms, Elsewhere(at, to, c)
  PROVE  OneLess(v, at, v, to, at[c])
<1>1. PICK o : o \in Lamps(v, c)
  OBVIOUS
<1>2. Lamps(v, c) = {o}
  <2>1. IsFiniteSet(Lamps(v, c))
    <3>1. Lamps(v, c) \subseteq Carried(v, c) /\ IsFiniteSet(Carried(v, c))
      BY CarriedIs, InUseIs
    <3>2. QED
      BY <3>1, FS_Subset
  <2>2. Cardinality(Lamps(v, c)) \in Nat /\ ~(Cardinality(Lamps(v, c)) > 1)
    BY <2>1, FS_CardinalityType DEF TwoLamps
  <2>3. PICK R : R = Lamps(v, c) \ {o}
    OBVIOUS
  <2>4. IsFiniteSet(R) /\ Cardinality(R) = Cardinality(Lamps(v, c)) - 1
    BY <1>1, <2>1, <2>3, FS_RemoveElement
  <2>5. Cardinality(R) \in Nat
    BY <2>4, FS_CardinalityType
  <2>6. Cardinality(R) = 0
    BY <2>2, <2>4, <2>5
  <2>7. R = {}
    BY <2>4, <2>6, FS_EmptySet
  <2>8. QED
    BY <1>1, <2>3, <2>7
<1>3. \A d \in Chars : o \in Lamps(v, d) => d = c
  BY <1>1, InUseIs, OneBearer
<1> SUFFICES ASSUME NEW q \in Rooms
             PROVE  Cardinality(LampsOf(v, at, q)) = Cardinality(LampsOf(v, to, q)) + (IF q = at[c] THEN 1 ELSE 0)
  BY DEF OneLess
<1>4. PICK A : A = LampsOf(v, at, q)
  OBVIOUS
<1>5. PICK B : B = LampsOf(v, to, q)
  OBVIOUS
<1>6. /\ \A p : p \in A <=> \E d \in Chars : at[d] = q /\ p \in Lamps(v, d)
      /\ IsFiniteSet(A) /\ Cardinality(A) \in Nat
  BY <1>4, LampsAre
<1>7. \A p : p \in B <=> \E d \in Chars : to[d] = q /\ p \in Lamps(v, d)
  BY <1>5, LampsAre
<1>8. \A d \in Chars : to[d] = q <=> at[d] = q /\ d # c
  BY DEF Elsewhere
<1>9. \A p : p \in B <=> p \in A /\ p # o
  BY <1>1, <1>2, <1>3, <1>6, <1>7, <1>8
<1>10. o \in A <=> at[c] = q
  BY <1>1, <1>3, <1>6
<1>11. CASE at[c] = q
  <2>1. B = A \ {o} /\ o \in A
    BY <1>9, <1>10, <1>11
  <2>2. Cardinality(B) = Cardinality(A) - 1
    BY <1>6, <2>1, FS_RemoveElement
  <2>3. QED
    BY <1>4, <1>5, <1>6, <1>11, <2>2
<1>12. CASE at[c] # q
  <2>1. B = A
    BY <1>9, <1>10, <1>12
  <2>2. QED
    BY <1>4, <1>5, <1>6, <1>12, <2>1
<1>13. QED
  BY <1>11, <1>12

(* Somebody without lamps comes and goes as nobody.                         *)
LEMMA DarkBright ==
  ASSUME scene \in Scenes, NEW v, Sound(v), NEW c \in Chars, Lamps(v, c) = {}, NEW at, NEW to, Elsewhere(at, to, c)
  PROVE  Bright(v, at) <=> Bright(v, to)
<1>1. ASSUME NEW q \in Rooms PROVE LampsOf(v, at, q) = LampsOf(v, to, q)
  <2>1. \A d \in Chars : \A p \in Lamps(v, d) : to[d] = q <=> at[d] = q
    BY DEF Elsewhere
  <2>2. \A p : p \in LampsOf(v, at, q) <=> p \in LampsOf(v, to, q)
    BY <2>1, LampsAre
  <2>3. QED
    BY <2>2
<1>2. QED
  BY <1>1 DEF Bright

(* Who leaves with one lamp at most leaves the rooms as light as they should be. *)
LEMMA SameLampsOf ==
  ASSUME NEW v, NEW u, \A d : Lamps(u, d) = Lamps(v, d)
  PROVE  /\ \A at, r : LampsOf(u, at, r) = LampsOf(v, at, r)
         /\ \A at, to, r : OneLess(v, at, v, to, r) => OneLess(v, at, u, to, r) /\ OneLess(u, at, v, to, r)
<1>1. \A at, r : LampsOf(u, at, r) = LampsOf(v, at, r)
  BY DEF LampsOf
<1> QED
  BY <1>1 DEF OneLess

LEMMA Departing ==
  ASSUME scene \in Scenes, NEW v, Sound(v), NEW c \in Chars, in_room[c] \in Rooms,
         NEW u, u = FromRoom(v, c), NEW to, Elsewhere(in_room, to, c), to[c] \notin Rooms,
         ~TwoLamps(v, c), Bright(v, in_room)
  PROVE  Bright(u, to)
<1>1. v \in WType
  BY DEF Sound
<1>2. /\ LightOnly(v, u) /\ (Lamps(v, c) = {} => u = v)
      /\ Lamps(v, c) # {} /\ v.light[in_room[c]] > 0 => Dimmer(v.light, u.light, in_room[c])
  BY <1>1, Leaving
<1>3. CASE Lamps(v, c) = {}
  BY <1>2, <1>3, DarkBright
<1>4. CASE Lamps(v, c) # {}
  <2>1. Rest(v, u)
    BY <1>2 DEF LightOnly
  <2>2. Sound(u) /\ \A d : Lamps(u, d) = Lamps(v, d)
    BY <2>1, RestKeeps
  <2>3. OneLess(v, in_room, v, to, in_room[c])
    BY <1>4, LampGone
  <2>4. OneLess(v, in_room, u, to, in_room[c])
    BY <2>2, <2>3, SameLampsOf
  <2>5. v.light[in_room[c]] > 0
    BY <2>2, <2>4, OneLessBright
  <2>6. Dimmer(v.light, u.light, in_room[c])
    BY <1>2, <1>4, <2>5
  <2> QED
    BY <2>2, <2>4, <2>6, OneLessBright
<1> QED
  BY <1>3, <1>4

(* Who comes in with one lamp at most brings the light of it. *)
LEMMA Arriving ==
  ASSUME scene \in Scenes, NEW v, Sound(v), NEW c \in Chars, NEW at, at[c] \notin Rooms,
         NEW to, to[c] \in Rooms, Elsewhere(at, to, c), NEW u, u = ToRoom(v, c, to[c]),
         ~TwoLamps(v, c), Bright(v, at)
  PROVE  Bright(u, to)
<1>1. v \in WType
  BY DEF Sound
<1>2. /\ LightOnly(v, u) /\ (Lamps(v, c) = {} => u = v)
      /\ Lamps(v, c) # {} => Dimmer(u.light, v.light, to[c])
  BY <1>1, Entering
<1>3. Elsewhere(to, at, c)
  BY DEF Elsewhere
<1>4. CASE Lamps(v, c) = {}
  BY <1>2, <1>4, DarkBright
<1>5. CASE Lamps(v, c) # {}
  <2>1. Rest(v, u)
    BY <1>2 DEF LightOnly
  <2>2. Sound(u) /\ \A d : Lamps(u, d) = Lamps(v, d)
    BY <2>1, RestKeeps
  <2>3. OneLess(v, to, v, at, to[c])
    BY <1>5, <1>3, LampGone
  <2>4. OneLess(u, to, v, at, to[c])
    BY <2>2, <2>3, SameLampsOf
  <2> QED
    BY <1>2, <1>5, <2>2, <2>4, OneLessBright
<1> QED
  BY <1>4, <1>5

(* char_from_room and char_to_room: the rest of the world stays as it is. *)
LEMMA Moving ==
  ASSUME scene \in Scenes, in_room \in [Chars -> Rooms \cup {None}],
         NEW v, NEW aff, Fits(v, in_room, aff), NEW c \in Chars, in_room[c] \in Rooms, NEW r \in Rooms,
         NEW u, u = Moved(v, c, r), NEW to, to = [in_room EXCEPT ![c] = r]
  PROVE  /\ Fits(u, to, aff) /\ \A d : Lamps(u, d) = Lamps(v, d) /\ WornBy(u, d) = WornBy(v, d)
         /\ ~TwoLamps(v, c) /\ Bright(v, in_room) => Bright(u, to)
         /\ Rest(v, u)
<1> DEFINE mid == [in_room EXCEPT ![c] = None]
           t == FromRoom(v, c)
<1>1. Sound(v) /\ v \in WType
  BY DEF Fits, Sound
<1>2. /\ mid[c] = None /\ mid[c] \notin Rooms /\ to[c] = r /\ to[c] \in Rooms
      /\ Elsewhere(in_room, mid, c) /\ Elsewhere(mid, to, c) /\ Elsewhere(in_room, to, c)
  BY Where DEF Elsewhere
<1>3. LightOnly(v, t)
  BY <1>1, Leaving
<1>4. Sound(t) /\ \A d : Lamps(t, d) = Lamps(v, d) /\ WornBy(t, d) = WornBy(v, d)
  BY <1>1, <1>3, RestKeeps DEF LightOnly
<1>5. u = ToRoom(t, c, r)
  BY DEF Moved
<1>6. LightOnly(t, u)
  BY <1>4, <1>5, Entering DEF Sound
<1>7. LightOnly(v, u)
  BY <1>3, <1>6 DEF LightOnly, Rest, Still
<1>8. Beside(in_room, aff, to, aff, c) /\ (to[c] = None => in_room[c] = None)
  BY <1>2, Where DEF Beside, Elsewhere
<1>9. /\ Fits(u, to, aff) /\ \A d : Lamps(u, d) = Lamps(v, d) /\ WornBy(u, d) = WornBy(v, d)
  <2>1. PICK eff : eff = aff
    OBVIOUS
  <2>2. PICK t2 : t2 = to
    OBVIOUS
  <2>3. Beside(in_room, aff, t2, eff, c) /\ eff[c] = aff[c]
    BY <1>8, <2>1, <2>2
  <2>4. t2[c] = None => in_room[c] = None
    BY <1>8, <2>2
  <2>5. Fits(u, t2, eff) /\ \A d : Lamps(u, d) = Lamps(v, d) /\ WornBy(u, d) = WornBy(v, d)
    BY <1>7, <2>3, <2>4, LightOnlyKeeps
  <2> QED
    BY <2>1, <2>2, <2>5
<1>10. TwoLamps(t, c) <=> TwoLamps(v, c)
  BY <1>4 DEF TwoLamps
<1>11. ASSUME ~TwoLamps(v, c), Bright(v, in_room) PROVE Bright(u, to)
  <2>1. Bright(t, mid)
    BY <1>1, <1>2, <1>11, Departing
  <2> QED
    BY <2>1, <1>2, <1>4, <1>5, <1>10, <1>11, Arriving
<1>12. Rest(v, u)
  BY <1>7 DEF LightOnly
<1>13. ~TwoLamps(v, c) /\ Bright(v, in_room) => Bright(u, to)
  BY <1>11
<1> HIDE DEF mid, t
<1> QED
  BY <1>9, <1>12, <1>13

(* A thing unworn that changes hands changes nothing else.                  *)
LEMMA RearrangedFits ==
  ASSUME scene \in Scenes, NEW v, Fits(v, in_room, affected), NEW u, Sound(u), Rearranged(v, u)
  PROVE  Onward(v, u)
<1>1. Sound(v)
  BY DEF Fits
<1>2. ASSUME NEW d \in Chars PROVE Person(u, in_room, affected, d)
  <2>1. InUse(u, d) = InUse(v, d) /\ Even(v, u, d, 0, 0)
    BY <1>1, RearrangedKeeps
  <2>2. Person(v, in_room, affected, d)
    BY DEF Fits
  <2>3. StrOf(v, d) \in Int /\ HitOf(v, d) \in Int
    BY <1>1, BalanceTypes
  <2>4. StrOf(u, d) = StrOf(v, d) /\ ArmOf(u, d) = ArmOf(v, d) /\ HitOf(u, d) = HitOf(v, d)
    BY <2>1, <2>3 DEF Even
  <2>5. /\ u.surplus = v.surplus /\ u.file = v.file /\ u.flying = v.flying /\ u.kept = v.kept
        /\ WornBy(u, d) = WornBy(v, d)
    BY DEF Rearranged, Still
  <2>6. Balanced(u, d, affected[d]) /\ Sourced(u, d, affected[d])
    BY <2>1, <2>2, <2>4, <2>5 DEF Person, Balanced, Sourced
  <2>7. QED
    BY <2>2, <2>5, <2>6 DEF Person
<1>3. \A d \in Chars : Lamps(u, d) = Lamps(v, d)
  BY <1>1, RearrangedKeeps
<1>4. SameLight(v, u)
  BY <1>3 DEF SameLight, Rearranged
<1>5. Bright(v, in_room) <=> Bright(u, in_room)
  BY <1>4, SameBright
<1>6. QED
  BY <1>2, <1>5 DEF Onward, Fits

LEMMA RearrangedTwice ==
  ASSUME NEW v, NEW u, NEW t, Rearranged(v, u), Rearranged(u, t)
  PROVE  Rearranged(v, t)
  BY DEF Rearranged, Still

(* What lies in a room or a corpse is worn by nobody.                       *)
LEMMA LyingUnworn ==
  ASSUME scene \in Scenes, NEW v, Sound(v), NEW h \in Holders, h \notin Chars, NEW o \in ToSet(v.contents[h])
  PROVE  v.wear_loc[o] = "none" /\ o \in Things
<1>1. o \in Things /\ o \in Objs
  BY ThingsAre DEF Sound, Listed
<1>2. ASSUME v.wear_loc[o] # "none" PROVE FALSE
  <2>1. PICK d \in Chars : o \in ToSet(v.contents[d])
    BY <1>1, <1>2 DEF Sound, Borne, Carried
  <2>2. d \in Holders /\ d # h
    BY Where
  <2>3. ToSet(v.contents[d]) \cap ToSet(v.contents[h]) = {}
    BY <2>2 DEF Sound, Disjoint
  <2>4. QED
    BY <2>1, <2>3
<1>3. QED
  BY <1>1, <1>2

(* get_obj                                                                  *)
LEMMA Getting ==
  ASSUME scene \in Scenes, NEW v, Fits(v, in_room, affected), NEW c \in Chars, in_room[c] \in Rooms,
         NEW h \in {in_room[c], Corpse}, NEW o \in ToSet(v.contents[h]),
         NEW u, u = Saved(PutIn(TakeOut(v, h, o), c, o), c)
  PROVE  Onward(v, u)
<1>1. Sound(v) /\ h \in Holders /\ h \notin Chars /\ c \in Holders
  BY Where DEF Fits
<1>2. v.wear_loc[o] = "none" /\ o \in Things
  BY <1>1, LyingUnworn
<1>3. PICK t : t = TakeOut(v, h, o)
  OBVIOUS
<1>4. TakenFrom(v, t, h, o)
  BY <1>1, <1>2, <1>3, TakingOut
<1>5. Sound(t) /\ Rearranged(v, t) /\ Nowhere(t, o)
  BY <1>4 DEF TakenFrom
<1>6. t.wear_loc[o] = "none"
  BY <1>2, <1>5 DEF Rearranged
<1>7. PICK s : s = PutIn(t, c, o)
  OBVIOUS
<1>8. PlacedIn(t, s, c, o)
  BY <1>1, <1>2, <1>5, <1>6, <1>7, PuttingIn
<1>9. Sound(s) /\ Rearranged(v, s)
  BY <1>5, <1>8, RearrangedTwice DEF PlacedIn
<1>10. Onward(v, s)
  BY <1>9, RearrangedFits
<1>11. u = Saved(s, c)
  BY <1>3, <1>7
<1>12. Onward(s, u)
  BY <1>10, <1>11, SavedFits DEF Onward
<1>13. QED
  BY <1>10, <1>12, OnwardTwice

(* drop_obj                                                                 *)
LEMMA Dropping ==
  ASSUME scene \in Scenes, NEW v, Fits(v, in_room, affected), NEW c \in Chars, in_room[c] \in Rooms,
         NEW o \in Carried(v, c), NEW u, u = Saved(Discarded(v, c, o, TRUE, AffectModify), c)
  PROVE  Onward(v, u)
<1>1. PICK s : s = Discarded(v, c, o, TRUE, AffectModify)
  OBVIOUS
<1>2. Onward(v, s)
  BY <1>1, Discarding
<1>3. Onward(s, u)
  BY <1>1, <1>2, SavedFits DEF Onward
<1>4. QED
  BY <1>2, <1>3, OnwardTwice

(* sheath: what is put into a scabbard is of no use there.                  *)
Stowed(v, o, loc) == [v EXCEPT !.wear_loc[o] = loc]

LEMMA Stowing ==
  ASSUME scene \in Scenes, NEW v, Fits(v, in_room, affected), NEW c \in Chars, in_room[c] \in Rooms,
         NEW o \in Carried(v, c), v.wear_loc[o] = "none", kit[o].type = "weapon",
         NEW loc \in Scabbards, \A p \in WornBy(v, c) : v.wear_loc[p] # loc,
         NEW u, u = Stowed(v, o, loc)
  PROVE  Onward(v, u)
<1>1. Sound(v) /\ v \in WType
  BY DEF Fits, Sound
<1>2. loc \in WearLocs /\ loc # "none" /\ loc \notin Hands
  BY Places DEF Wearable
<1>3. o \in Objs
  BY <1>1, CarriedIs, ThingsAre
<1>4. PICK f : f = [v.wear_loc EXCEPT ![o] = loc]
  OBVIOUS
<1>5. f \in [Objs -> WearLocs]
  BY <1>1, <1>2, <1>4, Fields
<1>6. u = [v EXCEPT !.wear_loc = f] /\ u \in WType
  BY <1>1, <1>4, <1>5 DEF WType, Stowed
<1>7. /\ u.contents = v.contents /\ Still(v, u) /\ u.wear_loc = f /\ u.mod_str = v.mod_str
      /\ u.armor = v.armor /\ u.hitroll = v.hitroll /\ u.flying = v.flying /\ u.kept = v.kept
      /\ u.light = v.light
  BY <1>1, <1>6 DEF WType, Still
<1>8. Relocated(v, u, c, o, loc)
  BY <1>2, <1>4, <1>6, <1>7 DEF Relocated
<1>10. Clad(v, u, c, o, loc) /\ Sound(u)
  BY <1>1, <1>2, <1>8, SoundRelocated, Cladding
<1>9. /\ Sound(u) /\ u.wear_loc[o] = loc /\ \A p \in Objs \ {o} : u.wear_loc[p] = v.wear_loc[p]
      /\ \A d \in Chars : Carried(u, d) = Carried(v, d)
  BY <1>10 DEF Clad
<1>11. o \notin WornBy(v, c) /\ \A p \in WornBy(v, c) : p \in Objs /\ p # o
  BY <1>1, InUseIs, CarriedIs, ThingsAre
<1>12. InUse(u, c) = InUse(v, c) /\ \A p \in InUse(v, c) : u.wear_loc[p] = v.wear_loc[p]
  <2>1. \A p \in WornBy(v, c) : u.wear_loc[p] = v.wear_loc[p]
    BY <1>9, <1>11
  <2>2. WornBy(u, c) = WornBy(v, c) \cup {o}
    BY <1>10 DEF Clad
  <2>3. ASSUME NEW p PROVE p \in InUse(u, c) <=> p \in InUse(v, c)
    <3>1. CASE p = o
      <4>1. u.wear_loc[o] \in Scabbards
        BY <1>9
      <4>2. o \notin InUse(u, c)
        BY <4>1, InUseIs
      <4>3. o \notin InUse(v, c)
        BY <1>11, InUseIs
      <4>4. QED
        BY <3>1, <4>2, <4>3
    <3>2. CASE p # o
      <4>1. p \in WornBy(u, c) <=> p \in WornBy(v, c)
        BY <2>2, <3>2
      <4>2. p \in WornBy(v, c) => u.wear_loc[p] = v.wear_loc[p]
        BY <2>1
      <4>3. QED
        BY <4>1, <4>2, InUseIs
    <3>3. QED
      BY <3>1, <3>2
  <2>4. QED
    BY <2>1, <2>3, InUseIs
<1>13. Even(v, u, c, 0, 0)
  <2>1. u.enchanted = v.enchanted
    BY <1>7 DEF Still
  <2>2. QED
    BY <1>1, <1>7, <1>9, <1>12, <2>1, UseKept
<1>14. Aside(v, u, c)
  <2>1. Carried(u, c) \subseteq Carried(v, c)
    BY <1>9
  <2>2. \A p \in Objs : p \notin Carried(v, c) => u.wear_loc[p] = v.wear_loc[p]
    BY <1>9
  <2>3. QED
    BY <1>7, <2>1, <2>2 DEF Aside
<1>15. SameLight(v, u)
  <2>1. ASSUME NEW d \in Chars PROVE Lamps(u, d) = Lamps(v, d)
    <3>1. \A p \in WornBy(v, d) : p \in Objs /\ p # o
      BY <1>1, <1>11, InUseIs, CarriedIs, ThingsAre
    <3>2. \A p \in WornBy(v, d) : u.wear_loc[p] = v.wear_loc[p]
      BY <1>9, <3>1
    <3>3. WornBy(u, d) = IF d = c THEN WornBy(v, d) \cup {o} ELSE WornBy(v, d)
      BY <1>10 DEF Clad
    <3>4. u.lit = v.lit
      BY <1>7 DEF Still
    <3>5. ASSUME NEW p PROVE p \in Lamps(u, d) <=> p \in Lamps(v, d)
      <4>1. CASE p = o
        <5>1. u.wear_loc[o] \notin Hands
          BY <1>2, <1>9
        <5>2. o \notin Lamps(u, d)
          BY <5>1, InUseIs
        <5>3. o \notin Lamps(v, d)
          BY <3>1, InUseIs
        <5>4. QED
          BY <4>1, <5>2, <5>3
      <4>2. CASE p # o
        <5>1. p \in WornBy(u, d) <=> p \in WornBy(v, d)
          BY <3>3, <4>2
        <5>2. p \in WornBy(v, d) => u.wear_loc[p] = v.wear_loc[p]
          BY <3>2
        <5>3. QED
          BY <3>4, <5>1, <5>2, InUseIs
      <4>3. QED
        BY <4>1, <4>2
    <3>6. QED
      BY <3>5
  <2>2. QED
    BY <1>7, <2>1 DEF SameLight
<1>16. Steady(v, u, c)
  BY <1>7, <1>9, <1>12, <1>13, <1>14, <1>15, SameBright DEF Steady, Sourced
<1>17. in_room[c] # None
  BY Where
<1>18. QED
  BY <1>16, <1>17, SteadyFits

LEMMA Sheathing ==
  ASSUME scene \in Scenes, NEW v, Fits(v, in_room, affected), NEW c \in Chars, in_room[c] \in Rooms,
         NEW hand \in Hands, NEW o, o = GetEqChar(v, c, hand), o # None,
         GetEqChar(v, c, Scabbard[hand]) = None, kit[o].type = "weapon", NEW found,
         NEW u, u = [Unequipped(v, c, o, found, AffectModify) EXCEPT !.wear_loc[o] = Scabbard[hand]]
  PROVE  Onward(v, u)
<1>1. Sound(v) /\ hand # "none" /\ Scabbard[hand] \in Scabbards /\ Scabbard[hand] # "none"
  BY Places DEF Fits
<1>2. EqIs(v, c, hand, o) /\ EqIs(v, c, Scabbard[hand], None)
  BY <1>1, EqChar
<1>3. o \in WornBy(v, c)
  BY <1>2 DEF EqIs
<1>4. PICK s : s = Unequipped(v, c, o, found, AffectModify)
  OBVIOUS
<1>5. Undone(v, s, c, o) /\ o \in Carried(s, c)
  BY <1>1, <1>3, <1>4, Unequipping
<1>6. Onward(v, s)
  BY <1>3, <1>4, UnequipFits
<1>7. s.wear_loc[o] = "none" /\ \A p \in WornBy(s, c) : p \in WornBy(v, c) /\ s.wear_loc[p] = v.wear_loc[p]
  BY <1>5 DEF Undone, Less
<1>8. \A p \in WornBy(s, c) : s.wear_loc[p] # Scabbard[hand]
  BY <1>2, <1>7 DEF EqIs
<1>9. PICK loc : loc = Scabbard[hand]
  OBVIOUS
<1>10. u = Stowed(s, o, loc)
  BY <1>4, <1>9 DEF Stowed
<1>11. loc \in Scabbards /\ \A p \in WornBy(s, c) : s.wear_loc[p] # loc
  BY <1>1, <1>8, <1>9
<1>12. Onward(s, u)
  <2>1. Fits(s, in_room, affected)
    BY <1>6 DEF Onward
  <2>2. o \in Carried(s, c) /\ s.wear_loc[o] = "none"
    BY <1>5, <1>7
  <2>3. QED
    BY <2>1, <2>2, <1>10, <1>11, Stowing
<1>13. QED
  BY <1>6, <1>12, OnwardTwice

LEMMA Drawing ==
  ASSUME scene \in Scenes, NEW v, Fits(v, in_room, affected), NEW c \in Chars, in_room[c] \in Rooms,
         NEW hand \in Hands, NEW o, o = GetEqChar(v, c, Scabbard[hand]), o # None,
         GetEqChar(v, c, hand) = None, NEW found, NEW zap,
         NEW u, u = Equipped([v EXCEPT !.wear_loc[o] = "none"], c, o, hand, found, zap)
  PROVE  Onward(v, u)
<1>1. /\ Sound(v) /\ hand # "none" /\ Scabbard[hand] \in Scabbards /\ Scabbard[hand] # "none"
      /\ hand \in Wearable /\ in_room[c] # None
  BY Places, Where DEF Fits
<1>2. EqIs(v, c, Scabbard[hand], o) /\ EqIs(v, c, hand, None)
  BY <1>1, EqChar
<1>3. o \in WornBy(v, c) /\ v.wear_loc[o] \in Scabbards
  BY <1>1, <1>2 DEF EqIs
<1>4. PICK s : s = [v EXCEPT !.wear_loc[o] = "none"]
  OBVIOUS
<1>5. Undone(v, s, c, o) /\ s.contents = v.contents
  BY <1>1, <1>3, <1>4, Unsheathed
<1>6. Onward(v, s)
  BY <1>1, <1>5, UndoneSteady, SteadyFits
<1>7. s.wear_loc[o] = "none" /\ \A p \in WornBy(s, c) : p \in WornBy(v, c) /\ s.wear_loc[p] = v.wear_loc[p]
  BY <1>5 DEF Undone, Less
<1>8. EqIs(s, c, hand, None)
  BY <1>2, <1>7 DEF EqIs
<1>9. o \in Carried(s, c)
  BY <1>3, <1>5, InUseIs DEF Carried
<1>10. Vacant(s, c, o, hand)
  BY <1>1, <1>7, <1>8, <1>9 DEF Vacant
<1>11. u = Equipped(s, c, o, hand, found, zap)
  BY <1>4
<1>12. Onward(s, u)
  BY <1>6, <1>10, <1>11, EquipFits DEF Onward
<1>13. QED
  BY <1>6, <1>12, OnwardTwice

(* What nobody wears may change its flags.                                  *)
Flagged(v, u, S) ==
  /\ u \in WType /\ u.contents = v.contents /\ u.wear_loc = v.wear_loc /\ u.mod_str = v.mod_str
  /\ u.armor = v.armor /\ u.hitroll = v.hitroll /\ u.flying = v.flying /\ u.kept = v.kept
  /\ u.light = v.light /\ u.surplus = v.surplus /\ u.file = v.file
  /\ \A p : p \notin S => (p \in u.enchanted <=> p \in v.enchanted) /\ (p \in u.lit <=> p \in v.lit)
  /\ \A p \in S : v.wear_loc[p] = "none"

LEMMA FlaggedBefore ==
  ASSUME scene \in Scenes, NEW v, Sound(v), NEW u, NEW S, Flagged(v, u, S), Charmed(u)
  PROVE  Sound(u) /\ SameLight(v, u) /\ \A d \in Chars : AsBefore(v, u, d)
<1>1. \A d : WornBy(u, d) = WornBy(v, d) /\ Carried(u, d) = Carried(v, d)
  BY DEF Flagged, WornBy, Carried
<1>2. \A d \in Chars : \A o \in WornBy(v, d) : o \notin S
  BY InUseIs DEF Flagged
<1>3. \A d \in Chars : AsBefore(v, u, d)
  BY <1>1, <1>2 DEF Flagged, AsBefore
<1>4. Sound(u)
  <2>1. u \in WType /\ u.contents = v.contents /\ u.wear_loc = v.wear_loc
    BY DEF Flagged
  <2>2. Listed(u) /\ Disjoint(u) /\ Borne(u) /\ OneEach(u) /\ InHand(u)
    BY <1>1, <2>1 DEF Sound, Listed, Disjoint, Borne, OneEach, InHand
  <2>3. QED
    BY <2>1, <2>2 DEF Sound
<1>5. SameLight(v, u)
  BY <1>3, BeforeIs DEF SameLight, Flagged
<1>6. QED
  BY <1>3, <1>4, <1>5

LEMMA FlaggedFits ==
  ASSUME scene \in Scenes, NEW v, NEW at, NEW aff, Fits(v, at, aff), NEW u, NEW S, Flagged(v, u, S), Charmed(u)
  PROVE  Fits(u, at, aff) /\ (Bright(v, at) <=> Bright(u, at))
<1>1. Sound(v)
  BY DEF Fits
<1>2. Sound(u) /\ SameLight(v, u) /\ \A d \in Chars : AsBefore(v, u, d)
  BY <1>1, FlaggedBefore
<1>3. None \notin Chars
  BY Where
<1>4. Beside(at, aff, at, aff, None)
  BY BesideNone
<1>5. Fits(u, at, aff)
  BY <1>2, <1>3, <1>4, AllFit
<1>6. QED
  BY <1>2, <1>5, SameBright

(* spell_enchant_weapon                                                     *)
LEMMA Enchanting ==
  ASSUME scene \in Scenes, NEW v, Sound(v), NEW o \in Objs, v.wear_loc[o] = "none",
         NEW u, u = [v EXCEPT !.enchanted = @ \cup {o}, !.marked = @ \cup {o}]
  PROVE  Flagged(v, u, {o}) /\ Charmed(u)
<1>1. v \in WType /\ Charmed(v)
  BY DEF Sound
<1>2. PICK e : e = v.enchanted \cup {o}
  OBVIOUS
<1>3. PICK m : m = v.marked \cup {o}
  OBVIOUS
<1>4. e \in SUBSET Objs /\ m \in SUBSET Objs
  BY <1>1, <1>2, <1>3, Fields
<1>5. u = [v EXCEPT !.enchanted = e, !.marked = m] /\ u \in WType
  BY <1>1, <1>2, <1>3, <1>4 DEF WType
<1>6. /\ u.contents = v.contents /\ u.wear_loc = v.wear_loc /\ u.mod_str = v.mod_str
      /\ u.armor = v.armor /\ u.hitroll = v.hitroll /\ u.flying = v.flying /\ u.kept = v.kept
      /\ u.light = v.light /\ u.surplus = v.surplus /\ u.file = v.file
      /\ u.enchanted = e /\ u.marked = m /\ u.lit = v.lit
  BY <1>1, <1>5 DEF WType
<1>7. Flagged(v, u, {o})
  <2>1. \A p : p \notin {o} => (p \in u.enchanted <=> p \in v.enchanted) /\ (p \in u.lit <=> p \in v.lit)
    BY <1>2, <1>6
  <2>2. \A p \in {o} : v.wear_loc[p] = "none"
    OBVIOUS
  <2>3. QED
    BY <1>5, <1>6, <2>1, <2>2 DEF Flagged
<1>8. Charmed(u)
  <2>1. u.enchanted \subseteq u.marked
    BY <1>1, <1>2, <1>3, <1>6 DEF Charmed
  <2>2. QED
    BY <1>1, <1>6, <2>1 DEF Charmed
<1>9. QED
  BY <1>7, <1>8

(* create_object                                                            *)
LEMMA Creating ==
  ASSUME scene \in Scenes, NEW v, Sound(v), NEW S, S \subseteq Unused(v), NEW u, u = Created(v, S)
  PROVE  Flagged(v, u, S) /\ Charmed(u) /\ \A p \in S : v.wear_loc[p] = "none" /\ p \in Things
<1>1. v \in WType /\ Charmed(v)
  BY DEF Sound
<1>2. \A p \in S : p \in Things /\ p \in Objs /\ v.wear_loc[p] = "none"
  <2>1. ASSUME NEW p \in S PROVE p \in Things /\ p \in Objs /\ v.wear_loc[p] = "none"
    <3>1. p \in Things /\ p \in Objs /\ \A h \in Holders : p \notin ToSet(v.contents[h])
      BY ThingsAre DEF Unused
    <3>2. \A d \in Chars : p \notin Carried(v, d)
      BY <3>1, Where DEF Carried
    <3>3. QED
      BY <3>1, <3>2 DEF Sound, Borne
  <2>2. QED
    BY <2>1
<1>3. PICK e : e = v.enchanted \ S
  OBVIOUS
<1>4. PICK m : m = v.marked \ S
  OBVIOUS
<1>5. PICK l : l = v.lit \cup {o \in S : kit[o].type = "light"}
  OBVIOUS
<1>6. e \in SUBSET Objs /\ m \in SUBSET Objs /\ l \in SUBSET Objs
  BY <1>1, <1>2, <1>3, <1>4, <1>5, Fields
<1>7. u = [v EXCEPT !.enchanted = e, !.marked = m, !.lit = l] /\ u \in WType
  BY <1>1, <1>3, <1>4, <1>5, <1>6 DEF WType, Created
<1>8. /\ u.contents = v.contents /\ u.wear_loc = v.wear_loc /\ u.mod_str = v.mod_str
      /\ u.armor = v.armor /\ u.hitroll = v.hitroll /\ u.flying = v.flying /\ u.kept = v.kept
      /\ u.light = v.light /\ u.surplus = v.surplus /\ u.file = v.file
      /\ u.enchanted = e /\ u.marked = m /\ u.lit = l
  BY <1>1, <1>7 DEF WType
<1>9. Flagged(v, u, S)
  <2>1. \A p : p \notin S => (p \in u.enchanted <=> p \in v.enchanted) /\ (p \in u.lit <=> p \in v.lit)
    BY <1>3, <1>5, <1>8
  <2>2. \A p \in S : v.wear_loc[p] = "none"
    BY <1>2
  <2>3. QED
    BY <1>7, <1>8, <2>1, <2>2 DEF Flagged
<1>10. Charmed(u)
  <2>1. u.enchanted \subseteq u.marked
    BY <1>1, <1>3, <1>4, <1>8 DEF Charmed
  <2>2. \A o \in u.lit : o \in Things /\ kit[o].type = "light"
    BY <1>1, <1>2, <1>5, <1>8 DEF Charmed
  <2>3. QED
    BY <2>1, <2>2 DEF Charmed
<1>11. QED
  BY <1>2, <1>9, <1>10

LEMMA Unenchanted ==
  ASSUME scene \in Scenes, NEW v, Fits(v, in_room, affected), NEW o \in Objs, v.wear_loc[o] = "none",
         NEW u, u = [v EXCEPT !.enchanted = @ \cup {o}, !.marked = @ \cup {o}]
  PROVE  Onward(v, u)
<1>1. Flagged(v, u, {o}) /\ Charmed(u)
  BY Enchanting DEF Fits
<1>2. PICK S : S = {o}
  OBVIOUS
<1>3. Flagged(v, u, S) /\ Charmed(u)
  BY <1>1, <1>2
<1>4. QED
  BY <1>3, FlaggedFits DEF Onward

(* An object created and put into a room.                                   *)
LEMMA Loading ==
  ASSUME scene \in Scenes, NEW v, Fits(v, in_room, affected), NEW r \in Rooms, NEW o \in Unused(v),
         NEW u, u = PutIn(Created(v, {o}), r, o)
  PROVE  Onward(v, u)
<1>1. Sound(v) /\ r \in Holders
  BY Where DEF Fits
<1>2. PICK S : S = {o}
  OBVIOUS
<1>3. S \subseteq Unused(v)
  BY <1>2
<1>4. PICK s : s = Created(v, S)
  OBVIOUS
<1>5. Flagged(v, s, S) /\ Charmed(s) /\ \A p \in S : v.wear_loc[p] = "none" /\ p \in Things
  BY <1>1, <1>3, <1>4, Creating
<1>6. Onward(v, s)
  BY <1>5, FlaggedFits DEF Onward
<1>7. Sound(s) /\ s.contents = v.contents /\ s.wear_loc = v.wear_loc
  BY <1>5, <1>6 DEF Onward, Fits, Flagged
<1>8. o \in Things /\ Nowhere(s, o) /\ s.wear_loc[o] = "none"
  BY <1>2, <1>5, <1>7 DEF Unused, Nowhere
<1>9. u = PutIn(s, r, o)
  BY <1>2, <1>4
<1>10. PlacedIn(s, u, r, o)
  BY <1>1, <1>7, <1>8, <1>9, PuttingIn
<1>11. Onward(s, u)
  BY <1>6, <1>10, RearrangedFits DEF Onward, PlacedIn
<1>12. QED
  BY <1>6, <1>11, OnwardTwice

(* extract_obj                                                              *)
LEMMA Unlisting ==
  ASSUME scene \in Scenes, NEW v, Fits(v, in_room, affected), NEW h \in Holders, NEW o \in ToSet(v.contents[h]),
         v.wear_loc[o] = "none", NEW u, u = TakeOut(v, h, o)
  PROVE  Onward(v, u)
<1>1. Sound(v)
  BY DEF Fits
<1>2. TakenFrom(v, u, h, o)
  BY <1>1, TakingOut
<1>3. QED
  BY <1>2, RearrangedFits DEF TakenFrom

LEMMA Vanishing ==
  ASSUME scene \in Scenes, in_room \in [Chars -> Rooms \cup {None}],
         NEW v, Fits(v, in_room, affected), NEW h \in Holders, NEW o \in ToSet(v.contents[h]), NEW found,
         NEW u, u = IF h \in Chars THEN FromChar(v, h, o, found, AffectModify) ELSE TakeOut(v, h, o)
  PROVE  Onward(v, u)
<1>1. Sound(v)
  BY DEF Fits
<1>2. CASE h \notin Chars
  <2>1. v.wear_loc[o] = "none"
    BY <1>1, <1>2, LyingUnworn
  <2>2. u = TakeOut(v, h, o)
    BY <1>2
  <2>3. QED
    BY <2>1, <2>2, Unlisting
<1>3. CASE h \in Chars /\ v.wear_loc[o] = "none"
  <2>1. u = TakeOut(v, h, o)
    BY <1>3 DEF FromChar
  <2>2. QED
    BY <1>3, <2>1, Unlisting
<1>4. CASE h \in Chars /\ v.wear_loc[o] # "none"
  <2>1. o \in Carried(v, h) /\ o \in WornBy(v, h)
    BY <1>4, InUseIs DEF Carried
  <2>2. in_room[h] \in Rooms /\ in_room[h] # None
    BY <1>4, <2>1, Where DEF Fits, Person
  <2>3. u = FromChar(v, h, o, found, AffectModify)
    BY <1>4
  <2>4. Undone(v, u, h, o)
    BY <1>1, <1>4, <2>1, <2>2, <2>3, FromCharTakes
  <2>5. Steady(v, u, h)
    BY <1>1, <1>4, <2>2, <2>4, UndoneSteady
  <2>6. QED
    BY <1>4, <2>2, <2>5, SteadyFits
<1>5. QED
  BY <1>2, <1>3, <1>4

(* char_update: the lamp goes out in its hand.                              *)
Dulled(v, u, o, r) ==
  /\ u \in WType /\ u.contents = v.contents /\ u.wear_loc = v.wear_loc /\ u.mod_str = v.mod_str
  /\ u.armor = v.armor /\ u.hitroll = v.hitroll /\ u.flying = v.flying /\ u.kept = v.kept
  /\ u.enchanted = v.enchanted /\ u.marked = v.marked /\ u.surplus = v.surplus /\ u.file = v.file
  /\ u.lit = v.lit \ {o} /\ Dimmer(v.light, u.light, r)

LEMMA Dulling ==
  ASSUME NEW v \in WType, NEW r \in Rooms, NEW o,
         NEW u, u = [v EXCEPT !.lit = @ \ {o}, !.light[r] = @ - 1]
  PROVE  Dulled(v, u, o, r)
<1>1. PICK l : l = v.lit \ {o}
  OBVIOUS
<1>2. PICK f : f = [v.light EXCEPT ![r] = @ - 1]
  OBVIOUS
<1>3. l \in SUBSET Objs /\ f \in [Rooms -> Int]
  BY <1>1, <1>2, Fields
<1>4. u = [v EXCEPT !.lit = l, !.light = f] /\ u \in WType
  BY <1>1, <1>2, <1>3 DEF WType
<1>5. /\ u.contents = v.contents /\ u.wear_loc = v.wear_loc /\ u.mod_str = v.mod_str
      /\ u.armor = v.armor /\ u.hitroll = v.hitroll /\ u.flying = v.flying /\ u.kept = v.kept
      /\ u.enchanted = v.enchanted /\ u.marked = v.marked /\ u.surplus = v.surplus /\ u.file = v.file
      /\ u.lit = l /\ u.light = f
  BY <1>4 DEF WType
<1>6. Dimmer(v.light, u.light, r)
  BY <1>2, <1>5 DEF Dimmer
<1>7. QED
  BY <1>1, <1>4, <1>5, <1>6 DEF Dulled

LEMMA DulledFits ==
  ASSUME scene \in Scenes, NEW v, Fits(v, in_room, affected), NEW c \in Chars, in_room[c] \in Rooms,
         NEW o \in Lamps(v, c), NEW u, Dulled(v, u, o, in_room[c])
  PROVE  Onward(v, u)
<1>1. Sound(v)
  BY DEF Fits
<1>2. \A d : WornBy(u, d) = WornBy(v, d) /\ Carried(u, d) = Carried(v, d)
  BY DEF Dulled, WornBy, Carried
<1>3. \A d : InUse(u, d) = InUse(v, d)
  BY <1>2 DEF Dulled, InUse
<1>4. \A d : WornStr(u, d) = WornStr(v, d) /\ WornAC(u, d) = WornAC(v, d) /\ WornHit(u, d) = WornHit(v, d)
  BY <1>3 DEF Dulled, WornStr, WornAC, WornHit
<1>5. Sound(u)
  <2>1. u \in WType /\ u.contents = v.contents /\ u.wear_loc = v.wear_loc
    BY DEF Dulled
  <2>2. Listed(u) /\ Disjoint(u) /\ Borne(u) /\ OneEach(u) /\ InHand(u)
    BY <1>1, <1>2, <2>1 DEF Sound, Listed, Disjoint, Borne, OneEach, InHand
  <2>3. Charmed(u)
    BY <1>1 DEF Sound, Charmed, Dulled
  <2>4. QED
    BY <2>1, <2>2, <2>3 DEF Sound
<1>6. ASSUME NEW d \in Chars PROVE Person(u, in_room, affected, d)
  <2>1. Person(v, in_room, affected, d)
    BY DEF Fits
  <2>2. StrOf(u, d) = StrOf(v, d) /\ ArmOf(u, d) = ArmOf(v, d) /\ HitOf(u, d) = HitOf(v, d)
    BY <1>4 DEF Dulled, StrOf, ArmOf, HitOf
  <2>3. Balanced(u, d, affected[d]) /\ Sourced(u, d, affected[d])
    BY <1>3, <2>1, <2>2 DEF Person, Balanced, Sourced, Dulled
  <2>4. QED
    BY <1>2, <2>1, <2>3 DEF Person, Dulled
<1>7. NoLamp(v, u, o)
  <2>1. ASSUME NEW d \in Chars, NEW p PROVE p \in Lamps(u, d) <=> p \in Lamps(v, d) \ {o}
    BY <1>2, InUseIs DEF Dulled
  <2>2. QED
    BY <2>1 DEF NoLamp
<1>8. OneLess(v, in_room, u, in_room, in_room[c])
  BY <1>1, <1>7, LampOut
<1>9. Bright(v, in_room) <=> Bright(u, in_room)
  BY <1>1, <1>5, <1>8, OneLessBright DEF Dulled
<1>10. QED
  BY <1>5, <1>6, <1>9 DEF Onward, Fits

LEMMA BurningOut ==
  ASSUME scene \in Scenes, NEW v, Fits(v, in_room, affected), NEW c \in Chars, in_room[c] \in Rooms,
         NEW o \in Lamps(v, c), NEW found,
         NEW u, u = FromChar([v EXCEPT !.lit = @ \ {o}, !.light[in_room[c]] = @ - 1], c, o, found, AffectModify)
  PROVE  Onward(v, u)
<1>1. Sound(v) /\ v \in WType /\ in_room[c] # None
  BY Where DEF Fits, Sound
<1>2. PICK s : s = [v EXCEPT !.lit = @ \ {o}, !.light[in_room[c]] = @ - 1]
  OBVIOUS
<1>3. Dulled(v, s, o, in_room[c])
  BY <1>1, <1>2, Dulling
<1>4. Onward(v, s)
  BY <1>3, DulledFits
<1>5. Sound(s) /\ Fits(s, in_room, affected)
  BY <1>4 DEF Onward, Fits
<1>6. o \in Carried(s, c)
  BY <1>3, InUseIs DEF Dulled, Carried
<1>7. u = FromChar(s, c, o, found, AffectModify)
  BY <1>2
<1>8. Undone(s, u, c, o)
  BY <1>5, <1>6, <1>7, FromCharTakes
<1>9. Onward(s, u)
  BY <1>1, <1>5, <1>8, UndoneSteady, SteadyFits
<1>10. QED
  BY <1>4, <1>9, OnwardTwice

(* A world in which nobody wears anything and every number is a new         *)
(* player's.                                                                *)
Nobody(u) ==
  /\ \A o \in Objs : u.wear_loc[o] = "none"
  /\ \A c \in Chars :
       /\ u.mod_str[c] = 0 /\ u.armor[c] = 100 /\ u.hitroll[c] = 0 /\ u.surplus[c] = 0
       /\ u.flying[c] = FALSE
  /\ \A r \in Rooms : u.light[r] = 0
Bare(u) == u \in WType /\ Listed(u) /\ Disjoint(u) /\ Charmed(u) /\ Nobody(u)

LEMMA BlankPerson ==
  ASSUME scene \in Scenes, NEW u, Sound(u), NEW c \in Chars, WornBy(u, c) = {},
         u.mod_str[c] = 0, u.armor[c] = 100, u.hitroll[c] = 0, u.surplus[c] = 0, u.flying[c] = FALSE
  PROVE  OneOfEach({}) /\ Balanced(u, c, {}) /\ Sourced(u, c, {})
<1>1. PICK S : S = {}
  OBVIOUS
<1>2. IsFiniteSet(S)
  BY <1>1, FS_EmptySet
<1>3. OneOfEach(S)
  BY <1>1, <1>2 DEF OneOfEach
<1>4. Cast(S) = 0
  BY <1>1, <1>3, CastType
<1>5. InUse(u, c) = {}
  BY InUseIs
<1>6. WornStr(u, c) = 0 /\ WornAC(u, c) = 0 /\ WornHit(u, c) = 0
  BY <1>5, WornTypes
<1>7. Balanced(u, c, S)
  BY <1>4, <1>6 DEF Balanced, StrOf, ArmOf, HitOf
<1>8. Sourced(u, c, S)
  BY DEF Sourced
<1>9. QED
  BY <1>1, <1>3, <1>7, <1>8

LEMMA BareFits ==
  ASSUME scene \in Scenes, NEW u, Bare(u), \A c \in Chars : FileFits(u.file[c]), NEW at,
         NEW aff, \A c \in Chars : aff[c] = {}
  PROVE  Fits(u, at, aff) /\ Bright(u, at)
<1>1. \A c \in Chars : WornBy(u, c) = {}
  <2>1. ASSUME NEW c \in Chars, NEW o \in WornBy(u, c) PROVE FALSE
    <3>1. o \in ToSet(u.contents[c]) /\ u.wear_loc[o] # "none"
      BY <2>1, InUseIs DEF Carried
    <3>2. o \in Objs
      BY <3>1, Where, ThingsAre DEF Bare, Listed
    <3>3. QED
      BY <3>1, <3>2 DEF Bare, Nobody
  <2>2. QED
    BY <2>1
<1>2. Sound(u)
  <2>1. Borne(u)
    BY DEF Bare, Nobody, Borne
  <2>2. OneEach(u)
    BY <1>1 DEF OneEach
  <2>3. InHand(u)
    BY ThingsAre DEF Bare, Nobody, InHand
  <2>4. QED
    BY <2>1, <2>2, <2>3 DEF Bare, Sound
<1>3. ASSUME NEW c \in Chars PROVE Person(u, at, aff, c)
  <2>1. /\ u.mod_str[c] = 0 /\ u.armor[c] = 100 /\ u.hitroll[c] = 0 /\ u.surplus[c] = 0
        /\ u.flying[c] = FALSE
    BY DEF Bare, Nobody
  <2>2. OneOfEach({}) /\ Balanced(u, c, {}) /\ Sourced(u, c, {})
    BY <1>1, <1>2, <2>1, BlankPerson
  <2>3. QED
    BY <1>1, <2>2 DEF Person
<1>4. ASSUME NEW r \in Rooms PROVE u.light[r] = Cardinality(LampsOf(u, at, r))
  <2>1. \A c \in Chars : Lamps(u, c) = {}
    BY <1>1, InUseIs
  <2>2. \A o : o \notin LampsOf(u, at, r)
    BY <1>2, <2>1, LampsAre
  <2>3. LampsOf(u, at, r) = {}
    BY <2>2
  <2>4. Cardinality(LampsOf(u, at, r)) = 0
    BY <2>3, FS_EmptySet
  <2>5. QED
    BY <2>4 DEF Bare, Nobody
<1>5. QED
  BY <1>2, <1>3, <1>4 DEF Fits, Bright

(* A player who has nothing has a file that adds up.                        *)
LEMMA BlankFits == FileFits(Blank)
<1>1. PICK f : f = Blank
  OBVIOUS
<1>2. /\ f.things = <<>> /\ f.mod_str = 0 /\ f.armor = 100 /\ f.hitroll = 0 /\ f.flying = FALSE
      /\ f.kept = FALSE /\ f.affected = {} /\ f.in_room = Altar /\ f.surplus = 0
  BY <1>1 DEF Blank
<1>3. f \in FileType
  <2>1. <<>> \in Seq(FileThing)
    OBVIOUS
  <2>2. QED
    BY <1>1, <2>1, Where DEF Blank, FileType
<1>4. PICK S : S = {}
  OBVIOUS
<1>5. IsFiniteSet(S)
  BY <1>4, FS_EmptySet
<1>6. OneOfEach(S)
  BY <1>4, <1>5 DEF OneOfEach
<1>7. Cast(S) = 0
  BY <1>4, <1>6, CastType
<1>8. DOMAIN f.things = {}
  BY <1>2
<1>9. UsedIn(f) = S
  BY <1>4, <1>8 DEF UsedIn
<1>10. SumOf([i \in UsedIn(f) |-> SumOf(f.things[i].kit.affects)]) = 0
  <2>1. PICK g : g = [i \in S |-> SumOf(f.things[i].kit.affects)]
    OBVIOUS
  <2>2. g \in [S -> Int]
    BY <1>4, <2>1
  <2>3. SumOf(g) = 0
    BY <1>4, <1>5, <2>2, SumType
  <2>4. QED
    BY <1>9, <2>1, <2>3
<1>11. SumOf([i \in UsedIn(f) |-> ACOf(f.things[i].kit, f.things[i].wear_loc)]) = 0
  <2>1. PICK g : g = [i \in S |-> ACOf(f.things[i].kit, f.things[i].wear_loc)]
    OBVIOUS
  <2>2. g \in [S -> Int]
    BY <1>4, <2>1
  <2>3. SumOf(g) = 0
    BY <1>4, <1>5, <2>2, SumType
  <2>4. QED
    BY <1>9, <2>1, <2>3
<1>12. FileSums(f)
  BY <1>2, <1>4, <1>7, <1>10, <1>11 DEF FileSums
<1>13. FileHands(f) /\ FilePlaces(f)
  BY <1>8 DEF FileHands, FilePlaces
<1>14. FilePowers(f)
  BY <1>2 DEF FilePowers
<1>15. QED
  BY <1>1, <1>2, <1>3, <1>4, <1>6, <1>12, <1>13, <1>14 DEF FileFits

(* The process starts again with what the files hold.                       *)
LEMMA Restarted ==
  ASSUME scene \in Scenes, NEW F, F \in [Chars -> FileType], \A c \in Chars : FileFits(F[c]),
         NEW u, u = [Empty EXCEPT !.file = F], NEW at, NEW aff, \A c \in Chars : aff[c] = {}
  PROVE  Fits(u, at, aff) /\ Bright(u, at)
<1>1. /\ u.contents = [h \in Holders |-> <<>>] /\ u.wear_loc = [o \in Objs |-> "none"]
      /\ u.mod_str = [c \in Chars |-> 0] /\ u.armor = [c \in Chars |-> 100]
      /\ u.flying = [c \in Chars |-> FALSE] /\ u.kept = [c \in Chars |-> FALSE]
      /\ u.hitroll = [c \in Chars |-> 0] /\ u.enchanted = {} /\ u.marked = {}
      /\ u.surplus = [c \in Chars |-> 0] /\ u.file = F /\ u.lit = {} /\ u.light = [r \in Rooms |-> 0]
  BY DEF Empty
<1>2. u \in WType
  <2>1. u = [contents |-> u.contents, wear_loc |-> u.wear_loc, mod_str |-> u.mod_str, armor |-> u.armor,
             flying |-> u.flying, kept |-> u.kept, hitroll |-> u.hitroll, enchanted |-> u.enchanted,
             marked |-> u.marked, surplus |-> u.surplus, file |-> u.file, lit |-> u.lit, light |-> u.light]
    BY DEF Empty
  <2>2. <<>> \in Seq(Objs) /\ "none" \in WearLocs
    BY Places
  <2>3. u.contents \in [Holders -> Seq(Objs)]
    <3>1. PICK e : e = <<>>
      OBVIOUS
    <3>2. e \in Seq(Objs)
      BY <2>2, <3>1
    <3>3. PICK f : f = [h \in Holders |-> e]
      OBVIOUS
    <3>4. f \in [Holders -> Seq(Objs)]
      BY <3>2, <3>3
    <3>5. u.contents = f
      BY <1>1, <3>1, <3>3
    <3>6. QED
      BY <3>4, <3>5
  <2>4. u.wear_loc \in [Objs -> WearLocs]
    BY <1>1, <2>2
  <2>5. u.mod_str \in [Chars -> Int] /\ u.armor \in [Chars -> Int]
    BY <1>1
  <2>6. u.hitroll \in [Chars -> Int] /\ u.surplus \in [Chars -> Int] /\ u.light \in [Rooms -> Int]
    BY <1>1
  <2>7. [c \in Chars |-> FALSE] \in [Chars -> BOOLEAN]
    OBVIOUS
  <2>8. u.flying \in [Chars -> BOOLEAN] /\ u.kept \in [Chars -> BOOLEAN]
    <3>1. u.flying = [c \in Chars |-> FALSE] /\ u.kept = [c \in Chars |-> FALSE]
      BY <1>1
    <3>2. QED
      BY <2>7, <3>1
  <2>9. /\ u.enchanted \in SUBSET Objs /\ u.marked \in SUBSET Objs /\ u.lit \in SUBSET Objs
        /\ u.file \in [Chars -> FileType]
    BY <1>1
  <2>10. QED
    BY <2>1, <2>3, <2>4, <2>5, <2>6, <2>7, <2>8, <2>9 DEF WType
<1>3. \A h \in Holders : u.contents[h] = <<>> /\ ToSet(u.contents[h]) = {} /\ IsInjective(u.contents[h])
  BY <1>1 DEF ToSet, IsInjective
<1>4. Listed(u) /\ Disjoint(u)
  BY <1>3 DEF Listed, Disjoint
<1>5. Charmed(u)
  BY <1>1 DEF Charmed
<1>6. Nobody(u)
  BY <1>1 DEF Nobody
<1>7. Bare(u)
  BY <1>2, <1>4, <1>5, <1>6 DEF Bare
<1>8. \A c \in Chars : FileFits(u.file[c])
  BY <1>1
<1>9. QED
  BY <1>7, <1>8, BareFits

LEMMA EmptyIs ==
  ASSUME scene \in Scenes
  PROVE  Bare(Empty) /\ Empty.file = [c \in Chars |-> Blank] /\ \A c \in Chars : FileFits(Empty.file[c])
<1>1. PICK F : F = [c \in Chars |-> Blank]
  OBVIOUS
<1>2. \A c \in Chars : FileFits(F[c])
  BY <1>1, BlankFits
<1>3. F \in [Chars -> FileType]
  <2>1. Blank \in FileType
    BY BlankFits DEF FileFits
  <2>2. QED
    BY <1>1, <2>1
<1>4. PICK u : u = [Empty EXCEPT !.file = F]
  OBVIOUS
<1>5. u = Empty /\ u.file = F
  BY <1>1, <1>4 DEF Empty
<1>6. PICK aff : aff = [c \in Chars |-> {}]
  OBVIOUS
<1>7. Fits(u, in_room, aff)
  <2>1. \A c \in Chars : aff[c] = {}
    BY <1>6
  <2>2. QED
    BY <1>2, <1>3, <1>4, <2>1, Restarted
<1>8. Sound(Empty)
  BY <1>5, <1>7 DEF Fits
<1>9. Nobody(Empty)
  <2>1. \A o \in Objs : Empty.wear_loc[o] = "none"
    BY DEF Empty
  <2>2. \A c \in Chars : /\ Empty.mod_str[c] = 0 /\ Empty.armor[c] = 100 /\ Empty.hitroll[c] = 0
                         /\ Empty.surplus[c] = 0 /\ Empty.flying[c] = FALSE
    BY DEF Empty
  <2>3. \A r \in Rooms : Empty.light[r] = 0
    BY DEF Empty
  <2>4. QED
    BY <2>1, <2>2, <2>3 DEF Nobody
<1>10. QED
  BY <1>1, <1>2, <1>5, <1>8, <1>9 DEF Bare, Sound

(* A set in some order.                                                     *)
LEMMA SomeOrder ==
  ASSUME NEW S, IsFiniteSet(S), S \subseteq Objs, NEW s, s = SetToSeq(S)
  PROVE  s \in Seq(Objs) /\ IsInjective(s) /\ ToSet(s) \subseteq S
<1>1. PICK n : n = Cardinality(S)
  OBVIOUS
<1>2. n \in Nat
  BY <1>1, FS_CardinalityType
<1>3. ExistsBijection(1 .. n, S)
  BY <1>1, FS_CardinalityType
<1>4. PICK g : g \in Bijection(1 .. n, S)
  BY <1>3 DEF ExistsBijection
<1>5. g \in [1 .. n -> S] /\ IsInjective(g)
  BY <1>4 DEF Bijection, Injection, IsInjective
<1>6. s \in [1 .. n -> S] /\ IsInjective(s)
  BY <1>1, <1>5 DEF SetToSeq
<1>7. s \in Seq(S)
  BY <1>2, <1>6
<1>8. s \in Seq(Objs) /\ DOMAIN s = 1 .. n
  BY <1>6, <1>7, SeqMonotonic
<1>9. ToSet(s) \subseteq S
  BY <1>6, <1>8 DEF ToSet
<1>10. QED
  BY <1>6, <1>8, <1>9

(* boot_db: everything lies in one room.                                    *)
LEMMA Starting ==
  ASSUME scene \in Scenes,
         NEW u, u = [Empty EXCEPT !.contents[Altar] = SetToSeq(Things),
                                  !.lit = {o \in Things : kit[o].type = "light"}],
         NEW at, NEW aff, \A c \in Chars : aff[c] = {}
  PROVE  Fits(u, at, aff) /\ Bright(u, at)
<1>1. Bare(Empty) /\ Empty \in WType /\ \A c \in Chars : FileFits(Empty.file[c])
  BY EmptyIs DEF Bare
<1>2. PICK s : s = SetToSeq(Things)
  OBVIOUS
<1>3. s \in Seq(Objs) /\ IsInjective(s) /\ ToSet(s) \subseteq Things
  BY <1>2, ThingsAre, SomeOrder
<1>4. PICK l : l = {o \in Things : kit[o].type = "light"}
  OBVIOUS
<1>5. PICK f : f = [Empty.contents EXCEPT ![Altar] = s]
  OBVIOUS
<1>6. Empty.contents \in [Holders -> Seq(Objs)] /\ Altar \in Holders
  BY <1>1, Fields, Where
<1>7. f \in [Holders -> Seq(Objs)] /\ l \in SUBSET Objs
  BY <1>3, <1>4, <1>5, <1>6, ThingsAre
<1>8. u = [Empty EXCEPT !.contents = f, !.lit = l]
  BY <1>1, <1>2, <1>4, <1>5 DEF WType
<1>9. /\ u \in WType /\ u.contents = f /\ u.lit = l /\ u.wear_loc = Empty.wear_loc
      /\ u.mod_str = Empty.mod_str /\ u.armor = Empty.armor /\ u.hitroll = Empty.hitroll
      /\ u.surplus = Empty.surplus /\ u.flying = Empty.flying /\ u.light = Empty.light
      /\ u.enchanted = Empty.enchanted /\ u.marked = Empty.marked /\ u.file = Empty.file
  BY <1>1, <1>7, <1>8 DEF WType
<1>10. f[Altar] = s /\ \A h \in Holders : h # Altar => f[h] = Empty.contents[h]
  BY <1>5, <1>6
<1>11. \A h \in Holders : Empty.contents[h] = <<>> /\ ToSet(Empty.contents[h]) = {}
  BY DEF Empty, ToSet
<1>12. Listed(u)
  BY <1>1, <1>3, <1>9, <1>10 DEF Bare, Listed
<1>13. Disjoint(u)
  <2>1. ASSUME NEW g \in Holders, NEW h \in Holders, g # h
        PROVE  ToSet(u.contents[g]) \cap ToSet(u.contents[h]) = {}
    <3>1. g # Altar \/ h # Altar
      BY <2>1
    <3>2. ToSet(u.contents[g]) = {} \/ ToSet(u.contents[h]) = {}
      BY <1>9, <1>10, <1>11, <3>1
    <3>3. QED
      BY <3>2
  <2>2. QED
    BY <2>1 DEF Disjoint
<1>14. Charmed(u)
  BY <1>1, <1>4, <1>9 DEF Bare, Charmed
<1>15. Nobody(u)
  BY <1>1, <1>9 DEF Bare, Nobody
<1>16. Bare(u) /\ \A c \in Chars : FileFits(u.file[c])
  BY <1>1, <1>9, <1>12, <1>13, <1>14, <1>15 DEF Bare
<1>17. QED
  BY <1>16, BareFits

(* The process ends and starts again.                                       *)
LEMMA Rebooting ==
  ASSUME scene \in Scenes, in_room \in [Chars -> Rooms \cup {None}],
         NEW v, Fits(v, in_room, affected), NEW saves \in BOOLEAN,
         NEW u, u = [Empty EXCEPT
             !.file = [c \in Chars |->
                         IF saves /\ c \in scene.players /\ in_room[c] # None
                         THEN Image(v, c, in_room[c], affected[c]) ELSE v.file[c]]],
         NEW at, NEW aff, \A c \in Chars : aff[c] = {}
  PROVE  Fits(u, at, aff) /\ Bright(u, at)
<1>1. PICK F : F = [c \in Chars |->
                      IF saves /\ c \in scene.players /\ in_room[c] # None
                      THEN Image(v, c, in_room[c], affected[c]) ELSE v.file[c]]
  OBVIOUS
<1>2. ASSUME NEW c \in Chars PROVE FileFits(F[c])
  <2>1. Sound(v) /\ Person(v, in_room, affected, c)
    BY DEF Fits
  <2>2. CASE saves /\ c \in scene.players /\ in_room[c] # None
    <3>1. in_room[c] \in Rooms
      BY <2>2
    <3>2. PICK f : f = Image(v, c, in_room[c], affected[c])
      OBVIOUS
    <3>3. FileFits(f)
      BY <2>1, <3>1, <3>2, ImageFits DEF Person
    <3>4. QED
      BY <1>1, <2>2, <3>2, <3>3
  <2>3. CASE ~(saves /\ c \in scene.players /\ in_room[c] # None)
    <3>1. F[c] = v.file[c]
      BY <1>1, <2>3
    <3>2. QED
      BY <2>1, <3>1 DEF Person
  <2>4. QED
    BY <2>2, <2>3
<1>3. DOMAIN F = Chars /\ F = [c \in Chars |-> F[c]]
  BY <1>1
<1>4. F \in [Chars -> FileType]
  BY <1>2, <1>3 DEF FileFits
<1>5. u = [Empty EXCEPT !.file = F]
  BY <1>1
<1>6. QED
  BY <1>2, <1>4, <1>5, Restarted

(* The end of extract_char, of who has nothing left.                        *)
LEMMA Going ==
  ASSUME scene \in Scenes, in_room \in [Chars -> Rooms \cup {None}], NEW v, Fits(v, in_room, affected),
         NEW c \in Chars, in_room[c] \in Rooms, WornBy(v, c) = {},
         NEW u, u = With(FromRoom(v, c), c, Blank),
         NEW to, to = [in_room EXCEPT ![c] = None], NEW eff, eff = [affected EXCEPT ![c] = {}],
         affected \in [Chars -> SUBSET AffType]
  PROVE  Fits(u, to, eff) /\ (Bright(v, in_room) => Bright(u, to))
<1>1. Sound(v) /\ v \in WType /\ Person(v, in_room, affected, c)
  BY DEF Fits, Sound
<1>2. Lamps(v, c) = {}
  BY InUseIs
<1>3. FromRoom(v, c) = v
  BY <1>1, <1>2, Leaving
<1>4. Numbers(Blank)
  BY DEF Numbers, Blank
<1>5. Resets(v, u, c) /\ HasNumbers(u, c, Blank)
  BY <1>1, <1>3, <1>4, Resetting
<1>6. Sound(u) /\ SameLight(v, u) /\ (\A d \in Chars : d # c => AsBefore(v, u, d)) /\ WornBy(u, c) = {}
  BY <1>1, <1>5, ResetsKeep
<1>7. /\ u.mod_str[c] = 0 /\ u.armor[c] = 100 /\ u.hitroll[c] = 0 /\ u.surplus[c] = 0 /\ u.flying[c] = FALSE
  BY <1>5 DEF HasNumbers, Blank
<1>8. OneOfEach({}) /\ Balanced(u, c, {}) /\ Sourced(u, c, {})
  BY <1>6, <1>7, BlankPerson
<1>9. eff[c] = {} /\ u.file = v.file
  BY <1>5 DEF Resets
<1>10. Person(u, to, eff, c)
  BY <1>1, <1>6, <1>8, <1>9 DEF Person
<1>11. Beside(in_room, affected, to, eff, c) /\ Elsewhere(in_room, to, c)
  BY DEF Beside, Elsewhere
<1>12. Fits(u, to, eff)
  BY <1>6, <1>10, <1>11, AllFit
<1>13. Bright(v, in_room) <=> Bright(v, to)
  BY <1>1, <1>2, <1>11, DarkBright
<1>14. Bright(v, to) <=> Bright(u, to)
  BY <1>6, SameBright
<1>15. QED
  BY <1>12, <1>13, <1>14

(* load_char_obj, of the objects.                                           *)
Filled(b, c, f, s) ==
  [b EXCEPT !.contents[c] = s,
            !.marked = @ \cup {s[i] : i \in {j \in DOMAIN f.things : f.things[j].marked}},
            !.wear_loc = [o \in Objs |-> IF \E i \in DOMAIN f.things : s[i] = o
                                         THEN f.things[CHOOSE i \in DOMAIN f.things : s[i] = o].wear_loc
                                         ELSE @[o]]]

(* The objects of a file, none of which is in use yet.                      *)
Brings(b, c, f, s) ==
  /\ FileFits(f) /\ s \in [DOMAIN f.things -> Things] /\ IsInjective(s)
  /\ \A i \in DOMAIN f.things : /\ kit[s[i]] = f.things[i].kit /\ Nowhere(b, s[i])
                                /\ s[i] \notin b.enchanted
  /\ WornBy(b, c) = {}

Restores(b, t, c, f, s) ==
  /\ t \in WType /\ t.contents[c] = s /\ \A h \in Holders : h # c => t.contents[h] = b.contents[h]
  /\ \A i \in DOMAIN f.things : t.wear_loc[s[i]] = f.things[i].wear_loc
  /\ \A o \in Objs : o \notin ToSet(s) => t.wear_loc[o] = b.wear_loc[o]
  /\ b.marked \subseteq t.marked /\ t.enchanted = b.enchanted /\ t.lit = b.lit /\ t.light = b.light
  /\ t.mod_str = b.mod_str /\ t.armor = b.armor /\ t.hitroll = b.hitroll /\ t.flying = b.flying
  /\ t.kept = b.kept /\ t.surplus = b.surplus /\ t.file = b.file

FilePlace(f, i) == f.things[i].wear_loc

LEMMA FileIs ==
  ASSUME NEW f, f \in FileType
  PROVE  /\ f.things \in Seq(FileThing) /\ DOMAIN f.things = 1 .. Len(f.things) /\ Len(f.things) \in Nat
         /\ \A i \in DOMAIN f.things : f.things[i] \in FileThing /\ f.things[i].wear_loc \in WearLocs
         /\ Numbers(f) /\ f.in_room \in Rooms /\ f.affected \in SUBSET AffType
<1>1. PICK q : q = f.things
  OBVIOUS
<1>2. q \in Seq(FileThing)
  BY <1>1 DEF FileType
<1>3. DOMAIN q = 1 .. Len(q) /\ Len(q) \in Nat
  BY <1>2
<1>4. \A i \in DOMAIN q : q[i] \in FileThing
  BY <1>2, <1>3
<1>5. \A i \in DOMAIN q : q[i].wear_loc \in WearLocs
  BY <1>4 DEF FileThing
<1>6. f.in_room \in Rooms /\ f.affected \in SUBSET AffType
  BY DEF FileType
<1>7. Numbers(f)
  BY DEF FileType, Numbers
<1>8. QED
  BY <1>1, <1>2, <1>3, <1>4, <1>5, <1>6, <1>7

LEMMA BroughtSeq ==
  ASSUME scene \in Scenes, NEW b, NEW c, NEW f, NEW s, Brings(b, c, f, s)
  PROVE  /\ s \in Seq(Objs) /\ DOMAIN s = DOMAIN f.things
         /\ \A o \in ToSet(s) : o \in Things /\ o \in Objs /\ \E i \in DOMAIN f.things : s[i] = o
         /\ \A i \in DOMAIN f.things : s[i] \in ToSet(s) /\ s[i] \in Things /\ s[i] \in Objs
<1>1. DOMAIN f.things = 1 .. Len(f.things) /\ Len(f.things) \in Nat
  BY FileIs DEF Brings, FileFits
<1>2. PICK n \in Nat : DOMAIN f.things = 1 .. n
  BY <1>1
<1>3. s \in [1 .. n -> Things]
  BY <1>2 DEF Brings
<1>4. s \in [1 .. n -> Objs]
  BY <1>3, ThingsAre
<1>5. s \in Seq(Objs) /\ DOMAIN s = 1 .. n
  BY <1>4
<1>6. ToSet(s) = {s[i] : i \in 1 .. n}
  BY <1>5 DEF ToSet
<1>7. QED
  BY <1>2, <1>3, <1>4, <1>5, <1>6

LEMMA Restoring ==
  ASSUME scene \in Scenes, NEW b, Sound(b), NEW c \in Chars, NEW f, NEW s, Brings(b, c, f, s),
         NEW t, t = Filled(b, c, f, s)
  PROVE  Restores(b, t, c, f, s)
<1>1. b \in WType /\ c \in Holders
  BY Where DEF Sound
<1>2. PICK n : n = DOMAIN f.things
  OBVIOUS
<1>3. /\ s \in Seq(Objs) /\ DOMAIN s = n
      /\ \A o \in ToSet(s) : o \in Things /\ o \in Objs /\ \E i \in n : s[i] = o
      /\ \A i \in n : s[i] \in ToSet(s) /\ s[i] \in Things /\ s[i] \in Objs
  BY <1>2, BroughtSeq
<1>4. \A i \in n : FilePlace(f, i) \in WearLocs
  BY <1>2, FileIs DEF Brings, FileFits, FilePlace
<1>5. PICK g : g = [b.contents EXCEPT ![c] = s]
  OBVIOUS
<1>6. PICK m : m = b.marked \cup {s[i] : i \in {j \in n : f.things[j].marked}}
  OBVIOUS
<1>7. PICK l : l = [o \in Objs |-> IF \E i \in n : s[i] = o
                                   THEN FilePlace(f, CHOOSE i \in n : s[i] = o) ELSE b.wear_loc[o]]
  OBVIOUS
<1>8. b.contents \in [Holders -> Seq(Objs)] /\ b.wear_loc \in [Objs -> WearLocs] /\ b.marked \subseteq Objs
  BY <1>1, Fields
<1>9. g \in [Holders -> Seq(Objs)] /\ g[c] = s /\ \A h \in Holders : h # c => g[h] = b.contents[h]
  BY <1>1, <1>3, <1>5, <1>8
<1>10. m \in SUBSET Objs /\ b.marked \subseteq m
  BY <1>3, <1>6, <1>8
<1>11. ASSUME NEW i \in n PROVE l[s[i]] = FilePlace(f, i)
  <2>1. PICK j : j = CHOOSE k \in n : s[k] = s[i]
    OBVIOUS
  <2>2. j \in n /\ s[j] = s[i]
    BY <2>1
  <2>3. j = i
    BY <1>3, <2>2 DEF Brings, IsInjective
  <2>4. s[i] \in Objs
    BY <1>3
  <2>5. l[s[i]] = FilePlace(f, CHOOSE k \in n : s[k] = s[i])
    BY <1>7, <2>4
  <2>6. QED
    BY <2>1, <2>3, <2>5
<1>12. \A o \in Objs : o \notin ToSet(s) => l[o] = b.wear_loc[o]
  BY <1>3, <1>7
<1>13. l \in [Objs -> WearLocs]
  <2>1. ASSUME NEW o \in Objs PROVE l[o] \in WearLocs
    <3>1. CASE o \in ToSet(s)
      <4>1. PICK i \in n : s[i] = o
        BY <1>3, <3>1
      <4>2. QED
        BY <1>4, <1>11, <4>1
    <3>2. CASE o \notin ToSet(s)
      BY <1>8, <1>12, <3>2
    <3>3. QED
      BY <3>1, <3>2
  <2>2. DOMAIN l = Objs /\ l = [o \in Objs |-> l[o]]
    BY <1>7
  <2>3. QED
    BY <2>1, <2>2
<1>14. t = [b EXCEPT !.contents = g, !.marked = m, !.wear_loc = l]
  BY <1>1, <1>2, <1>5, <1>6, <1>7 DEF WType, Filled, FilePlace
<1>15. /\ t \in WType /\ t.contents = g /\ t.marked = m /\ t.wear_loc = l
       /\ t.enchanted = b.enchanted /\ t.lit = b.lit /\ t.light = b.light
       /\ t.mod_str = b.mod_str /\ t.armor = b.armor /\ t.hitroll = b.hitroll /\ t.flying = b.flying
       /\ t.kept = b.kept /\ t.surplus = b.surplus /\ t.file = b.file
  BY <1>1, <1>9, <1>10, <1>13, <1>14 DEF WType
<1>16. \A i \in DOMAIN f.things : t.wear_loc[s[i]] = f.things[i].wear_loc
  BY <1>2, <1>11, <1>15 DEF FilePlace
<1>17. QED
  BY <1>9, <1>10, <1>12, <1>15, <1>16 DEF Restores

LEMMA RestoredSound ==
  ASSUME scene \in Scenes, NEW b, Sound(b), NEW c \in Chars, NEW f, NEW s, Brings(b, c, f, s),
         NEW t, Restores(b, t, c, f, s)
  PROVE  Sound(t) /\ \A d \in Chars : d # c => AsBefore(b, t, d)
<1>1. /\ s \in Seq(Objs) /\ DOMAIN s = DOMAIN f.things
      /\ \A o \in ToSet(s) : o \in Things /\ o \in Objs /\ \E i \in DOMAIN f.things : s[i] = o
      /\ \A i \in DOMAIN f.things : s[i] \in ToSet(s) /\ s[i] \in Things /\ s[i] \in Objs
  BY BroughtSeq
<1>2. \A o \in ToSet(s) : \A h \in Holders : o \notin ToSet(b.contents[h])
  BY <1>1 DEF Brings, Nowhere
<1>3. \A h \in Holders : t.contents[h] = IF h = c THEN s ELSE b.contents[h]
  BY DEF Restores
<1>4. Listed(t)
  <2>1. IsInjective(s) /\ ToSet(s) \subseteq Things
    BY <1>1 DEF Brings
  <2>2. QED
    BY <1>3, <2>1 DEF Listed, Sound
<1>5. Disjoint(t)
  <2>1. ASSUME NEW g \in Holders, NEW h \in Holders, g # h, NEW o \in ToSet(t.contents[g]), o \in ToSet(t.contents[h])
        PROVE  FALSE
    <3>1. CASE g = c
      <4>1. o \in ToSet(s) /\ o \in ToSet(b.contents[h])
        BY <1>3, <2>1, <3>1
      <4>2. QED
        BY <1>2, <4>1
    <3>2. CASE h = c
      <4>1. o \in ToSet(s) /\ o \in ToSet(b.contents[g])
        BY <1>3, <2>1, <3>2
      <4>2. QED
        BY <1>2, <4>1
    <3>3. CASE g # c /\ h # c
      <4>1. o \in ToSet(b.contents[g]) /\ o \in ToSet(b.contents[h])
        BY <1>3, <2>1, <3>3
      <4>2. ToSet(b.contents[g]) \cap ToSet(b.contents[h]) = {}
        BY <2>1 DEF Sound, Disjoint
      <4>3. QED
        BY <4>1, <4>2
    <3>4. QED
      BY <3>1, <3>2, <3>3
  <2>2. QED
    BY <2>1 DEF Disjoint
<1>6. ASSUME NEW d \in Chars, d # c PROVE AsBefore(b, t, d)
  <2>1. Carried(t, d) = Carried(b, d)
    BY <1>3, <1>6, Where DEF Carried
  <2>2. \A o \in Carried(b, d) : o \notin ToSet(s) /\ o \in Objs
    BY <1>2, Where, CarriedIs, ThingsAre DEF Carried
  <2>3. \A o \in Carried(b, d) : t.wear_loc[o] = b.wear_loc[o]
    BY <2>2 DEF Restores
  <2>4. \A o : o \in WornBy(t, d) <=> o \in WornBy(b, d)
    BY <2>1, <2>3, InUseIs
  <2>5. WornBy(t, d) = WornBy(b, d)
    BY <2>4
  <2>6. \A o \in WornBy(b, d) : t.wear_loc[o] = b.wear_loc[o]
    BY <2>3, InUseIs
  <2>7. QED
    BY <2>5, <2>6 DEF AsBefore, Restores
<1>7. Borne(t)
  <2>1. ASSUME NEW o \in Objs, t.wear_loc[o] # "none" PROVE \E d \in Chars : o \in Carried(t, d)
    <3>1. CASE o \in ToSet(s)
      BY <1>3, <3>1, Where DEF Carried
    <3>2. CASE o \notin ToSet(s)
      <4>1. b.wear_loc[o] # "none"
        BY <2>1, <3>2 DEF Restores
      <4>2. PICK d \in Chars : o \in Carried(b, d)
        BY <4>1 DEF Sound, Borne
      <4>3. d # c
        BY <4>1, <4>2, InUseIs DEF Brings
      <4>4. QED
        BY <1>3, <4>2, <4>3, Where DEF Carried
    <3>3. QED
      BY <3>1, <3>2
  <2>2. QED
    BY <2>1 DEF Borne
<1>8. OneEach(t)
  <2>1. ASSUME NEW d \in Chars, NEW o \in WornBy(t, d), NEW p \in WornBy(t, d), t.wear_loc[o] = t.wear_loc[p]
        PROVE  o = p
    <3>1. CASE d = c
      <4>1. o \in ToSet(s) /\ p \in ToSet(s) /\ t.wear_loc[o] # "none"
        BY <1>3, <2>1, <3>1, Where, InUseIs DEF Carried
      <4>2. PICK i \in DOMAIN f.things : s[i] = o
        BY <1>1, <4>1
      <4>3. PICK j \in DOMAIN f.things : s[j] = p
        BY <1>1, <4>1
      <4>4. f.things[i].wear_loc = f.things[j].wear_loc /\ f.things[i].wear_loc # "none"
        BY <2>1, <4>1, <4>2, <4>3 DEF Restores
      <4>5. i = j
        BY <4>4 DEF Brings, FileFits, FilePlaces
      <4>6. QED
        BY <4>2, <4>3, <4>5
    <3>2. CASE d # c
      <4>1. /\ WornBy(t, d) = WornBy(b, d) /\ t.wear_loc[o] = b.wear_loc[o] /\ t.wear_loc[p] = b.wear_loc[p]
        BY <1>6, <2>1, <3>2 DEF AsBefore
      <4>2. QED
        BY <2>1, <4>1 DEF Sound, OneEach
    <3>3. QED
      BY <3>1, <3>2
  <2>2. QED
    BY <2>1 DEF OneEach
<1>9. InHand(t)
  <2>1. ASSUME NEW o \in Things, kit[o].type = "light", t.wear_loc[o] # "none" PROVE t.wear_loc[o] \in Hands
    <3>1. CASE o \in ToSet(s)
      <4>1. PICK i \in DOMAIN f.things : s[i] = o
        BY <1>1, <3>1
      <4>2. f.things[i].kit.type = "light" /\ t.wear_loc[o] = f.things[i].wear_loc
        BY <2>1, <4>1 DEF Restores, Brings
      <4>3. QED
        BY <2>1, <4>2 DEF Brings, FileFits, FileHands
    <3>2. CASE o \notin ToSet(s)
      <4>1. t.wear_loc[o] = b.wear_loc[o]
        BY <3>2, ThingsAre DEF Restores
      <4>2. QED
        BY <2>1, <4>1 DEF Sound, InHand
    <3>3. QED
      BY <3>1, <3>2
  <2>2. QED
    BY <2>1 DEF InHand
<1>10. Charmed(t)
  BY DEF Sound, Charmed, Restores
<1>11. QED
  BY <1>4, <1>5, <1>6, <1>7, <1>8, <1>9, <1>10 DEF Sound, Restores

(* Who comes back is what the file says.                                    *)
LEMMA RestoredPerson ==
  ASSUME scene \in Scenes, NEW b, Sound(b), NEW c \in Chars, NEW f, NEW s, Brings(b, c, f, s),
         NEW t, Restores(b, t, c, f, s), HasNumbers(b, c, f)
  PROVE  Balanced(t, c, f.affected) /\ Sourced(t, c, f.affected)
<1>1. Sound(t)
  BY RestoredSound
<1>2. /\ s \in Seq(Objs) /\ DOMAIN s = DOMAIN f.things
      /\ \A o \in ToSet(s) : o \in Things /\ o \in Objs /\ \E i \in DOMAIN f.things : s[i] = o
      /\ \A i \in DOMAIN f.things : s[i] \in ToSet(s) /\ s[i] \in Things /\ s[i] \in Objs
  BY BroughtSeq
<1>3. t.contents[c] = s /\ Carried(t, c) = ToSet(s)
  BY DEF Restores, Carried
<1>4. Pictures(t, c, f, s)
  BY <1>2, <1>3 DEF Pictures, Restores, Brings
<1>5. /\ SumOf([i \in UsedIn(f) |-> SumOf(f.things[i].kit.affects)]) = WornStr(t, c)
      /\ SumOf([i \in UsedIn(f) |-> ACOf(f.things[i].kit, f.things[i].wear_loc)]) = WornAC(t, c)
      /\ (\E i \in UsedIn(f) : f.things[i].kit.flies) <=> (\E o \in InUse(t, c) : kit[o].flies)
  BY <1>1, <1>4, PicturesSums
<1>6. WornHit(t, c) = 0
  <2>1. \A o : o \notin InUse(t, c) \cap t.enchanted
    BY <1>2, <1>3, InUseIs DEF Brings, Restores
  <2>2. InUse(t, c) \cap t.enchanted = {}
    BY <2>1
  <2>3. QED
    BY <2>2, FS_EmptySet DEF WornHit
<1>7. /\ t.mod_str[c] = f.mod_str /\ t.armor[c] = f.armor /\ t.hitroll[c] = f.hitroll
      /\ t.flying[c] = f.flying /\ t.kept[c] = f.kept /\ t.surplus[c] = f.surplus
  BY DEF Restores, HasNumbers
<1>8. Balanced(t, c, f.affected)
  <2>1. /\ f.mod_str = Cast(f.affected) + WornStr(t, c) /\ f.armor = 100 - WornAC(t, c)
        /\ f.hitroll = f.surplus
    BY <1>5 DEF Brings, FileFits, FileSums
  <2>2. WornStr(t, c) \in Int /\ WornAC(t, c) \in Int
    BY <1>1, WornTypes
  <2>3. Cast(f.affected) \in Int /\ f.hitroll \in Int /\ f.surplus \in Int
    BY CastType, FileIs DEF Brings, FileFits, Numbers
  <2>4. QED
    BY <1>6, <1>7, <2>1, <2>2, <2>3 DEF Balanced, StrOf, ArmOf, HitOf
<1>9. Sourced(t, c, f.affected)
  BY <1>5, <1>7 DEF Brings, FileFits, FilePowers, Sourced
<1>10. QED
  BY <1>8, <1>9

LEMMA Preparing ==
  ASSUME scene \in Scenes, NEW v, Fits(v, in_room, affected), NEW c \in Chars, in_room[c] = None,
         NEW f, f = v.file[c], NEW s \in [DOMAIN f.things -> Unused(v)], IsInjective(s),
         \A i \in DOMAIN f.things : kit[s[i]] = f.things[i].kit,
         NEW b, b = Created(With(v, c, f), ToSet(s))
  PROVE  /\ Brings(b, c, f, s) /\ HasNumbers(b, c, f) /\ Sound(b)
         /\ b.light = v.light /\ b.file = v.file /\ \A d \in Chars : d # c => AsBefore(v, b, d)
<1>1. Sound(v) /\ v \in WType /\ Person(v, in_room, affected, c) /\ FileFits(f)
  BY DEF Fits, Sound, Person
<1>2. WornBy(v, c) = {}
  BY <1>1 DEF Person
<1>3. PICK a : a = With(v, c, f)
  OBVIOUS
<1>4. Numbers(f)
  BY <1>1, FileIs DEF FileFits
<1>5. Resets(v, a, c) /\ HasNumbers(a, c, f)
  BY <1>1, <1>3, <1>4, Resetting
<1>6. /\ Sound(a) /\ (\A d \in Chars : d # c => AsBefore(v, a, d)) /\ WornBy(a, c) = {}
  BY <1>1, <1>2, <1>5, ResetsKeep
<1>7. a.contents = v.contents /\ a.light = v.light /\ a.file = v.file
  BY <1>5 DEF Resets
<1>8. Unused(a) = Unused(v)
  BY <1>7 DEF Unused
<1>9. PICK S : S = ToSet(s)
  OBVIOUS
<1>10. \A p : p \in S <=> \E i \in DOMAIN f.things : p = s[i]
  BY <1>9 DEF ToSet
<1>11. S \subseteq Unused(a)
  BY <1>8, <1>10
<1>12. b = Created(a, S)
  BY <1>3, <1>9
<1>13. Flagged(a, b, S) /\ Charmed(b) /\ \A p \in S : a.wear_loc[p] = "none" /\ p \in Things
  BY <1>6, <1>11, <1>12, Creating
<1>14. Sound(b) /\ \A d \in Chars : AsBefore(a, b, d)
  BY <1>6, <1>13, FlaggedBefore
<1>15. WornBy(b, c) = {}
  BY <1>6, <1>14 DEF AsBefore
<1>16. b.enchanted = a.enchanted \ S
  <2>1. a \in WType
    BY <1>6 DEF Sound
  <2>2. QED
    BY <1>12, <2>1 DEF Created, WType
<1>17. b.contents = a.contents
  BY <1>13 DEF Flagged
<1>18. \A i \in DOMAIN f.things : s[i] \in S /\ s[i] \in Unused(v)
  BY <1>10
<1>19. \A i \in DOMAIN f.things : Nowhere(b, s[i]) /\ s[i] \notin b.enchanted /\ s[i] \in Things
  BY <1>7, <1>16, <1>17, <1>18 DEF Nowhere, Unused
<1>20. s \in [DOMAIN f.things -> Things]
  BY <1>19
<1>21. Brings(b, c, f, s)
  BY <1>1, <1>15, <1>19, <1>20 DEF Brings
<1>22. HasNumbers(b, c, f)
  BY <1>5, <1>13 DEF HasNumbers, Flagged
<1>23. b.light = v.light /\ b.file = v.file
  BY <1>7, <1>13 DEF Flagged
<1>24. ASSUME NEW d \in Chars, d # c PROVE AsBefore(v, b, d)
  <2>1. AsBefore(v, a, d) /\ AsBefore(a, b, d)
    BY <1>6, <1>14, <1>24
  <2>2. QED
    BY <2>1 DEF AsBefore
<1>25. QED
  BY <1>14, <1>21, <1>22, <1>23, <1>24

Fetches(v, c, f, s) ==
  /\ f = v.file[c] /\ s \in [DOMAIN f.things -> Unused(v)] /\ IsInjective(s)
  /\ \A i \in DOMAIN f.things : kit[s[i]] = f.things[i].kit
Sets(at, to, c, r) == to = [at EXCEPT ![c] = r]

(* load_char_obj and char_to_room.                                          *)
LEMMA LoggingIn ==
  ASSUME scene \in Scenes, in_room \in [Chars -> Rooms \cup {None}], affected \in [Chars -> SUBSET AffType],
         NEW v, Fits(v, in_room, affected), NEW c \in Chars, in_room[c] = None,
         NEW f, NEW s, Fetches(v, c, f, s),
         NEW t, t = Filled(Created(With(v, c, f), ToSet(s)), c, f, s),
         NEW u, u = ToRoom(t, c, f.in_room), NEW to, Sets(in_room, to, c, f.in_room),
         NEW eff, Sets(affected, eff, c, f.affected)
  PROVE  /\ Fits(u, to, eff) /\ f.in_room \in Rooms /\ f.affected \in SUBSET AffType
         /\ ~TwoLamps(t, c) /\ Bright(v, in_room) => Bright(u, to)
<1>1. PICK b : b = Created(With(v, c, f), ToSet(s))
  OBVIOUS
<1>2. /\ Brings(b, c, f, s) /\ HasNumbers(b, c, f) /\ Sound(b)
      /\ b.light = v.light /\ b.file = v.file /\ \A d \in Chars : d # c => AsBefore(v, b, d)
  BY <1>1, Preparing DEF Fetches
<1>3. t = Filled(b, c, f, s)
  BY <1>1
<1>4. Restores(b, t, c, f, s)
  BY <1>2, <1>3, Restoring
<1>5. Sound(t) /\ \A d \in Chars : d # c => AsBefore(b, t, d)
  BY <1>2, <1>4, RestoredSound
<1>6. ASSUME NEW d \in Chars, d # c PROVE AsBefore(v, t, d)
  <2>1. AsBefore(v, b, d) /\ AsBefore(b, t, d)
    BY <1>2, <1>5, <1>6
  <2>2. QED
    BY <2>1 DEF AsBefore
<1>7. Balanced(t, c, f.affected) /\ Sourced(t, c, f.affected)
  BY <1>2, <1>4, RestoredPerson
<1>8. FileFits(f) /\ f.in_room \in Rooms /\ f.affected \in SUBSET AffType /\ OneOfEach(f.affected)
  BY <1>2, FileIs DEF Brings, FileFits
<1>9. t.file[c] = f
  BY <1>2, <1>4 DEF Restores, Fetches
<1>10. to[c] = f.in_room /\ eff[c] = f.affected /\ to[c] # None
  BY <1>8, Where DEF Sets
<1>11. Person(t, to, eff, c)
  BY <1>7, <1>8, <1>9, <1>10 DEF Person
<1>12. Beside(in_room, affected, to, eff, c) /\ Elsewhere(in_room, to, c)
  BY DEF Beside, Elsewhere, Sets
<1>13. Fits(t, to, eff)
  BY <1>5, <1>6, <1>11, <1>12, AllFit
<1>14. LightOnly(t, u)
  <2>1. t \in WType
    BY <1>5 DEF Sound
  <2>2. QED
    BY <1>8, <2>1, Entering
<1>15. Fits(u, to, eff)
  BY <1>13, <1>14, BesideNone, LightOnlyKeeps
<1>16. ASSUME ~TwoLamps(t, c), Bright(v, in_room) PROVE Bright(u, to)
  <2>1. ASSUME NEW r \in Rooms PROVE t.light[r] = Cardinality(LampsOf(t, in_room, r))
    <3>1. ASSUME NEW d \in Chars, in_room[d] = r PROVE Lamps(t, d) = Lamps(v, d)
      <4>1. d # c
        BY <3>1, Where
      <4>2. QED
        BY <1>6, <4>1, BeforeIs
    <3>2. Sound(v)
      BY DEF Fits
    <3>3. \A o : o \in LampsOf(t, in_room, r) <=> o \in LampsOf(v, in_room, r)
      BY <1>5, <3>1, <3>2, LampsAre
    <3>4. LampsOf(t, in_room, r) = LampsOf(v, in_room, r)
      BY <3>3
    <3>5. t.light = v.light
      BY <1>2, <1>4 DEF Restores
    <3>6. QED
      BY <1>16, <3>4, <3>5 DEF Bright
  <2>2. Bright(t, in_room)
    BY <2>1 DEF Bright
  <2>3. in_room[c] \notin Rooms
    BY Where
  <2>4. u = ToRoom(t, c, to[c]) /\ to[c] \in Rooms
    BY <1>8, <1>10
  <2>5. PICK at : at = in_room
    OBVIOUS
  <2>6. Sound(t) /\ ~TwoLamps(t, c) /\ Bright(t, at) /\ at[c] \notin Rooms /\ Elsewhere(at, to, c)
    BY <1>5, <1>12, <1>16, <2>2, <2>3, <2>5
  <2>7. QED
    BY <2>4, <2>6, Arriving
<1>17. QED
  BY <1>8, <1>15, <1>16

-----------------------------------------------------------------------------
(* The inductive invariant.                                                 *)
Types ==
  /\ scene \in Scenes /\ in_room \in [Chars -> Rooms \cup {None}] /\ doubled \in BOOLEAN
  /\ loop \in [what : Loops, ch : Chars \cup {None}, obj : Objs \cup {None}]
  /\ affected \in [Chars -> SUBSET AffType]

(* The walks that take everything off reach what is still worn.             *)
Stripping == {"corpse", "clear", "quit"}
Remains(v, c, o) == \A p \in WornBy(v, c) : o # None /\ Before(v.contents[c], o, p)
WalkInv ==
  /\ loop.what = "none" => loop = Idle
  /\ loop.what # "none" => loop.ch \in Chars /\ in_room[loop.ch] # None
  /\ loop.what \in Stripping /\ ~Astray => Remains(w, loop.ch, loop.obj)

Fit == Types /\ WalkInv /\ Fits(w, in_room, affected) /\ (~doubled => Bright(w, in_room))

(* The prototypes do not change: a state is judged as it was before.        *)
LEMMA FitsNext ==
  ASSUME scene' = scene, NEW t, t = w', NEW at, at = in_room', NEW aff, aff = affected'
  PROVE  /\ Fits(w, in_room, affected)' <=> Fits(t, at, aff)
         /\ Bright(w, in_room)' <=> Bright(t, at)
<1>1. kit' = kit /\ Things' = Things
  BY DEF kit, Things
<1>2. Sound(w)' <=> Sound(t)
  BY <1>1 DEF Sound, Listed, Disjoint, Borne, OneEach, InHand, Charmed
<1>3. ASSUME NEW c PROVE Person(w, in_room, affected, c)' <=> Person(t, at, aff, c)
  <2>1. WornStr(w, c)' = WornStr(t, c)
    BY <1>1 DEF WornStr
  <2>2. WornAC(w, c)' = WornAC(t, c)
    BY <1>1 DEF WornAC, ApplyAC
  <2>3. WornHit(w, c)' = WornHit(t, c)
    BY DEF WornHit
  <2>4. Balanced(w, c, affected[c])' <=> Balanced(t, c, aff[c])
    BY <2>1, <2>2, <2>3 DEF Balanced, StrOf, ArmOf, HitOf
  <2>5. Sourced(w, c, affected[c])' <=> Sourced(t, c, aff[c])
    BY <1>1 DEF Sourced
  <2>6. QED
    BY <2>4, <2>5 DEF Person
<1>4. Fits(w, in_room, affected)' <=> Fits(t, at, aff)
  BY <1>2, <1>3 DEF Fits
<1>5. QED
  BY <1>4

(* A step outside of the walks.                                             *)
LEMMA StepFits ==
  ASSUME Fit, loop.what = "none", scene' = scene, loop' = loop, doubled' = doubled, in_room' = in_room,
         affected' \in [Chars -> SUBSET AffType],
         NEW t, t = w', NEW aff, aff = affected', Fits(t, in_room, aff),
         Bright(w, in_room) => Bright(t, in_room)
  PROVE  Fit'
<1>1. Fits(w, in_room, affected)' /\ (Bright(w, in_room)' <=> Bright(t, in_room))
  BY FitsNext
<1>2. Types'
  BY DEF Fit, Types
<1>3. loop = Idle /\ loop'.what = "none"
  BY DEF Fit, WalkInv
<1>4. WalkInv'
  BY <1>3 DEF WalkInv, Stripping, Idle
<1>5. (~doubled => Bright(w, in_room))'
  BY <1>1 DEF Fit
<1>6. QED
  BY <1>1, <1>2, <1>4, <1>5 DEF Fit

LEMMA OnwardStep ==
  ASSUME Fit, loop.what = "none", UNCHANGED rest, NEW t, t = w', Onward(w, t)
  PROVE  Fit'
<1>1. /\ scene' = scene /\ loop' = loop /\ doubled' = doubled /\ in_room' = in_room /\ affected' = affected
  BY DEF rest
<1>2. affected' \in [Chars -> SUBSET AffType]
  BY <1>1 DEF Fit, Types
<1>3. Fits(t, in_room, affected) /\ (Bright(w, in_room) => Bright(t, in_room))
  BY DEF Onward
<1>4. PICK aff : aff = affected'
  OBVIOUS
<1>5. QED
  BY <1>1, <1>2, <1>3, <1>4, StepFits

LEMMA PlayingIs ==
  ASSUME Fit, NEW c, Playing(c)
  PROVE  /\ c \in Chars /\ in_room[c] \in Rooms /\ loop.what = "none" /\ scene \in Scenes
         /\ Fits(w, in_room, affected) /\ affected \in [Chars -> SUBSET AffType]
         /\ in_room \in [Chars -> Rooms \cup {None}]
  BY ThingsAre DEF Fit, Types, Playing

LEMMA EnspelledStep ==
  ASSUME Fit, NEW c, Playing(c), NEW S, affected' = [affected EXCEPT ![c] = S],
         NEW t, t = w', Enspelled(w, t, c, S), UNCHANGED <<scene, in_room, loop, doubled>>
  PROVE  Fit'
<1>1. /\ c \in Chars /\ in_room[c] \in Rooms /\ loop.what = "none" /\ scene \in Scenes
      /\ Fits(w, in_room, affected) /\ affected \in [Chars -> SUBSET AffType]
  BY PlayingIs
<1>2. PICK eff : eff = [affected EXCEPT ![c] = S]
  OBVIOUS
<1>3. in_room[c] # None
  BY <1>1, Where
<1>4. Fits(t, in_room, eff) /\ (Bright(w, in_room) => Bright(t, in_room))
  BY <1>1, <1>2, <1>3, EnspelledFits
<1>5. S \in SUBSET AffType
  BY DEF Enspelled, OneOfEach
<1>6. eff \in [Chars -> SUBSET AffType] /\ eff = affected'
  BY <1>1, <1>2, <1>5
<1>7. QED
  BY <1>1, <1>4, <1>6, StepFits

(* affect_to_char, affect_join, affect_remove.                              *)
LEMMA SpellSteps ==
  ASSUME Fit, NEW c \in Chars,
         \/ \E type \in Spells : Blessed(c, type)
         \/ \E d \in 1 .. 2 : Poisoned(c, d)
         \/ \E a \in affected[c] : Expires(c, a)
  PROVE  Fit'
<1>1. ASSUME NEW type \in Spells, Blessed(c, type) PROVE Fit'
  <2>1. Playing(c)
    BY <1>1 DEF Blessed
  <2>2. /\ in_room[c] \in Rooms /\ scene \in Scenes /\ Fits(w, in_room, affected)
    BY <2>1, PlayingIs
  <2>3. PICK a : a = [type |-> type, modifier |-> IF type = "strength" THEN 1 ELSE 0]
    OBVIOUS
  <2>4. /\ ~IsAffected(c, type) /\ affected' = [affected EXCEPT ![c] = @ \cup {a}]
        /\ UNCHANGED <<scene, in_room, loop, doubled>>
        /\ \E found \in Lookups : w' = Adds(w, c, a, found)
    BY <1>1, <2>3 DEF Blessed
  <2>5. PICK found \in Lookups : w' = Adds(w, c, a, found)
    BY <2>4
  <2>6. a \in AffType /\ a.type = type
    BY <2>3 DEF AffType
  <2>7. \A b \in affected[c] : b.type # a.type
    BY <2>4, <2>6 DEF IsAffected
  <2>8. PICK S : S = affected[c] \cup {a}
    OBVIOUS
  <2>9. PICK t : t = w'
    OBVIOUS
  <2>10. Sound(w) /\ OneOfEach(affected[c]) /\ Balanced(w, c, affected[c]) /\ Sourced(w, c, affected[c])
    BY <2>2 DEF Fits, Person
  <2>11. Enspelled(w, t, c, S)
    BY <2>2, <2>5, <2>6, <2>7, <2>8, <2>9, <2>10, AddingAffect
  <2>12. affected' = [affected EXCEPT ![c] = S]
    BY <2>4, <2>8
  <2>13. QED
    BY <2>1, <2>4, <2>9, <2>11, <2>12, EnspelledStep
<1>2. ASSUME NEW d \in 1 .. 2, Poisoned(c, d) PROVE Fit'
  <2>1. Playing(c)
    BY <1>2 DEF Poisoned
  <2>2. /\ in_room[c] \in Rooms /\ scene \in Scenes /\ Fits(w, in_room, affected)
    BY <2>1, PlayingIs
  <2>3. PICK old : old = CHOOSE a \in affected[c] : a.type = "poison"
    OBVIOUS
  <2>4. PICK new : new = [type |-> "poison",
                          modifier |-> (IF IsAffected(c, "poison") THEN old.modifier ELSE 0) - d]
    OBVIOUS
  <2>5. PICK S : S = (IF IsAffected(c, "poison") THEN affected[c] \ {old} ELSE affected[c]) \cup {new}
    OBVIOUS
  <2>6. /\ affected' = [affected EXCEPT ![c] = S] /\ UNCHANGED <<scene, in_room, loop, doubled>>
        /\ \E found \in Lookups :
             w' = Adds(IF IsAffected(c, "poison") THEN Takes(w, c, old, found) ELSE w, c, new, found)
    BY <1>2, <2>3, <2>4, <2>5 DEF Poisoned
  <2>7. PICK found \in Lookups :
          w' = Adds(IF IsAffected(c, "poison") THEN Takes(w, c, old, found) ELSE w, c, new, found)
    BY <2>6
  <2>8. PICK t : t = w'
    OBVIOUS
  <2>9. Sound(w) /\ OneOfEach(affected[c]) /\ Balanced(w, c, affected[c]) /\ Sourced(w, c, affected[c])
    BY <2>2 DEF Fits, Person
  <2>10. "poison" \in Spells /\ "poison" # "fly"
    BY DEF Spells
  <2>11. CASE IsAffected(c, "poison")
    <3>1. old \in affected[c] /\ old.type = "poison"
      BY <2>3, <2>11 DEF IsAffected
    <3>2. old.modifier \in Int
      BY <2>9, <3>1 DEF OneOfEach, AffType
    <3>3. new \in AffType /\ new.type = old.type
      BY <2>4, <2>10, <2>11, <3>1, <3>2 DEF AffType
    <3>4. t = Adds(Takes(w, c, old, found), c, new, found) /\ S = (affected[c] \ {old}) \cup {new}
      BY <2>5, <2>7, <2>8, <2>11
    <3>5. Enspelled(w, t, c, S)
      BY <2>2, <2>10, <3>1, <3>3, <3>4, Joining
    <3>6. QED
      BY <2>1, <2>6, <2>8, <3>5, EnspelledStep
  <2>12. CASE ~IsAffected(c, "poison")
    <3>1. new \in AffType /\ new.type = "poison"
      BY <2>4, <2>10, <2>12 DEF AffType
    <3>2. \A b \in affected[c] : b.type # new.type
      BY <2>12, <3>1 DEF IsAffected
    <3>3. t = Adds(w, c, new, found) /\ S = affected[c] \cup {new}
      BY <2>5, <2>7, <2>8, <2>12
    <3>4. Enspelled(w, t, c, S)
      BY <2>2, <2>9, <3>1, <3>2, <3>3, AddingAffect
    <3>5. QED
      BY <2>1, <2>6, <2>8, <3>4, EnspelledStep
  <2>13. QED
    BY <2>11, <2>12
<1>3. ASSUME NEW a \in affected[c], Expires(c, a) PROVE Fit'
  <2>1. Playing(c)
    BY <1>3 DEF Expires
  <2>2. /\ in_room[c] \in Rooms /\ scene \in Scenes /\ Fits(w, in_room, affected)
    BY <2>1, PlayingIs
  <2>3. PICK S : S = affected[c] \ {a}
    OBVIOUS
  <2>4. /\ affected' = [affected EXCEPT ![c] = S] /\ UNCHANGED <<scene, in_room, loop, doubled>>
        /\ \E found \in Lookups : w' = Takes(w, c, a, found)
    BY <1>3, <2>3 DEF Expires
  <2>5. PICK found \in Lookups : w' = Takes(w, c, a, found)
    BY <2>4
  <2>6. PICK t : t = w'
    OBVIOUS
  <2>7. Enspelled(w, t, c, S)
    BY <2>2, <2>3, <2>5, <2>6, TakingAffect
  <2>8. QED
    BY <2>1, <2>4, <2>6, <2>7, EnspelledStep
<1>4. QED
  BY <1>1, <1>2, <1>3

(* What is done with one thing.                                             *)
LEMMA ThingSteps ==
  ASSUME Fit, NEW c \in Chars,
         NEW o, Drop(c, o) \/ Wear(c, o) \/ TakeOff(c, o) \/ BurnOut(c, o) \/ \E h \in Holders : Get(c, h, o)
  PROVE  Fit'
<1>1. Playing(c) /\ UNCHANGED rest
  BY DEF Drop, Wear, TakeOff, BurnOut, Get
<1>2. /\ in_room[c] \in Rooms /\ scene \in Scenes /\ Fits(w, in_room, affected) /\ loop.what = "none"
  BY <1>1, PlayingIs
<1>3. Sound(w)
  BY <1>2 DEF Fits
<1>4. PICK t : t = w'
  OBVIOUS
<1>5. CASE Drop(c, o)
  <2>1. o \in Carried(w, c) /\ t = Saved(Discarded(w, c, o, TRUE, AffectModify), c)
    BY <1>4, <1>5 DEF Drop
  <2>2. Onward(w, t)
    BY <1>2, <2>1, Dropping
  <2>3. QED
    BY <1>1, <1>2, <1>4, <2>2, OnwardStep
<1>6. CASE Wear(c, o)
  <2>1. o \in Carried(w, c) /\ o \notin WornBy(w, c)
    BY <1>6 DEF Wear
  <2>2. w.wear_loc[o] = "none"
    BY <2>1, InUseIs
  <2>3. PICK found \in Lookups, zap \in Zaps(o) : w' = Worn(w, c, o, TRUE, found, zap)
    BY <1>6 DEF Wear
  <2>4. Onward(w, t)
    BY <1>2, <1>4, <2>1, <2>2, <2>3, Wearing
  <2>5. QED
    BY <1>1, <1>2, <1>4, <2>4, OnwardStep
<1>7. CASE TakeOff(c, o)
  <2>1. PICK found \in Lookups : o \in WornBy(w, c) /\ w' = TakenOff(w, c, o, found)
    BY <1>7 DEF TakeOff
  <2>2. Onward(w, t)
    BY <1>2, <1>4, <2>1, TakingOff
  <2>3. QED
    BY <1>1, <1>2, <1>4, <2>2, OnwardStep
<1>8. CASE BurnOut(c, o)
  <2>1. PICK found \in Lookups :
          /\ o \in Lamps(w, c)
          /\ w' = FromChar([w EXCEPT !.lit = @ \ {o}, !.light[in_room[c]] = @ - 1], c, o, found, AffectModify)
    BY <1>8 DEF BurnOut
  <2>2. Onward(w, t)
    BY <1>2, <1>4, <2>1, BurningOut
  <2>3. QED
    BY <1>1, <1>2, <1>4, <2>2, OnwardStep
<1>9. ASSUME NEW h \in Holders, Get(c, h, o) PROVE Fit'
  <2>1. /\ h \in {in_room[c], Corpse} /\ o \in ToSet(w.contents[h])
        /\ w' = Saved(PutIn(TakeOut(w, h, o), c, o), c)
    BY <1>9 DEF Get
  <2>2. Onward(w, t)
    BY <1>2, <1>4, <2>1, Getting
  <2>3. QED
    BY <1>1, <1>2, <1>4, <2>2, OnwardStep
<1>10. QED
  BY <1>5, <1>6, <1>7, <1>8, <1>9

LEMMA HandSteps ==
  ASSUME Fit, NEW c \in Chars, NEW hand \in Hands, Sheath(c, hand) \/ Draw(c, hand)
  PROVE  Fit'
<1>1. Playing(c) /\ UNCHANGED rest
  BY DEF Sheath, Draw
<1>2. /\ in_room[c] \in Rooms /\ scene \in Scenes /\ Fits(w, in_room, affected) /\ loop.what = "none"
  BY <1>1, PlayingIs
<1>3. PICK t : t = w'
  OBVIOUS
<1>4. CASE Sheath(c, hand)
  <2>1. PICK o : o = GetEqChar(w, c, hand)
    OBVIOUS
  <2>2. /\ o # None /\ GetEqChar(w, c, Scabbard[hand]) = None /\ kit[o].type = "weapon"
        /\ \E found \in Lookups :
             w' = [Unequipped(w, c, o, found, AffectModify) EXCEPT !.wear_loc[o] = Scabbard[hand]]
    BY <1>4, <2>1 DEF Sheath
  <2>3. PICK found \in Lookups :
          w' = [Unequipped(w, c, o, found, AffectModify) EXCEPT !.wear_loc[o] = Scabbard[hand]]
    BY <2>2
  <2>4. Onward(w, t)
    BY <1>2, <1>3, <2>1, <2>2, <2>3, Sheathing
  <2>5. QED
    BY <1>1, <1>2, <1>3, <2>4, OnwardStep
<1>5. CASE Draw(c, hand)
  <2>1. PICK o : o = GetEqChar(w, c, Scabbard[hand])
    OBVIOUS
  <2>2. /\ o # None /\ GetEqChar(w, c, hand) = None
        /\ \E found \in Lookups, zap \in Zaps(o) :
             w' = Equipped([w EXCEPT !.wear_loc[o] = "none"], c, o, hand, found, zap)
    BY <1>5, <2>1 DEF Draw
  <2>3. PICK found \in Lookups, zap \in Zaps(o) :
          w' = Equipped([w EXCEPT !.wear_loc[o] = "none"], c, o, hand, found, zap)
    BY <2>2
  <2>4. Onward(w, t)
    BY <1>2, <1>3, <2>1, <2>2, <2>3, Drawing
  <2>5. QED
    BY <1>1, <1>2, <1>3, <2>4, OnwardStep
<1>6. QED
  BY <1>4, <1>5

LEMMA OtherSteps ==
  ASSUME Fit, NEW o \in Objs,
         \/ \E h \in Holders : Vanish(h, o)
         \/ \E r \in Rooms : Load(r, o)
         \/ \E c \in Chars : Enchant(c, o)
  PROVE  Fit'
<1>1. scene \in Scenes /\ Fits(w, in_room, affected) /\ in_room \in [Chars -> Rooms \cup {None}]
  BY DEF Fit, Types
<1>2. PICK t : t = w'
  OBVIOUS
<1>3. ASSUME NEW h \in Holders, Vanish(h, o) PROVE Fit'
  <2>1. loop.what = "none" /\ UNCHANGED rest /\ o \in ToSet(w.contents[h])
    BY <1>3 DEF Vanish
  <2>2. PICK found \in Lookups :
          w' = IF h \in Chars THEN FromChar(w, h, o, found, AffectModify) ELSE TakeOut(w, h, o)
    BY <1>3 DEF Vanish
  <2>3. Onward(w, t)
    BY <1>1, <1>2, <2>1, <2>2, Vanishing
  <2>4. QED
    BY <1>2, <2>1, <2>3, OnwardStep
<1>4. ASSUME NEW r \in Rooms, Load(r, o) PROVE Fit'
  <2>1. /\ loop.what = "none" /\ UNCHANGED rest /\ o \in Unused(w)
        /\ w' = PutIn(Created(w, {o}), r, o)
    BY <1>4 DEF Load
  <2>2. Onward(w, t)
    BY <1>1, <1>2, <2>1, Loading
  <2>3. QED
    BY <1>2, <2>1, <2>2, OnwardStep
<1>5. ASSUME NEW c \in Chars, Enchant(c, o) PROVE Fit'
  <2>1. /\ Playing(c) /\ UNCHANGED rest /\ o \in Carried(w, c) /\ o \notin WornBy(w, c)
        /\ w' = [w EXCEPT !.enchanted = @ \cup {o}, !.marked = @ \cup {o}]
    BY <1>5 DEF Enchant
  <2>2. w.wear_loc[o] = "none"
    BY <2>1, InUseIs
  <2>3. Onward(w, t)
    BY <1>1, <1>2, <2>1, <2>2, Unenchanted
  <2>4. QED
    BY <1>2, <2>1, <2>3, PlayingIs, OnwardStep
<1>6. QED
  BY <1>3, <1>4, <1>5

(* do_save                                                                  *)
LEMMA SaveSteps ==
  ASSUME Fit, NEW c \in Chars, Save(c)
  PROVE  Fit'
<1>1. Playing(c) /\ UNCHANGED rest /\ w' = Saved(w, c)
  BY DEF Save
<1>2. in_room[c] \in Rooms /\ loop.what = "none" /\ scene \in Scenes /\ Fits(w, in_room, affected)
  BY <1>1, PlayingIs
<1>3. PICK t : t = w'
  OBVIOUS
<1>4. Onward(w, t)
  BY <1>1, <1>2, <1>3, SavedFits
<1>5. QED
  BY <1>1, <1>2, <1>3, <1>4, OnwardStep

(* Somebody goes somewhere.                                                 *)
LEMMA WalkSteps ==
  ASSUME Fit, NEW c \in Chars, NEW r \in Rooms, Walk(c, r)
  PROVE  Fit'
<1>1. /\ Playing(c) /\ w' = Moved(w, c, r) /\ in_room' = [in_room EXCEPT ![c] = r]
      /\ doubled' = (doubled \/ TwoLamps(w, c)) /\ UNCHANGED <<scene, affected, loop>>
  BY DEF Walk
<1>2. /\ in_room[c] \in Rooms /\ scene \in Scenes /\ Fits(w, in_room, affected) /\ loop.what = "none"
      /\ in_room \in [Chars -> Rooms \cup {None}] /\ affected \in [Chars -> SUBSET AffType]
  BY <1>1, PlayingIs
<1>3. PICK t : t = w'
  OBVIOUS
<1>4. PICK to : to = in_room'
  OBVIOUS
<1>5. Fits(t, to, affected) /\ (~TwoLamps(w, c) /\ Bright(w, in_room) => Bright(t, to))
  BY <1>1, <1>2, <1>3, <1>4, Moving
<1>6. affected' = affected /\ scene' = scene /\ loop' = loop
  BY <1>1
<1>7. Fits(w, in_room, affected)' /\ (Bright(w, in_room)' <=> Bright(t, to))
  BY <1>3, <1>4, <1>5, <1>6, FitsNext
<1>8. in_room' \in [Chars -> Rooms \cup {None}] /\ doubled' \in BOOLEAN
  <2>1. in_room' \in [Chars -> Rooms \cup {None}]
    BY <1>1, <1>2
  <2>2. doubled' \in BOOLEAN
    BY <1>1 DEF Fit, Types
  <2>3. QED
    BY <2>1, <2>2
<1>9. Types'
  BY <1>6, <1>8 DEF Fit, Types
<1>10. loop = Idle
  BY <1>2 DEF Fit, WalkInv
<1>11. WalkInv'
  BY <1>6, <1>10 DEF WalkInv, Stripping, Idle
<1>12. (~doubled => Bright(w, in_room))'
  BY <1>1, <1>5, <1>7 DEF Fit
<1>13. QED
  BY <1>7, <1>9, <1>11, <1>12 DEF Fit

(* A step after which nobody walks over anything.                           *)
LEMMA SettledStep ==
  ASSUME Fit, scene' = scene, loop' = Idle, doubled' \in BOOLEAN,
         in_room' \in [Chars -> Rooms \cup {None}], affected' \in [Chars -> SUBSET AffType],
         NEW t, t = w', NEW to, to = in_room', NEW eff, eff = affected',
         Fits(t, to, eff), ~doubled' => Bright(t, to)
  PROVE  Fit'
<1>1. Fits(w, in_room, affected)' /\ (Bright(w, in_room)' <=> Bright(t, to))
  BY FitsNext
<1>2. Idle.what = "none" /\ Idle.ch = None /\ Idle.obj = None
  BY DEF Idle
<1>3. loop' \in [what : Loops, ch : Chars \cup {None}, obj : Objs \cup {None}]
  BY DEF Idle, Loops
<1>4. Types'
  BY <1>3 DEF Fit, Types
<1>5. WalkInv'
  BY <1>2 DEF WalkInv, Stripping
<1>6. QED
  BY <1>1, <1>4, <1>5 DEF Fit

(* What the statistics are after raw_kill and do_clearstats.                *)
LEMMA CleanedFits ==
  ASSUME scene \in Scenes, affected \in [Chars -> SUBSET AffType], NEW v, NEW at, Fits(v, at, affected),
         NEW c \in Chars, in_room[c] \in Rooms, NEW room \in Rooms, at[c] = room, WornBy(v, c) = {},
         NEW S, S = {}, NEW u, u = Cleansed(v, c), NEW t, t = SavedAs(u, c, room, S),
         NEW eff, eff[c] = S, Beside(at, affected, at, eff, c)
  PROVE  Fits(t, at, eff) /\ (Bright(v, at) => Bright(t, at))
<1>1. Sound(v) /\ Person(v, at, affected, c)
  BY DEF Fits
<1>3. Clean(v, u, c)
  BY <1>1, Cleansing DEF Person
<1>5. IsFiniteSet(S)
  BY FS_EmptySet
<1>6. OneOfEach(S)
  BY <1>5 DEF OneOfEach
<1>7. Balanced(u, c, S) /\ Sourced(u, c, S)
  BY <1>3 DEF Clean
<1>9. WornBy(u, c) = {} /\ u.file = v.file /\ Sound(u) /\ SameLight(v, u)
  BY <1>3 DEF Clean
<1>10. Person(u, at, eff, c)
  BY <1>1, <1>6, <1>7, <1>9 DEF Person
<1>12. \A d \in Chars : d # c => AsBefore(v, u, d)
  BY <1>3 DEF Clean
<1>13. Fits(u, at, eff)
  BY <1>9, <1>10, <1>12, AllFit
<1>14. FileFits(u.file[c])
  BY <1>10 DEF Person
<1>16. Filed(u, t, c)
  BY <1>6, <1>7, <1>9, <1>14, Saving
<1>17. Fits(t, at, eff) /\ (Bright(u, at) <=> Bright(t, at))
  BY <1>13, <1>16, FiledFits
<1>18. QED
  BY <1>9, <1>17, SameBright

(* A walk that takes everything off has done so when it is over.            *)
LEMMA WalkOver ==
  ASSUME Fit, Over, loop.what \in Stripping
  PROVE  /\ loop.ch \in Chars /\ in_room[loop.ch] \in Rooms /\ WornBy(w, loop.ch) = {}
         /\ scene \in Scenes /\ Fits(w, in_room, affected) /\ affected \in [Chars -> SUBSET AffType]
         /\ in_room \in [Chars -> Rooms \cup {None}]
<1>1. loop.what # "none" /\ loop.obj = None
  BY DEF Over
<1>2. ~Astray
  BY <1>1 DEF Astray
<1>3. Remains(w, loop.ch, loop.obj) /\ loop.ch \in Chars /\ in_room[loop.ch] # None
  BY <1>1, <1>2 DEF Fit, WalkInv
<1>4. WornBy(w, loop.ch) = {}
  BY <1>1, <1>3 DEF Remains
<1>5. QED
  BY <1>3, <1>4 DEF Fit, Types

LEMMA EndSteps ==
  ASSUME Fit, AllDone \/ StatsCleared \/ WakesUp \/ Gone
  PROVE  Fit'
<1>1. PICK t : t = w'
  OBVIOUS
<1>2. PICK to : to = in_room'
  OBVIOUS
<1>3. PICK eff : eff = affected'
  OBVIOUS
<1>4. PICK c : c = loop.ch
  OBVIOUS
<1>5. doubled \in BOOLEAN /\ (~doubled => Bright(w, in_room))
  BY DEF Fit, Types
<1>6. CASE AllDone
  <2>1. loop' = Idle /\ UNCHANGED <<scene, w, in_room, affected, doubled>>
    BY <1>6 DEF AllDone
  <2>2. Fits(t, to, eff) /\ (Bright(w, in_room) => Bright(t, to))
    BY <1>1, <1>2, <1>3, <2>1 DEF Fit
  <2>3. in_room' \in [Chars -> Rooms \cup {None}] /\ affected' \in [Chars -> SUBSET AffType]
    BY <2>1 DEF Fit, Types
  <2>4. QED
    BY <1>1, <1>2, <1>3, <1>5, <2>1, <2>2, <2>3, SettledStep
<1>7. CASE StatsCleared
  <2>1. /\ Over /\ loop.what = "clear" /\ w' = SavedAs(Cleansed(w, c), c, in_room[c], {})
        /\ affected' = [affected EXCEPT ![c] = {}] /\ loop' = Idle /\ UNCHANGED <<scene, in_room, doubled>>
    BY <1>4, <1>7 DEF StatsCleared
  <2>2. /\ c \in Chars /\ in_room[c] \in Rooms /\ WornBy(w, c) = {}
        /\ scene \in Scenes /\ Fits(w, in_room, affected) /\ affected \in [Chars -> SUBSET AffType]
        /\ in_room \in [Chars -> Rooms \cup {None}]
    BY <1>4, <2>1, WalkOver DEF Stripping
  <2>3. PICK r : r = in_room[c]
    OBVIOUS
  <2>a. PICK S : S = {}
    OBVIOUS
  <2>b. PICK u : u = Cleansed(w, c)
    OBVIOUS
  <2>4. t = SavedAs(u, c, r, S) /\ r \in Rooms /\ eff = [affected EXCEPT ![c] = S]
    BY <1>1, <1>3, <2>1, <2>2, <2>3, <2>a, <2>b
  <2>c. eff[c] = S /\ Beside(in_room, affected, in_room, eff, c)
    BY <2>2, <2>4 DEF Beside
  <2>5. Fits(t, in_room, eff) /\ (Bright(w, in_room) => Bright(t, in_room))
    BY <2>2, <2>3, <2>a, <2>b, <2>4, <2>c, CleanedFits
  <2>6. to = in_room
    BY <1>2, <2>1
  <2>7. affected' \in [Chars -> SUBSET AffType] /\ in_room' \in [Chars -> Rooms \cup {None}]
    BY <2>1, <2>2
  <2>8. QED
    BY <1>1, <1>2, <1>3, <1>5, <2>1, <2>5, <2>6, <2>7, SettledStep
<1>8. CASE WakesUp
  <2>1. /\ Over /\ loop.what = "corpse" /\ w' = SavedAs(Cleansed(Moved(w, c, Altar), c), c, Altar, {})
        /\ in_room' = [in_room EXCEPT ![c] = Altar]
        /\ affected' = [affected EXCEPT ![c] = {}] /\ loop' = Idle /\ UNCHANGED <<scene, doubled>>
    BY <1>4, <1>8 DEF WakesUp
  <2>2. /\ c \in Chars /\ in_room[c] \in Rooms /\ WornBy(w, c) = {}
        /\ scene \in Scenes /\ Fits(w, in_room, affected) /\ affected \in [Chars -> SUBSET AffType]
        /\ in_room \in [Chars -> Rooms \cup {None}]
    BY <1>4, <2>1, WalkOver DEF Stripping
  <2>3. PICK v : v = Moved(w, c, Altar)
    OBVIOUS
  <2>4. Altar \in Rooms /\ to = [in_room EXCEPT ![c] = Altar]
    BY <1>2, <2>1, Where
  <2>5. /\ Fits(v, to, affected) /\ (~TwoLamps(w, c) /\ Bright(w, in_room) => Bright(v, to))
    BY <2>2, <2>3, <2>4, Moving
  <2>a. PICK S : S = {}
    OBVIOUS
  <2>b. PICK u : u = Cleansed(v, c)
    OBVIOUS
  <2>6. WornBy(v, c) = WornBy(w, c) /\ Lamps(w, c) = {}
    <3>1. Rest(w, v)
      BY <2>2, <2>3, <2>4, Moving
    <3>2. WornBy(v, c) = WornBy(w, c)
      BY <3>1 DEF Rest, WornBy, Carried
    <3>3. QED
      BY <2>2, <3>2, InUseIs
  <2>7. ~TwoLamps(w, c)
    BY <2>6, FS_EmptySet DEF TwoLamps
  <2>8. /\ to[c] = Altar /\ t = SavedAs(u, c, Altar, S) /\ eff = [affected EXCEPT ![c] = S]
    BY <1>1, <1>3, <2>1, <2>2, <2>3, <2>4, <2>a, <2>b
  <2>c. eff[c] = S /\ Beside(to, affected, to, eff, c)
    BY <2>2, <2>8 DEF Beside
  <2>d. PICK r : r = Altar
    OBVIOUS
  <2>9. Fits(t, to, eff) /\ (Bright(v, to) => Bright(t, to))
    <3>1. r \in Rooms /\ to[c] = r /\ t = SavedAs(u, c, r, S) /\ WornBy(v, c) = {}
      BY <2>2, <2>4, <2>6, <2>8, <2>d
    <3>2. QED
      BY <2>2, <2>5, <2>a, <2>b, <2>c, <3>1, CleanedFits
  <2>10. affected' \in [Chars -> SUBSET AffType] /\ in_room' \in [Chars -> Rooms \cup {None}]
    BY <2>1, <2>2, <2>4
  <2>11. QED
    BY <1>1, <1>2, <1>3, <1>5, <2>1, <2>5, <2>7, <2>9, <2>10, SettledStep
<1>9. CASE Gone
  <2>1. /\ Over /\ loop.what = "quit" /\ w' = With(FromRoom(w, c), c, Blank)
        /\ in_room' = [in_room EXCEPT ![c] = None]
        /\ affected' = [affected EXCEPT ![c] = {}] /\ loop' = Idle /\ UNCHANGED <<scene, doubled>>
    BY <1>4, <1>9 DEF Gone
  <2>2. /\ c \in Chars /\ in_room[c] \in Rooms /\ WornBy(w, c) = {}
        /\ scene \in Scenes /\ Fits(w, in_room, affected) /\ affected \in [Chars -> SUBSET AffType]
        /\ in_room \in [Chars -> Rooms \cup {None}]
    BY <1>4, <2>1, WalkOver DEF Stripping
  <2>3. Fits(t, to, eff) /\ (Bright(w, in_room) => Bright(t, to))
    BY <1>1, <1>2, <1>3, <2>1, <2>2, Going
  <2>4. affected' \in [Chars -> SUBSET AffType] /\ in_room' \in [Chars -> Rooms \cup {None}]
    BY <2>1, <2>2
  <2>5. QED
    BY <1>1, <1>2, <1>3, <1>5, <2>1, <2>3, <2>4, SettledStep
<1>10. QED
  BY <1>6, <1>7, <1>8, <1>9

(* A walk begins with what comes first.                                     *)
FirstOf(s) == IF s = <<>> THEN None ELSE Head(s)

LEMMA FirstIs ==
  ASSUME scene \in Scenes, NEW u, Sound(u), NEW c \in Chars, NEW o, o = FirstOf(u.contents[c])
  PROVE  Remains(u, c, o) /\ o \in Objs \cup {None} /\ (o # None => o \in Carried(u, c))
<1>1. PICK s : s = u.contents[c]
  OBVIOUS
<1>2. s \in Seq(Objs) /\ Carried(u, c) = ToSet(s)
  BY <1>1, CarriedIs
<1>3. CASE s = <<>>
  <2>1. ToSet(s) = {}
    BY <1>3 DEF ToSet
  <2>2. WornBy(u, c) = {}
    BY <1>2, <2>1, InUseIs
  <2>3. o = None
    BY <1>1, <1>3 DEF FirstOf
  <2>4. QED
    BY <2>2, <2>3 DEF Remains
<1>4. CASE s # <<>>
  <2>1. o = s[1]
    BY <1>1, <1>2, <1>4 DEF FirstOf
  <2>2. Len(s) \in Nat /\ 1 \in 1 .. Len(s) /\ DOMAIN s = 1 .. Len(s)
    BY <1>2, <1>4
  <2>3. o \in Objs /\ o \in ToSet(s)
    BY <1>2, <2>1, <2>2, SeqIs
  <2>4. ASSUME NEW p \in WornBy(u, c) PROVE Before(s, o, p)
    <3>1. p \in ToSet(s)
      BY <1>2, <2>4, InUseIs
    <3>2. PICK k \in 1 .. Len(s) : s[k] = p
      BY <1>2, <3>1, SeqIs
    <3>3. 1 <= k
      BY <2>2, <3>2
    <3>4. QED
      BY <2>1, <2>2, <3>2, <3>3 DEF Before
  <2>5. o # None
    BY <2>3, Where
  <2>6. QED
    BY <1>1, <1>2, <2>3, <2>4, <2>5 DEF Remains
<1>5. QED
  BY <1>3, <1>4

LEMMA BeginSteps ==
  ASSUME Fit, NEW c \in Chars, NEW what \in Loops \ {"none", "quit"}, Begin(c, what)
  PROVE  Fit' /\ ~Astray'
<1>1. PICK o : o = FirstOf(w.contents[c])
  OBVIOUS
<1>2. /\ Playing(c) /\ loop' = [what |-> what, ch |-> c, obj |-> o]
      /\ UNCHANGED <<scene, affected, w, in_room, doubled>>
  BY <1>1 DEF Begin, Starts, FirstOf
<1>3. /\ in_room[c] \in Rooms /\ scene \in Scenes /\ Fits(w, in_room, affected)
  BY <1>2, PlayingIs
<1>4. Remains(w, c, o) /\ o \in Objs \cup {None} /\ (o # None => o \in Carried(w, c))
  BY <1>1, <1>3, FirstIs DEF Fits
<1>5. loop'.what = what /\ loop'.ch = c /\ loop'.obj = o
  BY <1>2
<1>6. ~Astray'
  BY <1>2, <1>4, <1>5 DEF Astray
<1>7. Types'
  BY <1>2, <1>4 DEF Fit, Types
<1>8. WalkInv'
  <2>1. in_room'[c] # None
    BY <1>2, <1>3, Where
  <2>2. Remains(w, loop.ch, loop.obj)'
    BY <1>2, <1>4, <1>5
  <2>3. QED
    BY <1>5, <2>1, <2>2 DEF WalkInv
<1>9. PICK t : t = w'
  OBVIOUS
<1>10. PICK to : to = in_room'
  OBVIOUS
<1>11. PICK eff : eff = affected'
  OBVIOUS
<1>12. Fits(w, in_room, affected)' /\ (Bright(w, in_room)' <=> Bright(w, in_room))
  BY <1>2, <1>3, <1>9, <1>10, <1>11, FitsNext
<1>13. QED
  BY <1>2, <1>6, <1>7, <1>8, <1>12 DEF Fit

(* do_quit                                                                  *)
LEMMA QuitSteps ==
  ASSUME Fit, NEW c \in Chars, NEW editing \in BOOLEAN, Quit(c, editing)
  PROVE  Fit' /\ ~Astray'
<1>1. PICK o : o = FirstOf(w.contents[c])
  OBVIOUS
<1>2. PICK s : s = IF editing THEN w ELSE Saved(w, c)
  OBVIOUS
<1>3. /\ Playing(c) /\ loop' = [what |-> "quit", ch |-> c, obj |-> o]
      /\ w' = Moved(s, c, Limbo) /\ in_room' = [in_room EXCEPT ![c] = Limbo]
      /\ doubled' = (doubled \/ TwoLamps(w, c)) /\ UNCHANGED <<scene, affected>>
  BY <1>1, <1>2 DEF Quit, Starts, FirstOf
<1>4. /\ in_room[c] \in Rooms /\ scene \in Scenes /\ Fits(w, in_room, affected)
      /\ in_room \in [Chars -> Rooms \cup {None}] /\ affected \in [Chars -> SUBSET AffType]
  BY <1>3, PlayingIs
<1>5. /\ Fits(s, in_room, affected) /\ (Bright(w, in_room) => Bright(s, in_room))
      /\ s.contents = w.contents /\ Lamps(s, c) = Lamps(w, c)
  <2>1. CASE editing
    BY <1>2, <1>4, <2>1
  <2>2. CASE ~editing
    <3>1. s = Saved(w, c)
      BY <1>2, <2>2
    <3>2. Filed(w, s, c) /\ Onward(w, s)
      BY <1>4, <3>1, SavedFits
    <3>3. s.contents = w.contents /\ Lamps(s, c) = Lamps(w, c)
      BY <3>2 DEF Filed, Lamps, Carried
    <3>4. QED
      BY <3>2, <3>3 DEF Onward
  <2>3. QED
    BY <2>1, <2>2
<1>6. PICK t : t = w'
  OBVIOUS
<1>7. PICK to : to = in_room'
  OBVIOUS
<1>8. Limbo \in Rooms /\ t = Moved(s, c, Limbo) /\ to = [in_room EXCEPT ![c] = Limbo]
  BY <1>3, <1>6, <1>7, Where
<1>9. Fits(t, to, affected) /\ (~TwoLamps(s, c) /\ Bright(s, in_room) => Bright(t, to)) /\ Rest(s, t)
  BY <1>4, <1>5, <1>8, Moving
<1>10. t.contents = w.contents /\ TwoLamps(s, c) = TwoLamps(w, c)
  BY <1>5, <1>9 DEF Rest, TwoLamps
<1>11. o = FirstOf(t.contents[c]) /\ Sound(t)
  BY <1>1, <1>9, <1>10 DEF Fits
<1>12. Remains(t, c, o) /\ o \in Objs \cup {None} /\ (o # None => o \in Carried(t, c))
  BY <1>4, <1>11, FirstIs
<1>13. loop'.what = "quit" /\ loop'.ch = c /\ loop'.obj = o
  BY <1>3
<1>14. ~Astray'
  BY <1>6, <1>12, <1>13 DEF Astray
<1>15. Types'
  <2>1. in_room' \in [Chars -> Rooms \cup {None}]
    BY <1>4, <1>7, <1>8
  <2>2. doubled' \in BOOLEAN
    BY <1>3 DEF Fit, Types
  <2>3. loop' \in [what : Loops, ch : Chars \cup {None}, obj : Objs \cup {None}]
    BY <1>3, <1>12 DEF Loops
  <2>4. QED
    BY <1>3, <1>4, <2>1, <2>2, <2>3 DEF Types
<1>16. WalkInv'
  <2>1. in_room'[c] # None
    BY <1>3, <1>4, <1>8, Where
  <2>2. Remains(w, loop.ch, loop.obj)'
    BY <1>6, <1>12, <1>13
  <2>3. QED
    BY <1>13, <2>1, <2>2 DEF WalkInv
<1>17. PICK eff : eff = affected'
  OBVIOUS
<1>18. Fits(w, in_room, affected)' /\ (Bright(w, in_room)' <=> Bright(t, to))
  BY <1>3, <1>6, <1>7, <1>9, <1>17, FitsNext
<1>19. (~doubled => Bright(w, in_room))'
  BY <1>3, <1>5, <1>9, <1>10, <1>18 DEF Fit
<1>20. QED
  BY <1>14, <1>15, <1>16, <1>18, <1>19 DEF Fit

(* load_char_obj                                                            *)
LEMMA LoginStep ==
  ASSUME Fit, NEW c \in Chars, Login(c)
  PROVE  Fit'
<1>1. PICK f : f = w.file[c]
  OBVIOUS
<1>a. \E s \in [DOMAIN w.file[c].things -> Unused(w)] :
        /\ IsInjective(s) /\ \A i \in DOMAIN w.file[c].things : kit[s[i]] = w.file[c].things[i].kit
        /\ w' = ToRoom(Filled(Created(With(w, c, w.file[c]), ToSet(s)), c, w.file[c], s), c, w.file[c].in_room)
        /\ doubled' = (doubled \/ TwoLamps(Filled(Created(With(w, c, w.file[c]), ToSet(s)), c, w.file[c], s), c))
  BY Zenon DEF Login, Filled
<1>2. PICK s \in [DOMAIN f.things -> Unused(w)] :
        /\ IsInjective(s) /\ \A i \in DOMAIN f.things : kit[s[i]] = f.things[i].kit
        /\ w' = ToRoom(Filled(Created(With(w, c, f), ToSet(s)), c, f, s), c, f.in_room)
        /\ doubled' = (doubled \/ TwoLamps(Filled(Created(With(w, c, f), ToSet(s)), c, f, s), c))
  BY <1>1, <1>a, Zenon
<1>3. /\ loop.what = "none" /\ in_room[c] = None /\ in_room' = [in_room EXCEPT ![c] = f.in_room]
      /\ affected' = [affected EXCEPT ![c] = f.affected] /\ UNCHANGED <<scene, loop>>
  BY <1>1 DEF Login
<1>4. PICK t : t = Filled(Created(With(w, c, f), ToSet(s)), c, f, s)
  OBVIOUS
<1>5. PICK u : u = w'
  OBVIOUS
<1>6. PICK to : to = in_room'
  OBVIOUS
<1>7. PICK eff : eff = affected'
  OBVIOUS
<1>8. /\ scene \in Scenes /\ in_room \in [Chars -> Rooms \cup {None}]
      /\ affected \in [Chars -> SUBSET AffType] /\ doubled \in BOOLEAN
      /\ Fits(w, in_room, affected) /\ (~doubled => Bright(w, in_room))
  BY DEF Fit, Types
<1>9. u = ToRoom(t, c, f.in_room) /\ doubled' = (doubled \/ TwoLamps(t, c))
  BY <1>2, <1>4, <1>5
<1>10. /\ Fits(u, to, eff) /\ f.in_room \in Rooms /\ f.affected \in SUBSET AffType
       /\ ~TwoLamps(t, c) /\ Bright(w, in_room) => Bright(u, to)
  <2>1. Fetches(w, c, f, s)
    BY <1>1, <1>2 DEF Fetches
  <2>2. in_room[c] = None /\ Sets(in_room, to, c, f.in_room)
    BY <1>3, <1>6 DEF Sets
  <2>3. Sets(affected, eff, c, f.affected)
    BY <1>3, <1>7 DEF Sets
  <2>4. QED
    BY <1>1, <1>4, <1>8, <1>9, <2>1, <2>2, <2>3, LoggingIn
<1>11. loop' = Idle
  BY <1>3 DEF Fit, WalkInv
<1>12. in_room' \in [Chars -> Rooms \cup {None}] /\ affected' \in [Chars -> SUBSET AffType]
  BY <1>3, <1>8, <1>10
<1>13. doubled' \in BOOLEAN
  BY <1>9 DEF TwoLamps
<1>14. ~doubled' => Bright(u, to)
  BY <1>8, <1>9, <1>10
<1>15. QED
  BY <1>3, <1>5, <1>6, <1>7, <1>10, <1>11, <1>12, <1>13, <1>14, SettledStep

(* The end of the process.                                                  *)
LEMMA DownStep ==
  ASSUME Fit, NEW saves \in BOOLEAN, Down(saves)
  PROVE  Fit'
<1>1. PICK u : u = w'
  OBVIOUS
<1>2. PICK to : to = in_room'
  OBVIOUS
<1>3. PICK eff : eff = affected'
  OBVIOUS
<1>4. /\ w' = [Empty EXCEPT
                 !.file = [c \in Chars |->
                             IF saves /\ c \in scene.players /\ in_room[c] # None
                             THEN Image(w, c, in_room[c], affected[c]) ELSE w.file[c]]]
      /\ in_room' = [c \in Chars |-> None] /\ affected' = [c \in Chars |-> {}]
      /\ loop' = Idle /\ doubled' = FALSE /\ scene' = scene
  BY DEF Down
<1>5. /\ scene \in Scenes /\ in_room \in [Chars -> Rooms \cup {None}] /\ Fits(w, in_room, affected)
  BY DEF Fit, Types
<1>6. \A c \in Chars : eff[c] = {}
  BY <1>3, <1>4
<1>7. Fits(u, to, eff) /\ Bright(u, to)
  BY <1>1, <1>4, <1>5, <1>6, Rebooting
<1>8. in_room' \in [Chars -> Rooms \cup {None}] /\ affected' \in [Chars -> SUBSET AffType]
  BY <1>4
<1>9. doubled' \in BOOLEAN
  BY <1>4
<1>10. QED
  BY <1>1, <1>2, <1>3, <1>4, <1>7, <1>8, <1>9, SettledStep

LEMMA InitFit == Init => Fit
<1>1. SUFFICES ASSUME Init PROVE Fit
  OBVIOUS
<1>2. /\ scene \in Scenes /\ loop = Idle /\ doubled = FALSE
      /\ w = [Empty EXCEPT !.contents[Altar] = SetToSeq(Things),
                           !.lit = {o \in Things : kit[o].type = "light"}]
      /\ in_room = [c \in Chars |-> Altar] /\ affected = [c \in Chars |-> {}]
  BY <1>1 DEF Init
<1>3. Idle.what = "none" /\ Idle.ch = None /\ Idle.obj = None
  BY DEF Idle
<1>4. PICK u : u = w
  OBVIOUS
<1>5. PICK aff : aff = affected
  OBVIOUS
<1>6. PICK at : at = in_room
  OBVIOUS
<1>7. \A c \in Chars : aff[c] = {}
  BY <1>2, <1>5
<1>8. Fits(u, at, aff) /\ Bright(u, at)
  BY <1>2, <1>4, <1>7, Starting
<1>9. loop \in [what : Loops, ch : Chars \cup {None}, obj : Objs \cup {None}]
  BY <1>2 DEF Idle, Loops
<1>10. in_room \in [Chars -> Rooms \cup {None}] /\ affected \in [Chars -> SUBSET AffType]
  BY <1>2, Where
<1>11. Types
  BY <1>2, <1>9, <1>10 DEF Types
<1>12. WalkInv
  BY <1>2, <1>3 DEF WalkInv, Stripping
<1>13. QED
  BY <1>4, <1>5, <1>6, <1>8, <1>11, <1>12 DEF Fit

(* The object after o in the list s.                                        *)
NextAt(s, o) == LET i == CHOOSE j \in DOMAIN s : s[j] = o
                IN  IF i = Len(s) THEN None ELSE s[i + 1]

LEMMA NextIs ==
  ASSUME scene \in Scenes, Sound(w), NEW c \in Chars, NEW o \in Carried(w, c), NEW n, n = NextContent(o),
         NEW s, s = w.contents[c]
  PROVE  /\ n \in Objs \cup {None} /\ (n # None => n \in Carried(w, c) /\ n # o)
         /\ \A p : p # o /\ Before(s, o, p) => n # None /\ Before(s, n, p)
<1>1. /\ s \in Seq(Objs) /\ IsInjective(s) /\ Carried(w, c) = ToSet(s) /\ c \in Holders
  BY CarriedIs, Where
<1>2. PICK h : h = CHOOSE x \in Holders : o \in ToSet(w.contents[x])
  OBVIOUS
<1>3. h \in Holders /\ o \in ToSet(w.contents[h])
  BY <1>1, <1>2
<1>4. h = c
  BY <1>1, <1>3 DEF Sound, Disjoint
<1>5. PICK i : i = CHOOSE j \in DOMAIN s : s[j] = o
  OBVIOUS
<1>6. Len(s) \in Nat /\ DOMAIN s = 1 .. Len(s)
  BY <1>1
<1>7. i \in 1 .. Len(s) /\ s[i] = o
  <2>1. \E j \in DOMAIN s : s[j] = o
    BY <1>1, <1>6, SeqIs
  <2>2. QED
    BY <1>5, <1>6, <2>1
<1>8. n = IF i = Len(s) THEN None ELSE s[i + 1]
  <2>1. n = NextAt(w.contents[CHOOSE x \in Holders : o \in ToSet(w.contents[x])], o)
    BY DEF NextContent, NextAt
  <2>2. n = NextAt(s, o)
    BY <1>2, <1>4, <2>1
  <2>3. QED
    BY <1>5, <2>2 DEF NextAt
<1>9. \A j, k \in 1 .. Len(s) : s[j] = s[k] => j = k
  BY <1>1, <1>6 DEF IsInjective
<1>10. n # None => n \in Objs /\ n \in ToSet(s) /\ n # o
  <2>1. CASE i = Len(s)
    BY <1>8, <2>1
  <2>2. CASE i # Len(s)
    <3>1. i + 1 \in 1 .. Len(s) /\ n = s[i + 1] /\ i + 1 # i
      BY <1>6, <1>7, <1>8, <2>2
    <3>2. n # o
      BY <1>7, <1>9, <3>1
    <3>3. QED
      BY <1>1, <3>1, <3>2, SeqIs
  <2>3. QED
    BY <2>1, <2>2
<1>11. ASSUME NEW p, p # o, Before(s, o, p) PROVE n # None /\ Before(s, n, p)
  <2>1. PICK j, k \in DOMAIN s : j <= k /\ s[j] = o /\ s[k] = p
    BY <1>11 DEF Before
  <2>2. j = i /\ k # i
    BY <1>6, <1>7, <1>9, <1>11, <2>1
  <2>3. i < k /\ i + 1 <= k /\ i + 1 \in 1 .. Len(s) /\ i # Len(s)
    BY <1>6, <1>7, <2>1, <2>2
  <2>4. n = s[i + 1]
    BY <1>8, <2>3
  <2>5. n # None
    <3>1. n \in Objs
      BY <1>1, <2>3, <2>4, SeqIs
    <3>2. QED
      BY <3>1, Where
  <2>6. Before(s, n, p)
    BY <1>6, <2>1, <2>3, <2>4 DEF Before
  <2>7. QED
    BY <2>5, <2>6
<1>12. n \in Objs \cup {None}
  BY <1>10
<1>13. QED
  BY <1>1, <1>10, <1>11, <1>12

(* What somebody's walk reaches.                                            *)
LEMMA ReachedIs ==
  ASSUME Fit, NEW what, Reached(what), NEW c, c = loop.ch, NEW o, o = loop.obj
  PROVE  /\ scene \in Scenes /\ Fits(w, in_room, affected) /\ Sound(w)
         /\ c \in Chars /\ in_room[c] \in Rooms /\ o \in Carried(w, c) /\ o \in Things
         /\ loop.what = what /\ what # "none" /\ what \in Loops
         /\ what \in Stripping => Remains(w, c, o)
<1>1. scene \in Scenes /\ Fits(w, in_room, affected) /\ Sound(w)
  BY DEF Fit, Types, Fits
<1>2. loop.what = what /\ o # None /\ ~Astray
  BY DEF Reached
<1>3. what # "none"
  BY <1>2 DEF Fit, WalkInv, Idle
<1>4. c \in Chars /\ in_room[c] # None
  BY <1>2, <1>3 DEF Fit, WalkInv
<1>5. o \in Carried(w, c)
  BY <1>2 DEF Astray
<1>6. o \in Things
  BY <1>1, <1>4, <1>5, CarriedIs
<1>7. in_room[c] \in Rooms /\ what \in Loops
  BY <1>2, <1>4 DEF Fit, Types
<1>8. what \in Stripping => Remains(w, c, o)
  BY <1>2 DEF Fit, WalkInv
<1>9. QED
  BY <1>1, <1>2, <1>3, <1>4, <1>5, <1>6, <1>7, <1>8

Strips(v, u, c, o) == Less(v, u, c) /\ u.wear_loc[o] = "none"

(* What is left of a walk that takes everything off.                        *)
LEMMA StillRemains ==
  ASSUME scene \in Scenes, Sound(w), NEW c \in Chars, NEW o \in Carried(w, c), Remains(w, c, o),
         NEW v, Strips(w, v, c, o), NEW n, n = NextContent(o), n # None => n \in Carried(v, c)
  PROVE  Remains(v, c, n)
<1>1. SUFFICES ASSUME NEW p \in WornBy(v, c) PROVE n # None /\ Before(v.contents[c], n, p)
  BY DEF Remains
<1>2. p \in WornBy(w, c) /\ p # o
  BY <1>1, InUseIs DEF Strips, Less
<1>3. PICK s : s = w.contents[c]
  OBVIOUS
<1>4. Before(s, o, p)
  BY <1>2, <1>3 DEF Remains
<1>5. n # None /\ Before(s, n, p)
  BY <1>2, <1>3, <1>4, NextIs
<1>6. Before(v.contents[c], n, p)
  BY <1>1, <1>3, <1>5 DEF Strips, Less
<1>7. QED
  BY <1>5, <1>6

LEMMA IterationStep ==
  ASSUME Fit, NEW what, Reached(what), NEW v, Iteration(what, v), Onward(w, v),
         NEW c, c = loop.ch, NEW o, o = loop.obj,
         Loses(w, v, c, o), what \in Stripping => Strips(w, v, c, o)
  PROVE  Fit' /\ (Astray' => Fell(w, v, c, loop'.obj, o))
<1>1. /\ scene \in Scenes /\ Fits(w, in_room, affected) /\ Sound(w)
      /\ c \in Chars /\ in_room[c] \in Rooms /\ o \in Carried(w, c) /\ o \in Things
      /\ loop.what = what /\ what # "none" /\ what \in Loops
      /\ what \in Stripping => Remains(w, c, o)
  BY ReachedIs
<1>2. PICK n : n = NextContent(o)
  OBVIOUS
<1>3. w' = v /\ loop' = [loop EXCEPT !.obj = n] /\ UNCHANGED <<scene, in_room, affected, doubled>>
  BY <1>2 DEF Iteration
<1>4. PICK s : s = w.contents[c]
  OBVIOUS
<1>5. n \in Objs \cup {None} /\ (n # None => n \in Carried(w, c) /\ n # o)
  BY <1>1, <1>2, <1>4, NextIs
<1>6. loop \in [what : Loops, ch : Chars \cup {None}, obj : Objs \cup {None}]
  BY DEF Fit, Types
<1>7. /\ loop' \in [what : Loops, ch : Chars \cup {None}, obj : Objs \cup {None}]
      /\ loop'.what = what /\ loop'.ch = c /\ loop'.obj = n
  BY <1>1, <1>3, <1>5, <1>6
<1>8. Astray' <=> n # None /\ n \notin Carried(v, c)
  BY <1>3, <1>7 DEF Astray
<1>9. Astray' => Fell(w, v, c, loop'.obj, o)
  BY <1>5, <1>7, <1>8 DEF Loses
<1>10. Types'
  BY <1>3, <1>7 DEF Fit, Types
<1>11. WalkInv'
  <2>1. what \in Stripping /\ ~Astray' => Remains(v, c, n)
    BY <1>1, <1>2, <1>8, StillRemains
  <2>2. what \in Stripping /\ ~Astray' => Remains(w, loop.ch, loop.obj)'
    BY <1>3, <1>7, <2>1
  <2>3. in_room'[c] # None
    BY <1>1, <1>3, Where
  <2>4. QED
    BY <1>1, <1>7, <2>2, <2>3 DEF WalkInv
<1>12. PICK at : at = in_room'
  OBVIOUS
<1>13. PICK aff : aff = affected'
  OBVIOUS
<1>14. Fits(v, at, aff) /\ (Bright(w, in_room) => Bright(v, at))
  BY <1>3, <1>12, <1>13 DEF Onward
<1>15. Fits(w, in_room, affected)' /\ (Bright(w, in_room)' <=> Bright(v, at))
  BY <1>3, <1>12, <1>13, <1>14, FitsNext
<1>16. (~doubled => Bright(w, in_room))'
  BY <1>3, <1>14, <1>15 DEF Fit
<1>17. QED
  BY <1>9, <1>10, <1>11, <1>15, <1>16 DEF Fit

(* What is taken off in a walk that takes everything off.                   *)
LEMMA StrippedFits ==
  ASSUME scene \in Scenes, NEW v, Fits(v, in_room, affected), NEW c \in Chars, in_room[c] \in Rooms,
         NEW o, NEW u, Undone(v, u, c, o)
  PROVE  Onward(v, u) /\ Strips(v, u, c, o)
<1>1. Sound(v) /\ in_room[c] # None
  BY Where DEF Fits
<1>2. Steady(v, u, c)
  BY <1>1, UndoneSteady
<1>3. QED
  BY <1>1, <1>2, SteadyFits DEF Strips, Undone

(* do_wear and do_remove                                                    *)
LEMMA DressSteps ==
  ASSUME Fit, WearNext \/ RemoveNext
  PROVE  Fit' /\ (Astray' => Fell(w, w', loop.ch, loop'.obj, loop.obj))
<1>1. PICK c : c = loop.ch
  OBVIOUS
<1>2. PICK o : o = loop.obj
  OBVIOUS
<1>3. CASE WearNext
  <2>1. Reached("wear")
    BY <1>3 DEF WearNext
  <2>2. PICK found, zap : Iteration("wear", IF IsWorn(o) THEN w ELSE Worn(w, c, o, FALSE, found, zap))
    BY <1>1, <1>2, <1>3 DEF WearNext
  <2>3. PICK v : v = IF IsWorn(o) THEN w ELSE Worn(w, c, o, FALSE, found, zap)
    OBVIOUS
  <2>4. /\ scene \in Scenes /\ Fits(w, in_room, affected)
        /\ c \in Chars /\ in_room[c] \in Rooms /\ o \in Carried(w, c)
    BY <1>1, <1>2, <2>1, ReachedIs
  <2>5. Onward(w, v) /\ Loses(w, v, c, o)
    <3>1. CASE IsWorn(o)
      BY <2>3, <2>4, <3>1, OnwardNone DEF Loses
    <3>2. CASE ~IsWorn(o)
      <4>1. PICK no : no = FALSE
        OBVIOUS
      <4>2. v = Worn(w, c, o, no, found, zap) /\ w.wear_loc[o] = "none"
        BY <2>3, <3>2, <4>1 DEF IsWorn
      <4>3. QED
        BY <2>4, <4>1, <4>2, Wearing
    <3>3. QED
      BY <3>1, <3>2
  <2>6. Iteration("wear", v) /\ "wear" \notin Stripping
    BY <2>2, <2>3 DEF Stripping
  <2>7. w' = v
    BY <2>6 DEF Iteration
  <2>8. QED
    BY <1>1, <1>2, <2>1, <2>5, <2>6, <2>7, IterationStep
<1>4. CASE RemoveNext
  <2>1. Reached("remove")
    BY <1>4 DEF RemoveNext
  <2>2. PICK found : Iteration("remove", IF IsWorn(o) THEN TakenOff(w, c, o, found) ELSE w)
    BY <1>1, <1>2, <1>4 DEF RemoveNext
  <2>3. PICK v : v = IF IsWorn(o) THEN TakenOff(w, c, o, found) ELSE w
    OBVIOUS
  <2>4. /\ scene \in Scenes /\ Fits(w, in_room, affected)
        /\ c \in Chars /\ in_room[c] \in Rooms /\ o \in Carried(w, c)
    BY <1>1, <1>2, <2>1, ReachedIs
  <2>5. Onward(w, v) /\ Loses(w, v, c, o)
    <3>1. CASE ~IsWorn(o)
      BY <2>3, <2>4, <3>1, OnwardNone DEF Loses
    <3>2. CASE IsWorn(o)
      <4>1. v = TakenOff(w, c, o, found) /\ o \in WornBy(w, c)
        BY <2>3, <2>4, <3>2, InUseIs DEF IsWorn
      <4>2. QED
        BY <2>4, <4>1, TakingOff
    <3>3. QED
      BY <3>1, <3>2
  <2>6. Iteration("remove", v) /\ "remove" \notin Stripping
    BY <2>2, <2>3 DEF Stripping
  <2>7. w' = v
    BY <2>6 DEF Iteration
  <2>8. QED
    BY <1>1, <1>2, <2>1, <2>5, <2>6, <2>7, IterationStep
<1>5. QED
  BY <1>3, <1>4

(* group_gain                                                               *)
LEMMA ZapStep ==
  ASSUME Fit, ZapNext
  PROVE  Fit' /\ (Astray' => Fell(w, w', loop.ch, loop'.obj, loop.obj))
<1>1. PICK c : c = loop.ch
  OBVIOUS
<1>2. PICK o : o = loop.obj
  OBVIOUS
<1>3. Reached("zap")
  BY DEF ZapNext
<1>4. PICK found \in Lookups, zap \in BOOLEAN :
        Iteration("zap", IF IsWorn(o) /\ zap THEN Discarded(w, c, o, found, AffectModify) ELSE w)
  BY <1>1, <1>2 DEF ZapNext, Zaps
<1>5. PICK v : v = IF IsWorn(o) /\ zap THEN Discarded(w, c, o, found, AffectModify) ELSE w
  OBVIOUS
<1>6. /\ scene \in Scenes /\ Fits(w, in_room, affected)
      /\ c \in Chars /\ in_room[c] \in Rooms /\ o \in Carried(w, c)
  BY <1>1, <1>2, <1>3, ReachedIs
<1>7. Onward(w, v) /\ Loses(w, v, c, o)
  <2>1. CASE ~(IsWorn(o) /\ zap)
    BY <1>5, <1>6, <2>1, OnwardNone DEF Loses
  <2>2. CASE IsWorn(o) /\ zap
    <3>1. v = Discarded(w, c, o, found, AffectModify)
      BY <1>5, <2>2
    <3>2. QED
      BY <1>6, <3>1, Discarding
  <2>3. QED
    BY <2>1, <2>2
<1>8. Iteration("zap", v) /\ "zap" \notin Stripping
  BY <1>4, <1>5 DEF Stripping
<1>9. w' = v
  BY <1>8 DEF Iteration
<1>10. QED
  BY <1>1, <1>2, <1>3, <1>7, <1>8, <1>9, IterationStep

(* make_corpse and extract_char                                             *)
LEMMA PartSteps ==
  ASSUME Fit, BuryNext \/ QuitNext
  PROVE  Fit' /\ (Astray' => Fell(w, w', loop.ch, loop'.obj, loop.obj))
<1>1. PICK c : c = loop.ch
  OBVIOUS
<1>2. PICK o : o = loop.obj
  OBVIOUS
<1>3. ASSUME NEW what, Reached(what), NEW found, NEW r, r = FromChar(w, c, o, found, AffectModify)
      PROVE  /\ scene \in Scenes /\ Fits(w, in_room, affected) /\ Sound(w)
             /\ c \in Chars /\ in_room[c] \in Rooms /\ o \in Carried(w, c) /\ o \in Things
             /\ Undone(w, r, c, o) /\ Nowhere(r, o) /\ Loses(w, r, c, o)
  <2>1. /\ scene \in Scenes /\ Fits(w, in_room, affected) /\ Sound(w)
        /\ c \in Chars /\ in_room[c] \in Rooms /\ o \in Carried(w, c) /\ o \in Things
    BY <1>1, <1>2, <1>3, ReachedIs
  <2>2. Undone(w, r, c, o) /\ Nowhere(r, o) /\ Loses(w, r, c, o)
    BY <1>3, <2>1, FromCharTakes
  <2>3. QED
    BY <2>1, <2>2
<1>4. CASE BuryNext
  <2>1. Reached("corpse")
    BY <1>4 DEF BuryNext
  <2>2. PICK found \in Lookups, vanish \in BOOLEAN :
          LET off == FromChar(w, c, o, found, AffectModify)
          IN  Iteration("corpse", IF vanish THEN off ELSE PutIn(off, Corpse, o))
    BY <1>1, <1>2, <1>4 DEF BuryNext
  <2>3. PICK r : r = FromChar(w, c, o, found, AffectModify)
    OBVIOUS
  <2>4. PICK v : v = IF vanish THEN r ELSE PutIn(r, Corpse, o)
    OBVIOUS
  <2>5. /\ scene \in Scenes /\ Fits(w, in_room, affected) /\ Sound(w)
        /\ c \in Chars /\ in_room[c] \in Rooms /\ o \in Carried(w, c) /\ o \in Things
        /\ Undone(w, r, c, o) /\ Nowhere(r, o) /\ Loses(w, r, c, o)
    BY <1>3, <2>1, <2>3
  <2>6. Undone(w, v, c, o) /\ Loses(w, v, c, o)
    <3>1. CASE vanish
      BY <2>4, <2>5, <3>1
    <3>2. CASE ~vanish
      <4>1. PICK h : h = Corpse
        OBVIOUS
      <4>2. v = PutIn(r, h, o) /\ h \in Rooms \cup {Corpse}
        BY <2>4, <3>2, <4>1
      <4>3. QED
        BY <2>5, <4>2, PutKeeps
    <3>3. QED
      BY <3>1, <3>2
  <2>7. Onward(w, v) /\ Strips(w, v, c, o)
    BY <2>5, <2>6, StrippedFits
  <2>8. Iteration("corpse", v)
    BY <2>2, <2>3, <2>4
  <2>9. w' = v
    BY <2>8 DEF Iteration
  <2>10. QED
    BY <1>1, <1>2, <2>1, <2>6, <2>7, <2>8, <2>9, IterationStep
<1>5. CASE QuitNext
  <2>1. Reached("quit")
    BY <1>5 DEF QuitNext
  <2>2. PICK found : Iteration("quit", FromChar(w, c, o, found, AffectModify))
    BY <1>1, <1>2, <1>5 DEF QuitNext
  <2>3. PICK r : r = FromChar(w, c, o, found, AffectModify)
    OBVIOUS
  <2>4. /\ scene \in Scenes /\ Fits(w, in_room, affected) /\ c \in Chars /\ in_room[c] \in Rooms
        /\ Undone(w, r, c, o) /\ Loses(w, r, c, o)
    BY <1>3, <2>1, <2>3
  <2>5. Onward(w, r) /\ Strips(w, r, c, o)
    BY <2>4, StrippedFits
  <2>6. Iteration("quit", r)
    BY <2>2, <2>3
  <2>7. w' = r
    BY <2>6 DEF Iteration
  <2>8. QED
    BY <1>1, <1>2, <2>1, <2>4, <2>5, <2>6, <2>7, IterationStep
<1>6. QED
  BY <1>4, <1>5

(* What is taken off and carried on.                                        *)
LEMMA TakenBack ==
  ASSUME scene \in Scenes, NEW v, Sound(v), NEW c \in Chars, NEW o \in Carried(v, c), NEW r,
         Undone(v, r, c, o), Nowhere(r, o), Loses(v, r, c, o), NEW u, u = PutIn(r, c, o)
  PROVE  Undone(v, u, c, o) /\ (in_room[c] \in Rooms => Loses(v, u, c, o))
<1>1. Sound(r) /\ o \in Things /\ c \in Holders /\ r.wear_loc[o] = "none" /\ Aside(v, r, c) /\ Less(v, r, c)
  BY CarriedIs, Where DEF Undone
<1>2. PlacedIn(r, u, c, o)
  BY <1>1, PuttingIn
<1>3. Sound(u) /\ Rearranged(r, u) /\ \A h \in Holders : h # c => u.contents[h] = r.contents[h]
  BY <1>2 DEF PlacedIn
<1>4. Prepended(r.contents[c], o, u.contents[c])
  BY <1>2 DEF PlacedIn
<1>5. Carried(u, c) = Carried(r, c) \cup {o}
  BY <1>4 DEF Prepended, Carried
<1>6. Carried(u, c) \subseteq Carried(v, c)
  BY <1>1, <1>5 DEF Aside
<1>7. WornBy(u, c) = WornBy(r, c) /\ \A d \in Chars : d # c => u.contents[d] = r.contents[d]
  BY <1>3, Where DEF Rearranged
<1>8. ASSUME NEW x \in Carried(u, c), NEW y \in WornBy(u, c), Before(v.contents[c], x, y)
      PROVE  Before(u.contents[c], x, y)
  <2>1. CASE x = o
    <3>1. y \in ToSet(u.contents[c])
      BY <1>8, InUseIs DEF Carried
    <3>2. QED
      BY <1>4, <2>1, <3>1 DEF Prepended
  <2>2. CASE x # o
    <3>1. Before(r.contents[c], x, y)
      BY <1>1, <1>5, <1>7, <1>8, <2>2 DEF Less
    <3>2. QED
      BY <1>4, <3>1 DEF Prepended
  <2>3. QED
    BY <2>1, <2>2
<1>9. Undone(v, u, c, o)
  BY <1>3, <1>6, <1>7, <1>8, UndoneMoved
<1>10. ASSUME in_room[c] \in Rooms PROVE Loses(v, u, c, o)
  <2>1. u.contents[in_room[c]] = r.contents[in_room[c]]
    BY <1>3, <1>10, Where
  <2>2. \A y : Fell(v, r, c, y, o) => Fell(v, u, c, y, o)
    BY <2>1 DEF Fell
  <2>3. QED
    BY <1>5, <2>2 DEF Loses
<1>11. QED
  BY <1>9, <1>10

(* do_clearstats                                                            *)
LEMMA ClearStep ==
  ASSUME Fit, ClearNext
  PROVE  Fit' /\ (Astray' => Fell(w, w', loop.ch, loop'.obj, loop.obj))
<1>1. PICK c : c = loop.ch
  OBVIOUS
<1>2. PICK o : o = loop.obj
  OBVIOUS
<1>3. Reached("clear")
  BY DEF ClearNext
<1>4. PICK found :
        Iteration("clear", IF IsWorn(o) THEN PutIn(FromChar(w, c, o, found, AffectModify), c, o) ELSE w)
  BY <1>1, <1>2 DEF ClearNext
<1>5. PICK r : r = FromChar(w, c, o, found, AffectModify)
  OBVIOUS
<1>6. PICK v : v = IF IsWorn(o) THEN PutIn(r, c, o) ELSE w
  OBVIOUS
<1>7. /\ scene \in Scenes /\ Fits(w, in_room, affected) /\ Sound(w)
      /\ c \in Chars /\ in_room[c] \in Rooms /\ o \in Carried(w, c)
  BY <1>1, <1>2, <1>3, ReachedIs
<1>8. Undone(w, v, c, o) /\ Loses(w, v, c, o)
  <2>1. CASE ~IsWorn(o)
    <3>1. v = w /\ w.wear_loc[o] = "none"
      BY <1>6, <2>1 DEF IsWorn
    <3>2. Undone(w, w, c, o)
      BY <1>7, <3>1, UndoneIdle
    <3>3. QED
      BY <3>1, <3>2 DEF Loses
  <2>2. CASE IsWorn(o)
    <3>1. v = PutIn(r, c, o)
      BY <1>6, <2>2
    <3>2. Undone(w, r, c, o) /\ Nowhere(r, o) /\ Loses(w, r, c, o)
      BY <1>5, <1>7, FromCharTakes
    <3>3. QED
      BY <1>7, <3>1, <3>2, TakenBack
  <2>3. QED
    BY <2>1, <2>2
<1>9. Onward(w, v) /\ Strips(w, v, c, o)
  BY <1>7, <1>8, StrippedFits
<1>10. Iteration("clear", v)
  BY <1>4, <1>5, <1>6
<1>11. w' = v
  BY <1>10 DEF Iteration
<1>12. QED
  BY <1>1, <1>2, <1>3, <1>8, <1>9, <1>10, <1>11, IterationStep

(* Nobody's walk is led astray where nobody walks.                          *)
LEMMA StandsStill ==
  ASSUME Fit, loop' = Idle \/ (loop.what = "none" /\ loop' = loop)
  PROVE  ~Astray'
<1>1. Idle.obj = None
  BY DEF Idle
<1>2. loop' = Idle
  BY DEF Fit, WalkInv
<1>3. QED
  BY <1>1, <1>2 DEF Astray

(* What a step does: it keeps everything fit, and what it leads astray is   *)
(* a weapon that has fallen.                                                *)
Keeps == Fit' /\ (Astray' => loop.ch \in Chars /\ Fell(w, w', loop.ch, loop'.obj, loop.obj))

LEMMA CommandSteps ==
  ASSUME Fit, NEW ch \in Chars,
         \/ \E type \in Spells : Blessed(ch, type)
         \/ \E d \in 1..2 : Poisoned(ch, d)
         \/ \E a \in affected[ch] : Expires(ch, a)
         \/ \E o \in Objs : Drop(ch, o) \/ Wear(ch, o) \/ TakeOff(ch, o) \/ BurnOut(ch, o)
         \/ \E o \in Objs, h \in Holders : Get(ch, h, o)
         \/ \E hand \in Hands : Sheath(ch, hand) \/ Draw(ch, hand)
         \/ \E r \in Rooms : Walk(ch, r)
         \/ \E o \in Objs : Enchant(ch, o)
         \/ Save(ch) \/ Login(ch)
  PROVE  Keeps
<1>1. CASE \/ \E type \in Spells : Blessed(ch, type)
           \/ \E d \in 1 .. 2 : Poisoned(ch, d)
           \/ \E a \in affected[ch] : Expires(ch, a)
  <2>1. Fit'
    BY <1>1, SpellSteps
  <2>2. loop.what = "none" /\ loop' = loop
    BY <1>1 DEF Blessed, Poisoned, Expires, Playing
  <2>3. QED
    BY <2>1, <2>2, StandsStill DEF Keeps
<1>2. CASE \E o \in Objs : Drop(ch, o) \/ Wear(ch, o) \/ TakeOff(ch, o) \/ BurnOut(ch, o)
  <2>1. PICK o : Drop(ch, o) \/ Wear(ch, o) \/ TakeOff(ch, o) \/ BurnOut(ch, o)
    BY <1>2
  <2>2. Fit'
    BY <2>1, ThingSteps
  <2>3. loop.what = "none" /\ loop' = loop
    BY <2>1 DEF Drop, Wear, TakeOff, BurnOut, Playing, rest
  <2>4. QED
    BY <2>2, <2>3, StandsStill DEF Keeps
<1>3. CASE \E o \in Objs, h \in Holders : Get(ch, h, o)
  <2>1. PICK o \in Objs, h \in Holders : Get(ch, h, o)
    BY <1>3
  <2>2. Fit'
    BY <2>1, ThingSteps
  <2>3. loop.what = "none" /\ loop' = loop
    BY <2>1 DEF Get, Playing, rest
  <2>4. QED
    BY <2>2, <2>3, StandsStill DEF Keeps
<1>4. CASE \E hand \in Hands : Sheath(ch, hand) \/ Draw(ch, hand)
  <2>1. PICK hand \in Hands : Sheath(ch, hand) \/ Draw(ch, hand)
    BY <1>4
  <2>2. Fit'
    BY <2>1, HandSteps
  <2>3. loop.what = "none" /\ loop' = loop
    BY <2>1 DEF Sheath, Draw, Playing, rest
  <2>4. QED
    BY <2>2, <2>3, StandsStill DEF Keeps
<1>5. CASE \E r \in Rooms : Walk(ch, r)
  <2>1. PICK r \in Rooms : Walk(ch, r)
    BY <1>5
  <2>2. Fit'
    BY <2>1, WalkSteps
  <2>3. loop.what = "none" /\ loop' = loop
    BY <2>1 DEF Walk, Playing
  <2>4. QED
    BY <2>2, <2>3, StandsStill DEF Keeps
<1>6. CASE \E o \in Objs : Enchant(ch, o)
  <2>1. PICK o \in Objs : Enchant(ch, o)
    BY <1>6
  <2>2. Fit'
    BY <2>1, OtherSteps
  <2>3. loop.what = "none" /\ loop' = loop
    BY <2>1 DEF Enchant, Playing, rest
  <2>4. QED
    BY <2>2, <2>3, StandsStill DEF Keeps
<1>7. CASE Save(ch)
  <2>1. Fit'
    BY <1>7, SaveSteps
  <2>2. loop.what = "none" /\ loop' = loop
    BY <1>7 DEF Save, Playing, rest
  <2>3. QED
    BY <2>1, <2>2, StandsStill DEF Keeps
<1>8. CASE Login(ch)
  <2>1. Fit'
    BY <1>8, LoginStep
  <2>2. loop.what = "none" /\ loop' = loop
    BY <1>8 DEF Login
  <2>3. QED
    BY <2>1, <2>2, StandsStill DEF Keeps
<1>9. QED
  BY <1>1, <1>2, <1>3, <1>4, <1>5, <1>6, <1>7, <1>8

LEMMA Iterations ==
  ASSUME Fit, WearNext \/ RemoveNext \/ BuryNext \/ ZapNext \/ ClearNext \/ QuitNext
  PROVE  Keeps
<1>1. Fit' /\ (Astray' => Fell(w, w', loop.ch, loop'.obj, loop.obj))
  BY DressSteps, ZapStep, PartSteps, ClearStep
<1>2. PICK what : Reached(what)
  BY DEF WearNext, RemoveNext, BuryNext, ZapNext, ClearNext, QuitNext
<1>3. loop.ch \in Chars
  BY <1>2, ReachedIs
<1>4. QED
  BY <1>1, <1>3 DEF Keeps

LEMMA NextKeeps ==
  ASSUME Fit, Next
  PROVE  Keeps
<1>1. CASE \E ch \in Chars :
             \/ \E type \in Spells : Blessed(ch, type)
             \/ \E d \in 1..2 : Poisoned(ch, d)
             \/ \E a \in affected[ch] : Expires(ch, a)
             \/ \E o \in Objs : Drop(ch, o) \/ Wear(ch, o) \/ TakeOff(ch, o) \/ BurnOut(ch, o)
             \/ \E o \in Objs, h \in Holders : Get(ch, h, o)
             \/ \E hand \in Hands : Sheath(ch, hand) \/ Draw(ch, hand)
             \/ \E r \in Rooms : Walk(ch, r)
             \/ \E o \in Objs : Enchant(ch, o)
             \/ Save(ch) \/ Login(ch)
  BY <1>1, CommandSteps
<1>2. CASE \E ch \in Chars : \E what \in Loops \ {"none", "quit"} : Begin(ch, what)
  <2>1. PICK ch \in Chars, what \in Loops \ {"none", "quit"} : Begin(ch, what)
    BY <1>2
  <2>2. QED
    BY <2>1, BeginSteps DEF Keeps
<1>3. CASE \E ch \in Chars : \E editing \in BOOLEAN : Quit(ch, editing)
  <2>1. PICK ch \in Chars, editing \in BOOLEAN : Quit(ch, editing)
    BY <1>3
  <2>2. QED
    BY <2>1, QuitSteps DEF Keeps
<1>4. CASE \E o \in Objs : (\E h \in Holders : Vanish(h, o)) \/ (\E r \in Rooms : Load(r, o))
  <2>1. PICK o \in Objs : (\E h \in Holders : Vanish(h, o)) \/ (\E r \in Rooms : Load(r, o))
    BY <1>4
  <2>2. Fit'
    BY <2>1, OtherSteps
  <2>3. loop.what = "none" /\ loop' = loop
    BY <2>1 DEF Vanish, Load, rest
  <2>4. QED
    BY <2>2, <2>3, StandsStill DEF Keeps
<1>5. CASE WearNext \/ RemoveNext \/ BuryNext \/ ZapNext \/ ClearNext \/ QuitNext
  BY <1>5, Iterations
<1>6. CASE AllDone \/ StatsCleared \/ WakesUp \/ Gone
  <2>1. Fit'
    BY <1>6, EndSteps
  <2>2. loop' = Idle
    BY <1>6 DEF AllDone, StatsCleared, WakesUp, Gone
  <2>3. QED
    BY <2>1, <2>2, StandsStill DEF Keeps
<1>7. CASE \E saves \in BOOLEAN : Down(saves)
  <2>1. PICK saves \in BOOLEAN : Down(saves)
    BY <1>7
  <2>2. Fit'
    BY <2>1, DownStep
  <2>3. loop' = Idle
    BY <2>1 DEF Down
  <2>4. QED
    BY <2>2, <2>3, StandsStill DEF Keeps
<1>8. QED
  BY <1>1, <1>2, <1>3, <1>4, <1>5, <1>6, <1>7 DEF Next

LEMMA NothingKeeps ==
  ASSUME Fit, UNCHANGED vars
  PROVE  Fit'
<1>1. UNCHANGED <<scene, w, in_room, affected, loop, doubled>>
  BY DEF vars
<1>2. PICK t : t = w
  OBVIOUS
<1>3. PICK at : at = in_room
  OBVIOUS
<1>4. PICK aff : aff = affected
  OBVIOUS
<1>5. Fits(w, in_room, affected)' /\ (Bright(w, in_room)' <=> Bright(w, in_room))
  BY <1>1, <1>2, <1>3, <1>4, FitsNext DEF Fit
<1>6. Astray' <=> Astray
  BY <1>1 DEF Astray
<1>7. Remains(w, loop.ch, loop.obj)' <=> Remains(w, loop.ch, loop.obj)
  BY <1>1
<1>8. Types' /\ WalkInv'
  BY <1>1, <1>6, <1>7 DEF Fit, Types, WalkInv
<1>9. QED
  BY <1>1, <1>5, <1>8 DEF Fit

(* Everything stays fit.                                                    *)
LEMMA StaysFit == Spec => []Fit
<1>1. Fit /\ [Next]_vars => Fit'
  BY NextKeeps, NothingKeeps DEF Keeps
<1>2. QED
  BY InitFit, <1>1, PTL DEF Spec

(* Every object is in one list at most and worn only by who carries it, one *)
(* in each place, whatever drops off whom in the middle of what (equip_char,*)
(* unequip_char, obj_from_char in handler.c).                               *)
THEOREM TypeCorrect == Spec => []TypeOK
<1>1. ASSUME Fit PROVE TypeOK
  <2>1. Types /\ Sound(w)
    BY <1>1 DEF Fit, Fits
  <2>2. /\ scene \in Scenes /\ in_room \in [Chars -> Rooms \cup {None}]
        /\ loop.what \in Loops /\ loop.ch \in Chars \cup {None} /\ loop.obj \in Objs \cup {None}
    BY <2>1 DEF Types
  <2>3. /\ w.wear_loc \in [Objs -> WearLocs] /\ w.lit \subseteq Objs
        /\ w.mod_str \in [Chars -> Int] /\ w.armor \in [Chars -> Int] /\ w.light \in [Rooms -> Int]
        /\ w.hitroll \in [Chars -> Int] /\ w.enchanted \subseteq w.marked /\ w.marked \subseteq Objs
        /\ w.flying \in [Chars -> BOOLEAN] /\ w.kept \in [Chars -> BOOLEAN]
    BY <2>1, Fields DEF Sound, Charmed
  <2>4. \A h \in Holders : IsInjective(w.contents[h]) /\ ToSet(w.contents[h]) \subseteq Objs
    BY <2>1, <2>2, ThingsAre DEF Sound, Listed
  <2>5. \A g, h \in Holders : g # h => ToSet(w.contents[g]) \cap ToSet(w.contents[h]) = {}
    BY <2>1 DEF Sound, Disjoint
  <2>6. \A o \in Objs : IsWorn(o) => \E c \in Chars : o \in Carried(w, c)
    BY <2>1 DEF Sound, Borne, IsWorn
  <2>7. \A c \in Chars : \A o, p \in WornBy(w, c) : w.wear_loc[o] = w.wear_loc[p] => o = p
    BY <2>1 DEF Sound, OneEach
  <2>8. QED
    BY <2>2, <2>3, <2>4, <2>5, <2>6, <2>7 DEF TypeOK
<1>2. QED
  BY StaysFit, <1>1, PTL

(* Strength, armour, hitroll and powers are what the spells on a player and *)
(* the pieces in use add up to, also in the middle of a walk, when a weapon *)
(* drops while another piece is being put on, and after a return to the     *)
(* game (affect_modify, equip_char, unequip_char, load_char_obj).           *)
THEOREM EffectsCorrect == Spec => []EffectsAddUp
<1>1. ASSUME Fit PROVE EffectsAddUp
  <2>1. scene \in Scenes /\ Sound(w) /\ \A c \in Chars : Person(w, in_room, affected, c)
    BY <1>1 DEF Fit, Types, Fits
  <2>2. ASSUME NEW c \in Chars
        PROVE  /\ w.mod_str[c] = Cast(affected[c]) + WornStr(w, c)
               /\ w.armor[c] = 100 - WornAC(w, c)
               /\ w.hitroll[c] = WornHit(w, c) + w.surplus[c]
    <3>1. Balanced(w, c, affected[c]) /\ OneOfEach(affected[c])
      BY <2>1 DEF Person
    <3>2. Cast(affected[c]) \in Int
      BY <3>1, CastType
    <3>3. /\ WornStr(w, c) \in Int /\ WornAC(w, c) \in Int /\ WornHit(w, c) \in Int
          /\ w.mod_str[c] \in Int /\ w.armor[c] \in Int /\ w.hitroll[c] \in Int
      BY <2>1, WornTypes
    <3>4. w.surplus[c] \in Int
      BY <2>1, Fields DEF Sound
    <3>5. /\ w.mod_str[c] - WornStr(w, c) = Cast(affected[c])
          /\ w.armor[c] + WornAC(w, c) = 100
          /\ w.hitroll[c] - WornHit(w, c) = w.surplus[c]
      BY <3>1 DEF Balanced, StrOf, ArmOf, HitOf
    <3>6. QED
      BY <3>2, <3>3, <3>4, <3>5
  <2>3. SumsAddUp
    BY <2>2 DEF SumsAddUp, Cast, WornStr, WornAC, WornHit
  <2>4. ASSUME NEW c \in Chars, w.flying[c]
        PROVE  w.kept[c] \/ IsAffected(c, "fly") \/ \E o \in InUse(w, c) : kit[o].flies
    <3>1. Sourced(w, c, affected[c])
      BY <2>1 DEF Person
    <3>2. QED
      BY <2>4, <3>1 DEF Sourced, Spelled, IsAffected
  <2>5. PowersHaveSource
    BY <2>4 DEF PowersHaveSource
  <2>6. QED
    BY <2>3, <2>5 DEF EffectsAddUp
<1>2. QED
  BY StaysFit, <1>1, PTL

(* Until somebody leaves or enters a room with two lamps, of which          *)
(* char_from_room and char_to_room count one, each room's count of lights   *)
(* is the number of lit lamps in the hands of those in it.                  *)
THEOREM LightsCorrect == Spec => []LightsAgree
<1>1. ASSUME Fit PROVE LightsAgree
  <2>1. ~doubled => Bright(w, in_room)
    BY <1>1 DEF Fit
  <2>2. QED
    BY <2>1 DEF LightsAgree, Bright, LampsOf
<1>2. QED
  BY StaysFit, <1>1, PTL

(* The walks over what somebody carries, which save the successor before    *)
(* each iteration, are led to another list by nothing but the wielded       *)
(* weapon, which falls when the piece at hand has made its owner too weak.  *)
THEOREM StraysCorrect == Spec => StraysAfterWeaponsOnly
<1>1. ASSUME Fit, Next PROVE StrayIsWeapon
  <2>1. SUFFICES ASSUME Astray' PROVE StrayIsWeapon
    BY DEF StrayIsWeapon
  <2>2. PICK c : c = loop.ch
    OBVIOUS
  <2>3. PICK y : y = loop'.obj
    OBVIOUS
  <2>4. PICK o : o = loop.obj
    OBVIOUS
  <2>5. c \in Chars /\ Fell(w, w', c, y, o)
    BY <1>1, <2>1, <2>2, <2>3, <2>4, NextKeeps DEF Keeps
  <2>6. PICK n : n = Swing(o)
    OBVIOUS
  <2>7. GetCurrStr([w EXCEPT !.mod_str[c] = @ - n], c) = Cut(w.mod_str[c] - n)
    <3>1. PICK u : u = [w EXCEPT !.mod_str[c] = @ - n]
      OBVIOUS
    <3>2. w \in WType
      BY <1>1 DEF Fit, Fits, Sound
    <3>3. u.mod_str[c] = w.mod_str[c] - n
      BY <2>5, <3>1, <3>2, Fields DEF WType
    <3>4. QED
      BY <3>1, <3>3, StrIsCut
  <2>8. /\ y = GetEqChar(w, c, "wield") /\ y \in ToSet(w'.contents[in_room[c]])
        /\ kit[y].type = "weapon"
        /\ kit[y].heft > GetCurrStr([w EXCEPT !.mod_str[c] = @ - n], c)
    BY <2>5, <2>6, <2>7 DEF Fell
  <2>9. QED
    BY <2>2, <2>3, <2>4, <2>6, <2>8, Zenon DEF StrayIsWeapon, Swing
<1>2. Fit /\ [Next]_vars => [StrayIsWeapon]_vars
  BY <1>1
<1>3. QED
  BY StaysFit, <1>2, PTL DEF Spec, StraysAfterWeaponsOnly
=============================================================================
