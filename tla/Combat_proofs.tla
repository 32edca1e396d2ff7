---------------------------- MODULE Combat_proofs ----------------------------
(***************************************************************************)
(* Proofs about Combat for any characters, rooms, groups and speeds: no    *)
(* fighting pointer outlives its structure, whoever is in POS_FIGHTING has *)
(* an opponent, the slain are out of it, and nobody has a turn too soon.   *)
(***************************************************************************)
EXTENDS Combat, SequenceTheorems, FunctionTheorems, FiniteSetTheorems, TLAPS

(* A list without anybody twice; d is reached on the way from c.           *)
Listed(s) == s \in Seq(Chars) /\ \A i, j \in 1 .. Len(s) : s[i] = s[j] => i = j
Ahead(s, c, d) == \E i, j \in 1 .. Len(s) : i <= j /\ s[i] = c /\ s[j] = d

(* The list holds exactly those who are fighting somebody.                 *)
OrderInv ==
  /\ Listed(order)
  /\ fighting \in [Chars -> Chars \cup {NULL}]
  /\ \A c \in Chars : In(order, c) <=> fighting[c] # NULL

(* Nobody is in two places, and only who is in none is dead.               *)
Placed(p) ==
  /\ p \in [Rooms -> Seq(Chars)]
  /\ \A r, q \in Rooms : \A i \in 1 .. Len(p[r]), j \in 1 .. Len(p[q]) :
       p[r][i] = p[q][j] => r = q /\ i = j
PlaceInv ==
  /\ Placed(people)
  /\ position \in [Chars -> Positions] /\ wounded \subseteq Players /\ init \in [Chars -> Nat]
  /\ \A c \in Chars : position[c] = "dead" <=> ~Present(c)

(* Opponents are in the game, and POS_FIGHTING comes with an opponent.     *)
LinkInv ==
  /\ FightLinksLive
  /\ \A c \in Chars : position[c] = "fighting" => fighting[c] # NULL

WorldInv == OrderInv /\ PlaceInv /\ LinkInv

(* What the thread holds at each point.                                    *)
InRound == pc \in {"head", "after", "assist"} \/ ret \in {"after", "assist"}
ThreadInv ==
  /\ pc \in {"idle", "head", "after", "assist", "swing", "blow"}
  /\ {ch, ch_next, victim, rch, att, vic} \subseteq Chars \cup {NULL}
  /\ stage \in 0 .. 5 /\ ret \in {"idle", "again", "after", "assist"}
  /\ blow \in (Chars \X Chars) \cup {<< >>}
  /\ pc \notin {"swing", "blow"} => att = NULL /\ vic = NULL /\ ret = "idle"
  /\ pc = "swing" => att \in Chars /\ vic \in Chars
  /\ pc = "blow" => /\ blow \in Chars \X Chars /\ Present(blow[1]) /\ Present(blow[2])
                    /\ att = NULL => ret = "idle" /\ vic = NULL
                    /\ att # NULL => vic \in Chars
  /\ pc \in {"after", "assist"} \/ ret \in {"after", "assist"} => ch \in Chars
  /\ pc = "assist" \/ ret = "assist" => victim \in Chars
  /\ ~InRound => ch = NULL

(* The slain are nowhere or at the altar, and a blow that is under way is  *)
(* not theirs.                                                             *)
SlainInv ==
  /\ slain \subseteq Chars
  /\ pc = "idle" => slain = {}
  /\ pc = "blow" /\ att = NULL => slain = {}
  /\ \A c \in slain : RoomOf(c) \in {NULL, Altar}
  /\ TheSlainAreOutOfIt

(* Where the walk goes on; who was served is behind it, or has come back   *)
(* with a speed that lasts.                                                *)
Front == IF pc = "head" THEN ch ELSE ch_next
OwnTurn(c) == c = ch /\ (pc = "after" \/ ret = "after")
TurnInv ==
  /\ served \in [Chars -> 0 .. 3]
  /\ ~InRound => served = NobodyServed
  /\ \A c \in Chars : served[c] = 1 => ~Ahead(order, Front, c)
  /\ \A c \in Chars : served[c] = 1 /\ ~OwnTurn(c) => init[c] >= 2
  /\ \A c \in Chars : served[c] = 2 /\ ~OwnTurn(c) =>
       init[c] >= 1 /\ (Ahead(order, Front, c) => init[c] >= 2)

IInv == WorldInv /\ ThreadInv /\ SlainInv /\ TurnInv
-----------------------------------------------------------------------------
Kept(o, S) == {i \in DOMAIN o : o[i] \notin S}
Rank(o, S, i) == Cardinality({j \in Kept(o, S) : j <= i})

LEMMA Ranks ==
  ASSUME NEW D, NEW o \in Seq(D), NEW S
  PROVE  /\ Kept(o, S) \subseteq 1 .. Len(o) /\ IsFiniteSet(Kept(o, S))
         /\ Cardinality(Kept(o, S)) \in Nat
         /\ \A i \in Kept(o, S) : Rank(o, S, i) \in 1 .. Cardinality(Kept(o, S))
         /\ \A i, j \in Kept(o, S) : i < j => Rank(o, S, i) < Rank(o, S, j)
<1> DEFINE kept == Kept(o, S)
           upto(i) == {j \in kept : j <= i}
<1>1. kept \subseteq 1 .. Len(o) /\ kept \subseteq Nat /\ Len(o) \in Nat
  BY DEF Kept
<1>2. IsFiniteSet(kept)
  <2>1. IsFiniteSet(1 .. Len(o)) /\ kept \in SUBSET (1 .. Len(o))
    BY <1>1, FS_Interval
  <2> HIDE DEF kept
  <2>2. QED
    BY <2>1, FS_Subset
<1>3. Cardinality(kept) \in Nat
  BY <1>2, FS_CardinalityType
<1>4. \A i : /\ IsFiniteSet(upto(i)) /\ Cardinality(upto(i)) <= Cardinality(kept)
             /\ Cardinality(upto(i)) \in Nat
  <2> TAKE i
  <2>1. upto(i) \in SUBSET kept
    OBVIOUS
  <2> HIDE DEF upto, kept
  <2>2. IsFiniteSet(upto(i)) /\ Cardinality(upto(i)) <= Cardinality(kept)
    BY <1>2, <2>1, FS_Subset
  <2>3. QED
    BY <2>2, FS_CardinalityType
<1>5. ASSUME NEW i \in kept PROVE Cardinality(upto(i)) # 0
  <2>1. i \in upto(i)
    BY <1>1
  <2> HIDE DEF upto
  <2>2. QED
    BY <1>4, <2>1, FS_EmptySet
<1>6. ASSUME NEW i \in kept, NEW j \in kept, i < j
      PROVE  Cardinality(upto(i)) < Cardinality(upto(j))
  <2>1. upto(i) \in SUBSET upto(j) /\ j \in upto(j) /\ j \notin upto(i)
    BY <1>1, <1>6
  <2> HIDE DEF upto, kept
  <2>2. Cardinality(upto(i)) <= Cardinality(upto(j)) /\ Cardinality(upto(i)) # Cardinality(upto(j))
    BY <1>4, <2>1, FS_Subset
  <2>3. QED
    BY <1>4, <2>2
<1>7. \A i : Rank(o, S, i) = Cardinality(upto(i))
  BY DEF Rank
<1> HIDE DEF upto
<1>8. QED
  BY <1>1, <1>2, <1>3, <1>4, <1>5, <1>6, <1>7

(* at finds what Without keeps, in its order.                              *)
Keeping(o, S, n, at) ==
  /\ at \in [1 .. n -> Kept(o, S)]
  /\ Without(o, S) \in Seq(Chars) /\ Len(Without(o, S)) = n
  /\ \A k \in 1 .. n : Without(o, S)[k] = o[at[k]]
  /\ \A i \in Kept(o, S) : \E k \in 1 .. n : at[k] = i
  /\ \A j, k \in 1 .. n : j < k => at[j] < at[k]

LEMMA WithoutKeeps ==
  ASSUME NEW o \in Seq(Chars), NEW S
  PROVE  \E n \in Nat : \E at : Keeping(o, S, n, at)
<1> DEFINE kept == Kept(o, S)
           n == Cardinality(kept)
           r == [i \in kept |-> Rank(o, S, i)]
           at == [k \in 1 .. n |-> CHOOSE i \in kept : Rank(o, S, i) = k]
<1>1. /\ kept \subseteq 1 .. Len(o) /\ IsFiniteSet(kept) /\ n \in Nat
      /\ \A i \in kept : Rank(o, S, i) \in 1 .. n
      /\ \A i, j \in kept : i < j => Rank(o, S, i) < Rank(o, S, j)
  BY Ranks
<1>2. \A i, j \in kept : i \in Nat /\ j \in Nat /\ (i # j => i < j \/ j < i)
  BY <1>1
<1> HIDE DEF kept, n
<1>3. \A i, j \in kept : Rank(o, S, i) = Rank(o, S, j) => i = j
  BY <1>1, <1>2
<1>4. r \in Injection(kept, 1 .. n)
  BY <1>1, <1>3 DEF Injection, IsInjective
<1>5. Cardinality(1 .. n) = Cardinality(kept)
  BY <1>1, FS_Interval DEF n
<1>6. r \in Surjection(kept, 1 .. n)
  <2>1. IsFiniteSet(1 .. n)
    BY <1>1, FS_Interval
  <2> HIDE DEF r
  <2>2. QED
    BY <1>4, <1>5, <2>1, FS_Injection
<1>7. \A k \in 1 .. n : \E i \in kept : Rank(o, S, i) = k
  BY <1>6 DEF Surjection
<1>8. \A k \in 1 .. n : at[k] \in kept /\ Rank(o, S, at[k]) = k
  BY <1>7
<1>9. Without(o, S) = [k \in 1 .. n |-> o[at[k]]]
  BY DEF Without, Kept, Rank, kept, n
<1>10. at \in [1 .. n -> kept]
  BY <1>8
<1> HIDE DEF at
<1>11. \A i \in kept : \E k \in 1 .. n : at[k] = i
  <2> TAKE i \in kept
  <2>1. Rank(o, S, i) \in 1 .. n
    BY <1>1
  <2>2. at[Rank(o, S, i)] = i
    BY <2>1, <1>8, <1>3
  <2>3. QED
    BY <2>1, <2>2
<1>12. \A j, k \in 1 .. n : j < k => at[j] < at[k]
  <2> TAKE j, k \in 1 .. n
  <2>1. at[j] \in kept /\ at[k] \in kept /\ Rank(o, S, at[j]) = j /\ Rank(o, S, at[k]) = k
    BY <1>8
  <2>2. at[k] < at[j] => k < j
    BY <2>1, <1>1
  <2>3. at[j] = at[k] => j = k
    BY <2>1
  <2>4. j < k => ~(k < j) /\ j # k
    BY <1>1
  <2>5. QED
    BY <2>1, <2>2, <2>3, <2>4, <1>2
<1>13. \A k \in 1 .. n : o[at[k]] \in Chars
  <2> TAKE k \in 1 .. n
  <2>1. at[k] \in 1 .. Len(o)
    BY <1>1, <1>10
  <2>2. QED
    BY <2>1
<1>14. /\ Without(o, S) \in Seq(Chars) /\ Len(Without(o, S)) = n
       /\ \A k \in 1 .. n : Without(o, S)[k] = o[at[k]]
  BY <1>1, <1>9, <1>13
<1>15. Keeping(o, S, n, at)
  BY <1>10, <1>11, <1>12, <1>14 DEF kept, Keeping
<1>16. QED
  BY <1>1, <1>15

(* Who is taken out of a list leaves the others in their order.            *)
LEMMA Shrinks ==
  ASSUME NEW s, Listed(s), NEW S
  PROVE  /\ Listed(Without(s, S))
         /\ \A c : In(Without(s, S), c) <=> In(s, c) /\ c \notin S
         /\ \A c, d : Ahead(Without(s, S), c, d) => Ahead(s, c, d)
<1>1. s \in Seq(Chars) /\ \A i, j \in 1 .. Len(s) : s[i] = s[j] => i = j
  BY DEF Listed
<1>n. PICK n \in Nat : \E at : Keeping(s, S, n, at)
  BY <1>1, WithoutKeeps
<1>2. PICK at : Keeping(s, S, n, at)
  BY <1>n
<1> DEFINE w == Without(s, S)
<1>3. \A k \in 1 .. n : /\ at[k] \in 1 .. Len(s) /\ s[at[k]] \notin S /\ s[at[k]] \in Chars
                        /\ w[k] = s[at[k]]
  BY <1>1, <1>2 DEF Kept, Keeping
<1>4. w \in Seq(Chars) /\ Len(w) = n
  BY <1>2 DEF Keeping
<1>5. \A i \in 1 .. Len(s) : s[i] \notin S => \E k \in 1 .. n : at[k] = i
  BY <1>1, <1>2 DEF Kept, Keeping
<1>6. \A j, k \in 1 .. n : j < k => at[j] < at[k]
  BY <1>2 DEF Keeping
<1> HIDE DEF w
<1>7. Listed(w)
  <2>1. ASSUME NEW j \in 1 .. n, NEW k \in 1 .. n, w[j] = w[k] PROVE j = k
    <3>1. at[j] = at[k] /\ at[j] \in Nat
      BY <1>1, <1>3, <2>1
    <3>2. ~(at[j] < at[k]) /\ ~(at[k] < at[j])
      BY <3>1
    <3>3. QED
      BY <1>6, <3>2
  <2>2. QED
    BY <1>4, <2>1 DEF Listed
<1>8. \A c : In(w, c) <=> In(s, c) /\ c \notin S
  BY <1>3, <1>4, <1>5 DEF In
<1>9. \A c, d : Ahead(w, c, d) => Ahead(s, c, d)
  <2> SUFFICES ASSUME NEW c, NEW d, NEW i \in 1 .. n, NEW j \in 1 .. n,
                      i <= j, w[i] = c, w[j] = d
               PROVE  Ahead(s, c, d)
    BY <1>4 DEF Ahead
  <2>1. at[i] \in 1 .. Len(s) /\ at[j] \in 1 .. Len(s) /\ at[i] <= at[j]
    BY <1>3, <1>6
  <2>2. QED
    BY <2>1, <1>3 DEF Ahead
<1>10. QED
  BY <1>7, <1>8, <1>9 DEF w

(* Who is put at the end is behind everybody.                              *)
LEMMA Grows ==
  ASSUME NEW s, Listed(s), NEW c \in Chars, ~In(s, c)
  PROVE  /\ Listed(s \o <<c>>)
         /\ \A d : In(s \o <<c>>, d) <=> In(s, d) \/ d = c
         /\ \A d, e : Ahead(s \o <<c>>, d, e) /\ e # c => Ahead(s, d, e)
<1> DEFINE g == s \o <<c>>
<1>1. s \in Seq(Chars) /\ \A i, j \in 1 .. Len(s) : s[i] = s[j] => i = j
  BY DEF Listed
<1>2. /\ g \in Seq(Chars) /\ Len(g) = Len(s) + 1 /\ Len(s) \in Nat
      /\ \A i \in 1 .. Len(s) : g[i] = s[i]
      /\ g[Len(s) + 1] = c
  BY <1>1
<1> HIDE DEF g
<1>3. \A i \in 1 .. Len(s) : s[i] # c
  BY DEF In
<1>4. \A i \in 1 .. Len(g) : i \in 1 .. Len(s) \/ i = Len(s) + 1
  BY <1>2
<1>5. \A i \in 1 .. Len(s) : i \in 1 .. Len(g)
  BY <1>2
<1>6. Listed(g)
  BY <1>1, <1>2, <1>3, <1>4 DEF Listed
<1>7. \A d : In(g, d) <=> In(s, d) \/ d = c
  <2>1. Len(s) + 1 \in 1 .. Len(g)
    BY <1>2
  <2>2. QED
    BY <1>2, <1>4, <1>5, <2>1 DEF In
<1>8. \A d, e : Ahead(g, d, e) /\ e # c => Ahead(s, d, e)
  BY <1>2, <1>4 DEF Ahead
<1>9. QED
  BY <1>6, <1>7, <1>8 DEF g

(* What follows c in a list is behind c.                                   *)
LEMMA Follows ==
  ASSUME NEW s, Listed(s), NEW c
  PROVE  /\ NextIn(s, c) \in Chars \cup {NULL}
         /\ \A d : d \in Chars /\ Ahead(s, NextIn(s, c), d) => Ahead(s, c, d) /\ d # c
<1>1. s \in Seq(Chars) /\ Len(s) \in Nat /\ \A i, j \in 1 .. Len(s) : s[i] = s[j] => i = j
  BY DEF Listed
<1>2. CASE \E i \in 1 .. (Len(s) - 1) : s[i] = c
  <2> DEFINE i == CHOOSE k \in 1 .. (Len(s) - 1) : s[k] = c
  <2>1. i \in 1 .. (Len(s) - 1) /\ s[i] = c
    BY <1>2
  <2>2. NextIn(s, c) = s[i + 1]
    BY <1>2 DEF NextIn
  <2> HIDE DEF i
  <2>3. i \in 1 .. Len(s) /\ i + 1 \in 1 .. Len(s) /\ s[i + 1] \in Chars
    BY <1>1, <2>1
  <2>4. ASSUME NEW d, Ahead(s, NextIn(s, c), d) PROVE Ahead(s, c, d) /\ d # c
    <3>1. PICK k \in 1 .. Len(s), j \in 1 .. Len(s) : k <= j /\ s[k] = s[i + 1] /\ s[j] = d
      BY <2>2, <2>4 DEF Ahead
    <3>2. k = i + 1
      BY <1>1, <2>3, <3>1
    <3>3. i <= j /\ i # j
      BY <3>1, <3>2, <2>3
    <3>4. d # c
      BY <1>1, <2>1, <2>3, <3>1, <3>3
    <3>5. QED
      BY <2>1, <2>3, <3>1, <3>3, <3>4 DEF Ahead
  <2>5. QED
    BY <2>2, <2>3, <2>4
<1>3. CASE ~ \E i \in 1 .. (Len(s) - 1) : s[i] = c
  <2>1. NextIn(s, c) = NULL
    BY <1>3 DEF NextIn
  <2>2. \A i \in 1 .. Len(s) : s[i] # NULL
    BY <1>1, NullAssumption
  <2>3. QED
    BY <2>1, <2>2 DEF Ahead
<1>4. QED
  BY <1>2, <1>3

LEMMA Heads ==
  ASSUME NEW s, Listed(s)
  PROVE  HeadOf(s) \in Chars \cup {NULL} /\ \A c : ~Ahead(s, NULL, c)
<1>1. s \in Seq(Chars) /\ \A i \in 1 .. Len(s) : s[i] \in Chars /\ s[i] # NULL
  BY NullAssumption DEF Listed
<1>2. QED
  BY <1>1 DEF HeadOf, Ahead

LEMMA AheadIsIn ==
  ASSUME NEW s, NEW c, NEW d
  PROVE  (Ahead(s, c, d) => In(s, c) /\ In(s, d)) /\ (In(s, c) /\ s \in Seq(Chars) => Ahead(s, c, c))
  BY DEF Ahead, In

LEMMA Leads ==
  ASSUME NEW s, Listed(s), NEW c \in Chars, ~In(s, c)
  PROVE  Listed(<<c>> \o s) /\ \A d : In(<<c>> \o s, d) <=> In(s, d) \/ d = c
<1> DEFINE g == <<c>> \o s
<1>1. s \in Seq(Chars) /\ \A i, j \in 1 .. Len(s) : s[i] = s[j] => i = j
  BY DEF Listed
<1>2. /\ g \in Seq(Chars) /\ Len(g) = Len(s) + 1 /\ Len(s) \in Nat
      /\ \A i \in 1 .. Len(s) : g[i + 1] = s[i]
      /\ g[1] = c
  BY <1>1
<1> HIDE DEF g
<1>3. \A i \in 1 .. Len(s) : s[i] # c
  BY DEF In
<1>4. \A i \in 1 .. Len(g) : i = 1 \/ (i - 1 \in 1 .. Len(s) /\ g[i] = s[i - 1])
  <2> TAKE i \in 1 .. Len(g)
  <2>1. i # 1 => i - 1 \in 1 .. Len(s) /\ (i - 1) + 1 = i
    BY <1>2
  <2>2. QED
    BY <1>2, <2>1
<1>5. \A i \in 1 .. Len(s) : i + 1 \in 1 .. Len(g)
  BY <1>2
<1>6. Listed(g)
  <2>1. ASSUME NEW i \in 1 .. Len(g), NEW j \in 1 .. Len(g), g[i] = g[j] PROVE i = j
    <3>1. CASE i = 1 /\ j = 1
      BY <3>1
    <3>2. CASE i # 1 /\ j # 1
      <4>1. i - 1 = j - 1
        BY <1>1, <1>4, <2>1, <3>2
      <4>2. QED
        BY <1>2, <4>1
    <3>3. CASE i = 1 /\ j # 1
      BY <1>2, <1>3, <1>4, <2>1, <3>3
    <3>4. CASE i # 1 /\ j = 1
      BY <1>2, <1>3, <1>4, <2>1, <3>4
    <3>5. QED
      BY <3>1, <3>2, <3>3, <3>4
  <2>2. QED
    BY <1>2, <2>1 DEF Listed
<1>7. \A d : In(g, d) <=> In(s, d) \/ d = c
  <2>1. 1 \in 1 .. Len(g)
    BY <1>2
  <2>2. \A d : In(g, d) => In(s, d) \/ d = c
    BY <1>2, <1>4 DEF In
  <2>3. \A d : In(s, d) \/ d = c => In(g, d)
    BY <1>2, <1>5, <2>1 DEF In
  <2>4. QED
    BY <2>2, <2>3
<1>8. QED
  BY <1>6, <1>7 DEF g

-----------------------------------------------------------------------------
(* Where somebody is, in any people.                                       *)
Where(p, c) == IF \E r \in Rooms : In(p[r], c)
               THEN CHOOSE r \in Rooms : In(p[r], c) ELSE NULL

LEMMA RoomIs == \A c : RoomOf(c) = Where(people, c) /\ RoomOf(c)' = Where(people', c)
  BY DEF RoomOf, Where

LEMMA PlacedIs ==
  ASSUME NEW p, p \in [Rooms -> Seq(Chars)]
  PROVE  Placed(p) <=> /\ \A r \in Rooms : Listed(p[r])
                       /\ \A r, q \in Rooms : \A c : In(p[r], c) /\ In(p[q], c) => r = q
  BY DEF Placed, Listed, In

LEMMA Rooming ==
  ASSUME NEW p, Placed(p)
  PROVE  /\ \A c : \/ Where(p, c) \in Rooms /\ In(p[Where(p, c)], c) /\ Where(p, c) # NULL
                   \/ Where(p, c) = NULL /\ \A r \in Rooms : ~In(p[r], c)
         /\ \A r \in Rooms : \A c : In(p[r], c) <=> Where(p, c) = r
<1>1. \A r, q \in Rooms : \A c : In(p[r], c) /\ In(p[q], c) => r = q
  BY PlacedIs DEF Placed
<1>2. \A c : \/ Where(p, c) \in Rooms /\ In(p[Where(p, c)], c) /\ Where(p, c) # NULL
             \/ Where(p, c) = NULL /\ \A r \in Rooms : ~In(p[r], c)
  BY CombatAssumption DEF Where
<1>3. \A r \in Rooms : \A c : In(p[r], c) <=> Where(p, c) = r
  BY <1>1, <1>2, CombatAssumption
<1>4. QED
  BY <1>2, <1>3

LEMMA SameWhere ==
  ASSUME NEW p, NEW q, Placed(p), Placed(q), NEW d,
         \A r \in Rooms : In(q[r], d) <=> In(p[r], d)
  PROVE  Where(q, d) = Where(p, d)
  BY Rooming

(* char_from_room, and with char_to_room after it.                         *)
LEMMA Leaves ==
  ASSUME Placed(people), NEW c
  PROVE  /\ Placed(Gone(c))
         /\ \A d : Where(Gone(c), d) = IF d = c THEN NULL ELSE Where(people, d)
<1>1. /\ people \in [Rooms -> Seq(Chars)] /\ \A r \in Rooms : Listed(people[r])
      /\ \A r, q \in Rooms : \A d : In(people[r], d) /\ In(people[q], d) => r = q
  BY PlacedIs DEF Placed
<1>2. \A r \in Rooms : Gone(c)[r] = Without(people[r], {c})
  BY DEF Gone
<1>3. \A r \in Rooms : /\ Listed(Gone(c)[r])
                       /\ \A d : In(Gone(c)[r], d) <=> In(people[r], d) /\ d # c
  BY <1>1, <1>2, Shrinks
<1>4. Gone(c) \in [Rooms -> Seq(Chars)]
  <2>1. \A r \in Rooms : Without(people[r], {c}) \in Seq(Chars)
    BY <1>2, <1>3 DEF Listed
  <2>2. QED
    BY <2>1 DEF Gone
<1>5. Placed(Gone(c))
  BY <1>1, <1>3, <1>4, PlacedIs
<1>6. \A d : d # c => Where(Gone(c), d) = Where(people, d)
  BY <1>3, <1>5, SameWhere
<1>7. Where(Gone(c), c) = NULL
  BY <1>3, <1>5, Rooming
<1>8. QED
  BY <1>5, <1>6, <1>7

LEMMA Moves ==
  ASSUME Placed(people), NEW c \in Chars, NEW r \in Rooms
  PROVE  /\ Placed(MovedTo(c, r))
         /\ \A d : Where(MovedTo(c, r), d) = IF d = c THEN r ELSE Where(people, d)
<1> DEFINE g == Gone(c)
           m == MovedTo(c, r)
<1>1. /\ Placed(g)
      /\ \A d : Where(g, d) = IF d = c THEN NULL ELSE Where(people, d)
  BY Leaves
<1>2. m = [g EXCEPT ![r] = <<c>> \o g[r]]
  BY DEF MovedTo
<1> HIDE DEF g, m
<1>3. /\ g \in [Rooms -> Seq(Chars)] /\ \A q \in Rooms : Listed(g[q]) /\ ~In(g[q], c)
      /\ \A p, q \in Rooms : \A d : In(g[p], d) /\ In(g[q], d) => p = q
  <2>1. g \in [Rooms -> Seq(Chars)]
    BY <1>1 DEF Placed
  <2>2. \A q \in Rooms : ~In(g[q], c)
    BY <1>1, Rooming, CombatAssumption
  <2>3. QED
    BY <1>1, <2>1, <2>2, PlacedIs
<1>4. Listed(<<c>> \o g[r]) /\ \A d : In(<<c>> \o g[r], d) <=> In(g[r], d) \/ d = c
  BY <1>3, Leads
<1>5. /\ m[r] = <<c>> \o g[r] /\ \A q \in Rooms \ {r} : m[q] = g[q]
  BY <1>2, <1>3
<1>6. m \in [Rooms -> Seq(Chars)]
  BY <1>2, <1>3, <1>4 DEF Listed
<1>7. /\ \A q \in Rooms : Listed(m[q])
      /\ \A q \in Rooms : \A d : In(m[q], d) <=> In(g[q], d) \/ (d = c /\ q = r)
  BY <1>3, <1>4, <1>5
<1>8. Placed(m)
  <2>1. ASSUME NEW p \in Rooms, NEW q \in Rooms, NEW d, In(m[p], d), In(m[q], d)
        PROVE  p = q
    <3>1. CASE d = c
      BY <1>3, <1>7, <2>1, <3>1
    <3>2. CASE d # c
      <4>1. In(g[p], d) /\ In(g[q], d)
        BY <1>7, <2>1, <3>2
      <4>2. QED
        BY <1>3, <4>1
    <3>3. QED
      BY <3>1, <3>2
  <2>2. QED
    BY <1>6, <1>7, <2>1, PlacedIs
<1>9. \A d : d # c => Where(m, d) = Where(g, d)
  BY <1>1, <1>7, <1>8, SameWhere
<1>10. Where(m, c) = r
  BY <1>7, <1>8, Rooming
<1>11. QED
  BY <1>1, <1>8, <1>9, <1>10 DEF m

-----------------------------------------------------------------------------
(* Changes of the world, first of the list.                                *)
KeepsOrder(new) == \A c : \A d \in Chars \ new : Ahead(order', c, d) => Ahead(order, c, d)

LEMMA Releases ==
  ASSUME OrderInv, NEW out, order' = Without(order, out), fighting' = Disengaged(fighting, out)
  PROVE  /\ OrderInv' /\ KeepsOrder({})
         /\ \A c \in Chars : fighting'[c] = IF c \in out THEN NULL ELSE fighting[c]
<1>1. \A c \in Chars : fighting'[c] = IF c \in out THEN NULL ELSE fighting[c]
  BY DEF Disengaged
<1>2. fighting' \in [Chars -> Chars \cup {NULL}]
  BY DEF Disengaged, OrderInv
<1>3. /\ Listed(order') /\ \A c : In(order', c) <=> In(order, c) /\ c \notin out
      /\ \A c, d : Ahead(order', c, d) => Ahead(order, c, d)
  BY Shrinks DEF OrderInv
<1>4. \A c \in Chars : In(order', c) <=> fighting'[c] # NULL
  BY <1>1, <1>3 DEF OrderInv
<1>5. OrderInv'
  BY <1>2, <1>3, <1>4 DEF OrderInv
<1>6. QED
  BY <1>1, <1>3, <1>5 DEF KeepsOrder

LEMMA TakesUp ==
  ASSUME OrderInv, NEW h \in Chars, NEW t \in Chars, h # t, NEW new,
         new \subseteq {h, t}, \A c \in new : fighting[c] = NULL,
         order' = order \o (IF t \in new THEN <<t>> ELSE << >>)
                        \o (IF h \in new THEN <<h>> ELSE << >>),
         fighting' = [c \in Chars |-> IF c \notin new THEN fighting[c]
                                      ELSE IF c = t THEN h ELSE t]
  PROVE  OrderInv' /\ KeepsOrder(new)
<1> DEFINE mid == order \o (IF t \in new THEN <<t>> ELSE << >>)
<1>0. /\ Listed(order) /\ order \in Seq(Chars)
      /\ \A c \in Chars : In(order, c) <=> fighting[c] # NULL
  BY DEF OrderInv, Listed
<1>1. /\ Listed(mid) /\ \A c : In(mid, c) <=> In(order, c) \/ (c = t /\ t \in new)
      /\ \A c, d : Ahead(mid, c, d) /\ d \notin new => Ahead(order, c, d)
  <2>1. CASE t \in new
    <3>1. mid = order \o <<t>> /\ ~In(order, t)
      BY <2>1, <1>0
    <3>2. QED
      BY <3>1, <1>0, <2>1, Grows
  <2>2. CASE t \notin new
    <3>1. mid = order
      BY <2>2, <1>0
    <3>2. QED
      BY <3>1, <1>0, <2>2
  <2>3. QED
    BY <2>1, <2>2
<1>2. order' = mid \o (IF h \in new THEN <<h>> ELSE << >>)
  OBVIOUS
<1> HIDE DEF mid
<1>3. /\ Listed(order')
      /\ \A c : In(order', c) <=> In(order, c) \/ (c = t /\ t \in new) \/ (c = h /\ h \in new)
      /\ \A c, d : Ahead(order', c, d) /\ d \notin new => Ahead(order, c, d)
  <2>1. CASE h \in new
    <3>1. order' = mid \o <<h>> /\ ~In(mid, h)
      BY <2>1, <1>0, <1>1, <1>2
    <3>2. /\ Listed(mid \o <<h>>)
          /\ \A d : In(mid \o <<h>>, d) <=> In(mid, d) \/ d = h
          /\ \A d, e : Ahead(mid \o <<h>>, d, e) /\ e # h => Ahead(mid, d, e)
      BY <3>1, <1>1, Grows
    <3>3. QED
      BY <3>1, <3>2, <1>1, <2>1
  <2>2. CASE h \notin new
    <3>1. order' = mid
      BY <2>2, <1>1, <1>2 DEF Listed
    <3>2. QED
      BY <3>1, <1>1, <2>2
  <2>3. QED
    BY <2>1, <2>2
<1>4. \A c \in Chars : fighting'[c] = IF c \notin new THEN fighting[c]
                                      ELSE IF c = t THEN h ELSE t
  OBVIOUS
<1>5. fighting' \in [Chars -> Chars \cup {NULL}]
  BY DEF OrderInv
<1>6. \A c \in Chars : In(order', c) <=> fighting'[c] # NULL
  BY <1>0, <1>3, <1>4, NullAssumption
<1>7. QED
  BY <1>3, <1>5, <1>6 DEF OrderInv, KeepsOrder

(* Then of the rooms.                                                      *)
LEMMA Walking ==
  ASSUME Placed(people), NEW c \in Chars, NEW r \in Rooms, people' = MovedTo(c, r)
  PROVE  /\ Placed(people')
         /\ \A d : Where(people', d) = IF d = c THEN r ELSE Where(people, d)
  BY Moves

LEMMA Leaving ==
  ASSUME Placed(people), NEW c, people' = Gone(c)
  PROVE  /\ Placed(people')
         /\ \A d : Where(people', d) = IF d = c THEN NULL ELSE Where(people, d)
  BY Leaves

(* Presence is being in a room, and the rooms do not include NULL.         *)
LEMMA Presence == \A c : Present(c) <=> Where(people, c) # NULL
  BY RoomIs DEF Present

LEMMA InARoom ==
  ASSUME NEW p, Placed(p)
  PROVE  \A c : Where(p, c) \in Rooms \cup {NULL} /\ (Where(p, c) # NULL <=> Where(p, c) \in Rooms)
  BY Rooming, CombatAssumption

-----------------------------------------------------------------------------
(* Then of the whole world.  Fighters and whom they fight are in the game. *)
LEMMA FightersLive ==
  ASSUME WorldInv
  PROVE  /\ \A c \in Chars : fighting[c] # NULL =>
              /\ fighting[c] \in Chars /\ position[c] # "dead"
              /\ Where(people, c) # NULL /\ Where(people, fighting[c]) # NULL
         /\ \A c \in Chars : position[c] = "dead" <=> Where(people, c) = NULL
  BY Presence DEF WorldInv, OrderInv, PlaceInv, LinkInv, FightLinksLive

(* The parts that a change of positions and places has to keep.            *)
LEMMA WorldFrom ==
  ASSUME OrderInv', Placed(people'), wounded' \subseteq Players,
         init' \in [Chars -> Nat], position' \in [Chars -> Positions],
         \A c \in Chars : /\ position'[c] = "dead" <=> Where(people', c) = NULL
                          /\ position'[c] = "fighting" => fighting'[c] # NULL
                          /\ fighting'[c] # NULL => /\ Where(people', c) # NULL
                                                    /\ Where(people', fighting'[c]) # NULL
  PROVE  WorldInv'
<1>1. PlaceInv'
  <2>1. \A c \in Chars : (position[c] = "dead" <=> ~Present(c))'
    BY RoomIs DEF Present
  <2>2. QED
    BY <2>1 DEF PlaceInv, Placed
<1>2. LinkInv'
  <2>1. ASSUME NEW c \in Chars, fighting'[c] # NULL
        PROVE  Present(c)' /\ Present(fighting[c])'
    <3>1. Where(people', c) # NULL /\ Where(people', fighting'[c]) # NULL
      BY <2>1
    <3>2. QED
      BY <3>1 DEF Present, RoomOf, Where
  <2>2. FightLinksLive'
    BY <2>1 DEF FightLinksLive
  <2>3. QED
    BY <2>2 DEF LinkInv
<1>3. QED
  BY <1>1, <1>2 DEF WorldInv

LEMMA AfterStopIs ==
  ASSUME position \in [Chars -> Positions], NEW out, NEW hurt
  PROVE  /\ AfterStop(out, hurt) \in [Chars -> Positions]
         /\ \A c \in Chars : /\ c \notin out => AfterStop(out, hurt)[c] = position[c]
                             /\ c \in out => AfterStop(out, hurt)[c] \in {"down", "standing"}
<1>1. \A c \in Chars : AfterStop(out, hurt)[c] =
        IF c \notin out THEN position[c] ELSE IF c \in hurt THEN "down" ELSE "standing"
  BY DEF AfterStop
<1>2. \A c \in Chars : AfterStop(out, hurt)[c] \in Positions
  BY <1>1 DEF Positions
<1>3. AfterStop(out, hurt) \in [Chars -> Positions]
  BY <1>2 DEF AfterStop
<1>4. QED
  BY <1>1, <1>3

(* Whoever is let go of is on its feet, or down.                           *)
LEMMA StopKeepsWorld ==
  ASSUME WorldInv, NEW out, \A c \in out : c \in Chars /\ fighting[c] # NULL,
         StopFor(out, wounded), UNCHANGED wounded, init' \in [Chars -> Nat],
         Placed(people'), \A c \in Chars : Where(people', c) # NULL <=> Where(people, c) # NULL
  PROVE  WorldInv' /\ KeepsOrder({})
<1>1. /\ order' = Without(order, out) /\ fighting' = Disengaged(fighting, out)
      /\ position' = AfterStop(out, wounded)
  BY DEF StopFor
<1>2. /\ OrderInv' /\ KeepsOrder({})
      /\ \A c \in Chars : fighting'[c] = IF c \in out THEN NULL ELSE fighting[c]
  BY <1>1, Releases DEF WorldInv
<1>3. /\ position' \in [Chars -> Positions]
      /\ \A c \in Chars : /\ c \notin out => position'[c] = position[c]
                          /\ c \in out => position'[c] \in {"down", "standing"}
  BY <1>1, AfterStopIs DEF WorldInv, PlaceInv
<1>4. wounded' \subseteq Players
  BY DEF WorldInv, PlaceInv
<1>5. ASSUME NEW c \in Chars
      PROVE  /\ position'[c] = "dead" <=> Where(people', c) = NULL
             /\ position'[c] = "fighting" => fighting'[c] # NULL
             /\ fighting'[c] # NULL => /\ Where(people', c) # NULL
                                       /\ Where(people', fighting'[c]) # NULL
  <2>1. CASE c \in out
    BY <2>1, <1>2, <1>3, FightersLive
  <2>2. CASE c \notin out
    <3>1. fighting'[c] = fighting[c] /\ position'[c] = position[c]
      BY <2>2, <1>2, <1>3
    <3>2. position[c] = "fighting" => fighting[c] # NULL
      BY DEF WorldInv, LinkInv
    <3>3. QED
      BY <3>1, <3>2, FightersLive
  <2>3. QED
    BY <2>1, <2>2
<1>6. QED
  BY <1>2, <1>3, <1>4, <1>5, WorldFrom

(* update_pos on somebody whose hit has fallen to 0 or less.               *)
LEMMA DownKeepsWorld ==
  ASSUME WorldInv, NEW p \in Players, NEW alone, GoDown(p, alone), UNCHANGED init,
         Where(people, p) # NULL,
         Placed(people'), \A c \in Chars : Where(people', c) # NULL <=> Where(people, c) # NULL
  PROVE  WorldInv' /\ KeepsOrder({})
<1>0. p \in Chars
  BY CombatAssumption
<1>1. PICK undying \in BOOLEAN :
        LET stays == undying /\ position[p] # "fighting"
            out   == IF undying /\ ~stays THEN Released(fighting, p, TRUE)
                     ELSE IF alone /\ ~(stays /\ Awake(p))
                          THEN Released(fighting, p, FALSE) ELSE {}
        IN  /\ order' = Without(order, out)
            /\ fighting' = Disengaged(fighting, out)
            /\ wounded' = wounded \cup {p}
            /\ position' = IF stays /\ p \notin out THEN position
                           ELSE [AfterStop(out, wounded') EXCEPT ![p] = "down"]
  BY DEF GoDown
<1> DEFINE stays == undying /\ position[p] # "fighting"
           out   == IF undying /\ ~stays THEN Released(fighting, p, TRUE)
                    ELSE IF alone /\ ~(stays /\ Awake(p))
                         THEN Released(fighting, p, FALSE) ELSE {}
<1>2. /\ order' = Without(order, out) /\ fighting' = Disengaged(fighting, out)
      /\ wounded' = wounded \cup {p}
      /\ position' = IF stays /\ p \notin out THEN position
                     ELSE [AfterStop(out, wounded') EXCEPT ![p] = "down"]
  BY <1>1
<1>3. /\ \A c \in out : c \in Chars /\ fighting[c] # NULL
      /\ stays /\ p \notin out => out = {}
  BY DEF Released
<1> HIDE DEF out
<1>4. /\ OrderInv' /\ KeepsOrder({})
      /\ \A c \in Chars : fighting'[c] = IF c \in out THEN NULL ELSE fighting[c]
  BY <1>2, Releases DEF WorldInv
<1>5. position \in [Chars -> Positions] /\ wounded \subseteq Players
  BY DEF WorldInv, PlaceInv
<1>6. /\ AfterStop(out, wounded') \in [Chars -> Positions]
      /\ \A c \in Chars : /\ c \notin out => AfterStop(out, wounded')[c] = position[c]
                          /\ c \in out => AfterStop(out, wounded')[c] \in {"down", "standing"}
  BY <1>5, AfterStopIs
<1>7. /\ position' \in [Chars -> Positions]
      /\ \A c \in Chars : /\ c \notin out /\ c # p => position'[c] = position[c]
                          /\ c \in out => position'[c] \in {"down", "standing"}
      /\ position'[p] = "down" \/ (position' = position /\ out = {})
  <2>1. CASE stays /\ p \notin out
    BY <2>1, <1>2, <1>3, <1>5
  <2>2. CASE ~(stays /\ p \notin out)
    <3>1. position' = [AfterStop(out, wounded') EXCEPT ![p] = "down"]
      BY <2>2, <1>2
    <3>2. "down" \in Positions
      BY DEF Positions
    <3>3. QED
      BY <3>1, <3>2, <1>0, <1>6
  <2>3. QED
    BY <2>1, <2>2
<1>8. ASSUME NEW c \in Chars
      PROVE  /\ position'[c] = "dead" <=> Where(people', c) = NULL
             /\ position'[c] = "fighting" => fighting'[c] # NULL
             /\ fighting'[c] # NULL => /\ Where(people', c) # NULL
                                       /\ Where(people', fighting'[c]) # NULL
  <2>1. fighting'[c] # NULL => /\ Where(people', c) # NULL
                               /\ Where(people', fighting'[c]) # NULL
    BY <1>4, FightersLive
  <2>2. position[c] = "fighting" => fighting[c] # NULL
    BY DEF WorldInv, LinkInv
  <2>3. CASE position' = position /\ out = {}
    BY <2>1, <2>2, <2>3, <1>4, FightersLive
  <2>4. CASE position'[p] = "down"
    <3>1. CASE c = p
      BY <2>1, <2>4, <3>1
    <3>2. CASE c \in out
      BY <2>1, <3>2, <1>3, <1>7, FightersLive
    <3>3. CASE c # p /\ c \notin out
      BY <2>1, <2>2, <3>3, <1>4, <1>7, FightersLive
    <3>4. QED
      BY <3>1, <3>2, <3>3
  <2>5. QED
    BY <2>3, <2>4, <1>7
<1>9. wounded' \subseteq Players /\ init' \in [Chars -> Nat]
  BY <1>2, <1>5 DEF WorldInv, PlaceInv
<1>10. QED
  BY <1>4, <1>7, <1>8, <1>9, WorldFrom

(* raw_kill: a mobile is gone, a player is at the altar; nobody fights it. *)
LEMMA KillKeepsWorld ==
  ASSUME WorldInv, NEW t \in Chars, RawKill(t), UNCHANGED init
  PROVE  /\ WorldInv' /\ KeepsOrder({})
         /\ \A c : Where(people', c) = IF c # t THEN Where(people, c)
                                       ELSE IF IsNPC(t) THEN NULL ELSE Altar
<1> DEFINE out == Released(fighting, t, TRUE)
<1>1. /\ order' = Without(order, out) /\ fighting' = Disengaged(fighting, out)
      /\ wounded' = wounded \ {t}
      /\ position' = [AfterStop(out, wounded) EXCEPT
                         ![t] = IF IsNPC(t) THEN "dead" ELSE "resting"]
      /\ people' = IF IsNPC(t) THEN Gone(t) ELSE MovedTo(t, Altar)
  BY DEF RawKill
<1>2. /\ \A c \in out : c \in Chars /\ fighting[c] # NULL
      /\ \A c \in Chars : fighting[c] # NULL /\ (c = t \/ fighting[c] = t) => c \in out
  BY DEF Released
<1> HIDE DEF out
<1>3. /\ OrderInv' /\ KeepsOrder({})
      /\ \A c \in Chars : fighting'[c] = IF c \in out THEN NULL ELSE fighting[c]
  BY <1>1, Releases DEF WorldInv
<1>4. position \in [Chars -> Positions] /\ wounded \subseteq Players /\ Placed(people)
  BY DEF WorldInv, PlaceInv
<1>5. /\ AfterStop(out, wounded) \in [Chars -> Positions]
      /\ \A c \in Chars : /\ c \notin out => AfterStop(out, wounded)[c] = position[c]
                          /\ c \in out => AfterStop(out, wounded)[c] \in {"down", "standing"}
  BY <1>4, AfterStopIs
<1>6. /\ position' \in [Chars -> Positions]
      /\ \A c \in Chars : /\ c \notin out /\ c # t => position'[c] = position[c]
                          /\ c \in out /\ c # t => position'[c] \in {"down", "standing"}
      /\ position'[t] = IF IsNPC(t) THEN "dead" ELSE "resting"
  BY <1>1, <1>5 DEF Positions
<1>7. /\ Placed(people')
      /\ \A c : Where(people', c) = IF c # t THEN Where(people, c)
                                    ELSE IF IsNPC(t) THEN NULL ELSE Altar
  <2>1. CASE IsNPC(t)
    BY <2>1, <1>1, <1>4, Leaving
  <2>2. CASE ~IsNPC(t)
    BY <2>2, <1>1, <1>4, Walking, CombatAssumption
  <2>3. QED
    BY <2>1, <2>2
<1>8. ASSUME NEW c \in Chars
      PROVE  /\ position'[c] = "dead" <=> Where(people', c) = NULL
             /\ position'[c] = "fighting" => fighting'[c] # NULL
             /\ fighting'[c] # NULL => /\ Where(people', c) # NULL
                                       /\ Where(people', fighting'[c]) # NULL
  <2>1. fighting'[c] # NULL => /\ Where(people', c) # NULL
                               /\ Where(people', fighting'[c]) # NULL
    BY <1>2, <1>3, <1>7, FightersLive
  <2>2. position[c] = "fighting" => fighting[c] # NULL
    BY DEF WorldInv, LinkInv
  <2>3. CASE c = t
    BY <2>1, <2>3, <1>6, <1>7, CombatAssumption
  <2>4. CASE c # t /\ c \in out
    BY <2>1, <2>4, <1>2, <1>6, <1>7, FightersLive
  <2>5. CASE c # t /\ c \notin out
    BY <2>1, <2>2, <2>5, <1>3, <1>6, <1>7, FightersLive
  <2>6. QED
    BY <2>3, <2>4, <2>5
<1>9. wounded' \subseteq Players /\ init' \in [Chars -> Nat]
  BY <1>1, <1>4 DEF WorldInv, PlaceInv
<1>10. QED
  BY <1>3, <1>6, <1>7, <1>8, <1>9, WorldFrom

(* Who may strike whom is in the same room, and neither is at the altar.   *)
LEMMA Strikers ==
  ASSUME WorldInv, NEW h \in Chars, NEW t \in Chars, MayStrike(h, t)
  PROVE  /\ Where(people, h) # NULL /\ Where(people, t) # NULL
         /\ h # t => Where(people, h) = Where(people, t) /\ Where(people, h) # Altar
<1>1. position[t] # "dead" => Where(people, t) # NULL
  BY FightersLive
<1>2. h = t => Where(people, h) # NULL
  BY Presence DEF MayStrike
<1>3. h # t => /\ Where(people, h) = Where(people, t) /\ Where(people, h) # Altar
               /\ position[t] # "dead"
  BY RoomIs DEF MayStrike, IsSafe
<1>4. QED
  BY <1>1, <1>2, <1>3

NewFighters(h, t) ==
  IF h # t /\ position[t] # "down" THEN {c \in {h, t} : fighting[c] = NULL} ELSE {}

(* The entry of damage.                                                    *)
LEMMA StrikeKeepsWorld ==
  ASSUME WorldInv, NEW h \in Chars, NEW t \in Chars, MayStrike(h, t), TakeUpFight(h, t),
         UNCHANGED <<wounded, people, init>>
  PROVE  /\ WorldInv' /\ KeepsOrder(NewFighters(h, t))
         /\ served' = [c \in Chars |-> IF c \in NewFighters(h, t) /\ served[c] \in {1, 2}
                                       THEN served[c] + 1 ELSE served[c]]
<1> DEFINE awake == h # t /\ position[t] # "down"
           new == NewFighters(h, t)
<1>0. new = IF awake THEN {c \in {h, t} : fighting[c] = NULL} ELSE {}
  BY DEF NewFighters
<1>1. /\ order' = order \o (IF t \in new THEN <<t>> ELSE << >>)
                        \o (IF h \in new THEN <<h>> ELSE << >>)
      /\ fighting' = [c \in Chars |-> IF c \notin new THEN fighting[c]
                                      ELSE IF c = t THEN h ELSE t]
      /\ position' = [c \in Chars |->
                         IF c \in new \/ (c = t /\ awake) THEN "fighting" ELSE position[c]]
      /\ served' = [c \in Chars |-> IF c \in new /\ served[c] \in {1, 2}
                                    THEN served[c] + 1 ELSE served[c]]
  BY <1>0 DEF TakeUpFight
<1>2. /\ new \subseteq {h, t} /\ \A c \in new : fighting[c] = NULL /\ h # t
      /\ awake => \A c \in {h, t} \ new : fighting[c] # NULL
      /\ ~awake => new = {}
  BY <1>0
<1>2a. fighting \in [Chars -> Chars \cup {NULL}] /\ position \in [Chars -> Positions]
       /\ order \in Seq(Chars) /\ Placed(people) /\ OrderInv
  BY DEF WorldInv, OrderInv, PlaceInv, Listed
<1> HIDE DEF new
<1>3. OrderInv' /\ KeepsOrder(new)
  <2>1. CASE h # t
    <3>1. \A c \in new : fighting[c] = NULL
      BY <1>2
    <3>2. QED
      BY <1>1, <1>2, <2>1, <3>1, <1>2a, TakesUp
  <2>2. CASE h = t
    <3>1. new = {}
      BY <1>2, <2>2
    <3>2. order' = order /\ fighting' = fighting
      BY <1>1, <1>2a, <3>1
    <3>3. OrderInv'
      BY <3>2, <1>2a DEF OrderInv
    <3>4. QED
      BY <3>2, <3>3 DEF KeepsOrder
  <2>3. QED
    BY <2>1, <2>2
<1>4. \A c \in Chars : /\ fighting'[c] = IF c \notin new THEN fighting[c]
                                         ELSE IF c = t THEN h ELSE t
                       /\ position'[c] = IF c \in new \/ (c = t /\ awake) THEN "fighting"
                                         ELSE position[c]
  BY <1>1
<1>5. position' \in [Chars -> Positions]
  BY <1>1, <1>2a DEF Positions
<1>6. Where(people, h) # NULL /\ Where(people, t) # NULL
  BY Strikers
<1>7. ASSUME NEW c \in Chars
      PROVE  /\ position'[c] = "dead" <=> Where(people', c) = NULL
             /\ position'[c] = "fighting" => fighting'[c] # NULL
             /\ fighting'[c] # NULL => /\ Where(people', c) # NULL
                                       /\ Where(people', fighting'[c]) # NULL
  <2>1. position[c] = "fighting" => fighting[c] # NULL
    BY DEF WorldInv, LinkInv
  <2>2. people' = people
    OBVIOUS
  <2>3. CASE c \in new
    <3>1. c \in {h, t} /\ fighting'[c] \in {h, t} /\ fighting'[c] # NULL /\ position'[c] = "fighting"
      BY <2>3, <1>2, <1>4, NullAssumption
    <3>2. QED
      BY <2>2, <3>1, <1>6
  <2>4. CASE c \notin new /\ c = t /\ awake
    <3>1. fighting[c] # NULL /\ fighting'[c] = fighting[c] /\ position'[c] = "fighting"
      BY <2>4, <1>2, <1>4
    <3>2. QED
      BY <2>2, <3>1, FightersLive
  <2>5. CASE c \notin new /\ ~(c = t /\ awake)
    <3>1. fighting'[c] = fighting[c] /\ position'[c] = position[c]
      BY <2>5, <1>4
    <3>2. QED
      BY <2>1, <2>2, <3>1, FightersLive
  <2>6. QED
    BY <2>3, <2>4, <2>5
<1>8. wounded' \subseteq Players /\ init' \in [Chars -> Nat] /\ Placed(people')
  BY <1>2a DEF WorldInv, PlaceInv
<1>9. WorldInv'
  BY <1>3, <1>5, <1>7, <1>8, WorldFrom
<1>10. QED
  BY <1>1, <1>3, <1>9 DEF new

(* Nobody's fight changes.                                                 *)
LEMMA OrderStays ==
  ASSUME UNCHANGED <<order, fighting>>
  PROVE  (OrderInv' <=> OrderInv) /\ KeepsOrder({})
  BY DEF OrderInv, KeepsOrder

LEMMA PeaceKeepsWorld ==
  ASSUME WorldInv, UNCHANGED <<order, fighting>>, Placed(people'), wounded' \subseteq Players,
         init' \in [Chars -> Nat], position' \in [Chars -> Positions],
         \A c \in Chars : /\ Where(people, c) # NULL => Where(people', c) # NULL
                          /\ position'[c] = "dead" <=> Where(people', c) = NULL
                          /\ position'[c] = "fighting" => position[c] = "fighting"
  PROVE  WorldInv' /\ KeepsOrder({})
<1>1. OrderInv' /\ KeepsOrder({})
  BY OrderStays DEF WorldInv
<1>2. ASSUME NEW c \in Chars
      PROVE  /\ position'[c] = "dead" <=> Where(people', c) = NULL
             /\ position'[c] = "fighting" => fighting'[c] # NULL
             /\ fighting'[c] # NULL => /\ Where(people', c) # NULL
                                       /\ Where(people', fighting'[c]) # NULL
  <2>1. position[c] = "fighting" => fighting[c] # NULL
    BY DEF WorldInv, LinkInv
  <2>2. fighting'[c] = fighting[c]
    OBVIOUS
  <2>3. fighting[c] # NULL => fighting[c] \in Chars /\ Where(people, fighting[c]) # NULL
                              /\ Where(people, c) # NULL
    BY FightersLive
  <2>4. QED
    BY <2>1, <2>2, <2>3
<1>3. QED
  BY <1>1, <1>2, WorldFrom

(* One character in the game takes another position, or is elsewhere.      *)
LEMMA PoseKeepsWorld ==
  ASSUME WorldInv, NEW c \in Chars, Where(people, c) # NULL,
         NEW to \in Positions \ {"dead", "fighting"},
         position' = [position EXCEPT ![c] = to], wounded' \subseteq wounded,
         UNCHANGED <<order, fighting, init>>, Placed(people'),
         \A d \in Chars : Where(people', d) # NULL <=> Where(people, d) # NULL
  PROVE  WorldInv' /\ KeepsOrder({})
<1>1. /\ wounded' \subseteq Players /\ init' \in [Chars -> Nat]
      /\ position' \in [Chars -> Positions]
      /\ position'[c] = to /\ \A d \in Chars \ {c} : position'[d] = position[d]
  BY DEF WorldInv, PlaceInv
<1>2. \A d \in Chars : /\ Where(people, d) # NULL => Where(people', d) # NULL
                       /\ position'[d] = "dead" <=> Where(people', d) = NULL
                       /\ position'[d] = "fighting" => position[d] = "fighting"
  BY <1>1, FightersLive
<1>3. QED
  BY <1>1, <1>2, PeaceKeepsWorld

LEMMA WorldStays ==
  ASSUME WorldInv, UNCHANGED world
  PROVE  WorldInv' /\ KeepsOrder({})
<1>1. UNCHANGED <<order, fighting, position, wounded, people, init>>
  BY DEF world
<1>2. /\ Placed(people') /\ wounded' \subseteq Players /\ init' \in [Chars -> Nat]
      /\ position' \in [Chars -> Positions]
  BY <1>1 DEF WorldInv, PlaceInv
<1>3. \A c \in Chars : /\ Where(people, c) # NULL => Where(people', c) # NULL
                       /\ position'[c] = "dead" <=> Where(people', c) = NULL
                       /\ position'[c] = "fighting" => position[c] = "fighting"
  BY <1>1, FightersLive
<1>4. QED
  BY <1>1, <1>2, <1>3, PeaceKeepsWorld

(* extract_char.                                                           *)
LEMMA ExtractKeepsWorld ==
  ASSUME WorldInv, NEW c \in Chars, Extract(c)
  PROVE  WorldInv'
<1> DEFINE out == Released(fighting, c, TRUE)
<1>1. /\ order' = Without(order, out) /\ fighting' = Disengaged(fighting, out)
      /\ position' = [AfterStop(out, wounded) EXCEPT ![c] = "dead"]
      /\ people' = Gone(c) /\ wounded' = wounded /\ init' = init
  BY DEF Extract
<1>2. /\ \A d \in out : d \in Chars /\ fighting[d] # NULL
      /\ \A d \in Chars : fighting[d] # NULL /\ (d = c \/ fighting[d] = c) => d \in out
  BY DEF Released
<1> HIDE DEF out
<1>3. /\ OrderInv'
      /\ \A d \in Chars : fighting'[d] = IF d \in out THEN NULL ELSE fighting[d]
  BY <1>1, Releases DEF WorldInv
<1>4. position \in [Chars -> Positions] /\ wounded \subseteq Players /\ Placed(people)
      /\ init \in [Chars -> Nat]
  BY DEF WorldInv, PlaceInv
<1>5. /\ AfterStop(out, wounded) \in [Chars -> Positions]
      /\ \A d \in Chars : /\ d \notin out => AfterStop(out, wounded)[d] = position[d]
                          /\ d \in out => AfterStop(out, wounded)[d] \in {"down", "standing"}
  BY <1>4, AfterStopIs
<1>6. /\ position' \in [Chars -> Positions]
      /\ \A d \in Chars : /\ d \notin out /\ d # c => position'[d] = position[d]
                          /\ d \in out /\ d # c => position'[d] \in {"down", "standing"}
      /\ position'[c] = "dead"
  BY <1>1, <1>5 DEF Positions
<1>7. /\ Placed(people')
      /\ \A d : Where(people', d) = IF d = c THEN NULL ELSE Where(people, d)
  BY <1>1, <1>4, Leaving
<1>8. ASSUME NEW d \in Chars
      PROVE  /\ position'[d] = "dead" <=> Where(people', d) = NULL
             /\ position'[d] = "fighting" => fighting'[d] # NULL
             /\ fighting'[d] # NULL => /\ Where(people', d) # NULL
                                       /\ Where(people', fighting'[d]) # NULL
  <2>1. fighting'[d] # NULL => /\ Where(people', d) # NULL
                               /\ Where(people', fighting'[d]) # NULL
    BY <1>2, <1>3, <1>7, FightersLive
  <2>2. position[d] = "fighting" => fighting[d] # NULL
    BY DEF WorldInv, LinkInv
  <2>3. CASE d = c
    BY <2>1, <2>3, <1>6, <1>7
  <2>4. CASE d # c /\ d \in out
    BY <2>1, <2>4, <1>2, <1>6, <1>7, FightersLive
  <2>5. CASE d # c /\ d \notin out
    BY <2>1, <2>2, <2>5, <1>3, <1>6, <1>7, FightersLive
  <2>6. QED
    BY <2>3, <2>4, <2>5
<1>9. wounded' \subseteq Players /\ init' \in [Chars -> Nat]
  BY <1>1, <1>4
<1>10. QED
  BY <1>3, <1>6, <1>7, <1>8, <1>9, WorldFrom

(* do_rescue.                                                              *)
LEMMA RescueKeepsWorld ==
  ASSUME WorldInv, NEW c \in Chars, NEW v \in Chars, Rescue(c, v)
  PROVE  WorldInv'
<1> DEFINE fch == fighting[v]
           out == {d \in {c, v, fch} : fighting[d] # NULL}
<1>1. /\ c # v /\ Present(c) /\ fighting[c] # v /\ fch # NULL /\ fighting[fch] = v
      /\ order' = Without(order, out) \o <<c, fch>>
      /\ fighting' = [Disengaged(fighting, out) EXCEPT ![c] = fch, ![fch] = c]
      /\ position' = [AfterStop(out, wounded) EXCEPT ![c] = "fighting", ![fch] = "fighting"]
      /\ UNCHANGED <<wounded, people, init>>
  BY DEF Rescue
<1>2. /\ fch \in Chars /\ c # fch /\ Where(people, c) # NULL /\ Where(people, fch) # NULL
  BY <1>1, FightersLive, Presence
<1>3. /\ \A d \in out : d \in Chars /\ fighting[d] # NULL
      /\ \A d \in {c, fch} : fighting[d] # NULL => d \in out
  BY <1>2
<1>4. fighting \in [Chars -> Chars \cup {NULL}] /\ order \in Seq(Chars) /\ Listed(order)
      /\ \A d \in Chars : In(order, d) <=> fighting[d] # NULL
  BY DEF WorldInv, OrderInv, Listed
<1> HIDE DEF out, fch
<1> DEFINE w == Without(order, out)
<1>5. Listed(w) /\ \A d : In(w, d) <=> In(order, d) /\ d \notin out
  BY <1>4, Shrinks
<1> HIDE DEF w
<1>6. ~In(w, c) /\ ~In(w, fch)
  BY <1>2, <1>3, <1>4, <1>5
<1>7. Listed(w \o <<c>>) /\ \A d : In(w \o <<c>>, d) <=> In(w, d) \/ d = c
  BY <1>5, <1>6, Grows
<1>8. /\ Listed((w \o <<c>>) \o <<fch>>)
      /\ \A d : In((w \o <<c>>) \o <<fch>>, d) <=> In(w \o <<c>>, d) \/ d = fch
  BY <1>2, <1>6, <1>7, Grows
<1>9. order' = (w \o <<c>>) \o <<fch>>
  <2>1. w \in Seq(Chars)
    BY <1>5 DEF Listed
  <2>2. w \o <<c, fch>> = (w \o <<c>>) \o <<fch>>
    BY <2>1, <1>2
  <2>3. QED
    BY <2>2, <1>1 DEF w
<1>10. \A d \in Chars : fighting'[d] = IF d = c THEN fch ELSE IF d = fch THEN c
                                       ELSE IF d \in out THEN NULL ELSE fighting[d]
  BY <1>1, <1>2 DEF Disengaged
<1>11. fighting' \in [Chars -> Chars \cup {NULL}]
  <2>1. Disengaged(fighting, out) \in [Chars -> Chars \cup {NULL}]
    BY <1>4 DEF Disengaged
  <2>2. QED
    BY <2>1, <1>1, <1>2
<1>12. OrderInv'
  <2>1. \A d \in Chars : In(order', d) <=> fighting'[d] # NULL
    BY <1>2, <1>4, <1>5, <1>7, <1>8, <1>9, <1>10, NullAssumption
  <2>2. QED
    BY <2>1, <1>8, <1>9, <1>11 DEF OrderInv
<1>13. position \in [Chars -> Positions] /\ wounded \subseteq Players /\ Placed(people)
      /\ init \in [Chars -> Nat]
  BY DEF WorldInv, PlaceInv
<1>14. /\ AfterStop(out, wounded) \in [Chars -> Positions]
       /\ \A d \in Chars : /\ d \notin out => AfterStop(out, wounded)[d] = position[d]
                           /\ d \in out => AfterStop(out, wounded)[d] \in {"down", "standing"}
  BY <1>13, AfterStopIs
<1>15. /\ position' \in [Chars -> Positions]
       /\ \A d \in Chars :
            /\ d \in {c, fch} => position'[d] = "fighting"
            /\ d \notin out \cup {c, fch} => position'[d] = position[d]
            /\ d \in out \ {c, fch} => position'[d] \in {"down", "standing"}
  BY <1>1, <1>2, <1>14 DEF Positions
<1>16. ASSUME NEW d \in Chars
       PROVE  /\ position'[d] = "dead" <=> Where(people', d) = NULL
              /\ position'[d] = "fighting" => fighting'[d] # NULL
              /\ fighting'[d] # NULL => /\ Where(people', d) # NULL
                                        /\ Where(people', fighting'[d]) # NULL
  <2>1. position[d] = "fighting" => fighting[d] # NULL
    BY DEF WorldInv, LinkInv
  <2>2. people' = people
    BY <1>1
  <2>3. CASE d \in {c, fch}
    BY <2>2, <2>3, <1>2, <1>10, <1>15, NullAssumption
  <2>4. CASE d \in out \ {c, fch}
    <3>1. fighting'[d] = NULL /\ position'[d] \in {"down", "standing"}
      BY <2>4, <1>10, <1>15
    <3>2. Where(people, d) # NULL
      BY <2>4, <1>3, FightersLive
    <3>3. QED
      BY <2>2, <3>1, <3>2
  <2>5. CASE d \notin out \cup {c, fch}
    <3>1. fighting'[d] = fighting[d] /\ position'[d] = position[d]
      BY <2>5, <1>10, <1>15
    <3>2. QED
      BY <2>1, <2>2, <3>1, FightersLive
  <2>6. QED
    BY <2>3, <2>4, <2>5
<1>17. QED
  BY <1>1, <1>12, <1>13, <1>15, <1>16, WorldFrom

(* Running away: a move, and a release of everybody involved.              *)
LEMMA FlightKeepsWorld ==
  ASSUME WorldInv, NEW c \in Chars, fighting[c] # NULL, NEW r \in Rooms,
         people' = MovedTo(c, r), StopFor(Released(fighting, c, TRUE), wounded),
         UNCHANGED <<wounded, init>>
  PROVE  WorldInv' /\ KeepsOrder({})
<1>1. Placed(people) /\ init \in [Chars -> Nat]
  BY DEF WorldInv, PlaceInv
<1>2. /\ Placed(people')
      /\ \A d : Where(people', d) = IF d = c THEN r ELSE Where(people, d)
  BY <1>1, Walking
<1>3. Where(people, c) # NULL /\ r # NULL
  BY FightersLive, CombatAssumption
<1>4. \A d \in Released(fighting, c, TRUE) : d \in Chars /\ fighting[d] # NULL
  BY DEF Released
<1>5. \A d \in Chars : Where(people', d) # NULL <=> Where(people, d) # NULL
  BY <1>2, <1>3
<1>6. QED
  BY <1>1, <1>2, <1>4, <1>5, StopKeepsWorld

-----------------------------------------------------------------------------
(* Between the rounds nobody has been served or slain, whatever commands   *)
(* do to the world.                                                        *)
LEMMA QuietKeeps ==
  ASSUME IInv, Quiet, WorldInv'
  PROVE  IInv'
<1>1. /\ pc = "idle" /\ pc' = "idle" /\ UNCHANGED <<ch, ch_next, victim, rch>>
      /\ UNCHANGED <<att, vic, stage, ret, blow>> /\ UNCHANGED <<served, slain>>
  BY DEF Quiet, Between, walk, hit, history
<1>2. ThreadInv'
  BY <1>1 DEF IInv, ThreadInv, InRound
<1>3. SlainInv'
  BY <1>1 DEF IInv, SlainInv, TheSlainAreOutOfIt
<1>4. TurnInv'
  <2>1. ~InRound /\ ~InRound'
    BY <1>1 DEF IInv, ThreadInv, InRound
  <2>2. served' = NobodyServed' /\ \A c \in Chars : served'[c] = 0
    BY <1>1, <2>1 DEF IInv, TurnInv, NobodyServed
  <2>3. served' \in [Chars -> 0 .. 3]
    BY <1>1 DEF IInv, TurnInv
  <2>4. QED
    BY <2>1, <2>2, <2>3 DEF TurnInv
<1>5. QED
  BY <1>2, <1>3, <1>4 DEF IInv

(* Steps that leave the walk where it is.                                  *)
LEMMA TurnKept ==
  ASSUME TurnInv, init \in [Chars -> Nat], NEW new, KeepsOrder(new), Front' = Front,
         UNCHANGED init,
         InRound' <=> InRound, \A c \in Chars : OwnTurn(c) => OwnTurn(c)',
         \A c \in Chars : served'[c] = IF c \in new /\ served[c] \in {1, 2}
                                       THEN served[c] + 1 ELSE served[c],
         served' \in [Chars -> 0 .. 3]
  PROVE  TurnInv'
<1>1. \A c \in Chars : /\ served'[c] # 0 <=> served[c] # 0
                       /\ served'[c] = 1 => served[c] = 1 /\ c \notin new
                       /\ served'[c] = 2 => \/ served[c] = 1 /\ c \in new
                                            \/ served[c] = 2 /\ c \notin new
  <2> TAKE c \in Chars
  <2>1. served[c] \in 0 .. 3
    BY DEF TurnInv
  <2>2. QED
    BY <2>1
<1>2. \A c \in Chars \ new : Ahead(order', Front', c) => Ahead(order, Front, c)
  BY DEF KeepsOrder
<1>3. ~InRound' => served' = NobodyServed
  <2>1. NobodyServed = [c \in Chars |-> 0]
    BY DEF NobodyServed
  <2>2. ASSUME ~InRound' PROVE \A c \in Chars : served'[c] = 0
    <3>1. \A c \in Chars : served[c] = 0
      BY <2>1, <2>2 DEF TurnInv
    <3>2. QED
      BY <3>1, <1>1
  <2>3. QED
    BY <2>1, <2>2
<1>4. \A c \in Chars : served'[c] = 1 => ~Ahead(order', Front', c)
  BY <1>1, <1>2 DEF TurnInv
<1>5. \A c \in Chars : served'[c] = 1 /\ ~OwnTurn(c)' => init[c] >= 2
  BY <1>1 DEF TurnInv
<1>6. \A c \in Chars : served'[c] = 2 /\ ~OwnTurn(c)' =>
         init[c] >= 1 /\ (Ahead(order', Front', c) => init[c] >= 2)
  <2> SUFFICES ASSUME NEW c \in Chars, served'[c] = 2, ~OwnTurn(c)'
               PROVE  init[c] >= 1 /\ (Ahead(order', Front', c) => init[c] >= 2)
    OBVIOUS
  <2>1. CASE served[c] = 1 /\ c \in new
    <3>1. init[c] >= 2
      BY <2>1 DEF TurnInv
    <3>2. init[c] \in Nat /\ init[c] >= 1
      BY <3>1
    <3>3. QED
      BY <3>1, <3>2
  <2>2. CASE served[c] = 2 /\ c \notin new
    BY <2>2, <1>2 DEF TurnInv
  <2>3. QED
    BY <1>1, <2>1, <2>2
<1>7. NobodyServed' = NobodyServed
  BY DEF NobodyServed
<1>8. QED
  BY <1>3, <1>4, <1>5, <1>6, <1>7 DEF TurnInv

LEMMA WorldTypes ==
  ASSUME WorldInv
  PROVE  /\ Placed(people) /\ init \in [Chars -> Nat] /\ position \in [Chars -> Positions]
         /\ wounded \subseteq Players /\ order \in Seq(Chars) /\ Listed(order)
         /\ fighting \in [Chars -> Chars \cup {NULL}]
         /\ \A c \in Chars : In(order, c) <=> fighting[c] # NULL
  BY DEF WorldInv, PlaceInv, OrderInv, Listed

(* multi_hit's stages.                                                     *)
LEMMA SwingKeeps ==
  ASSUME IInv, NEW n \in 1 .. 5, Swing(n)
  PROVE  IInv'
<1> DEFINE h == IF n \in {3, 4} THEN vic ELSE att
           t == IF n \in {3, 4} THEN att ELSE vic
<1>1. /\ pc = "swing" /\ stage' = IF n = 5 THEN 0 ELSE n + 1
      /\ UNCHANGED <<ch, ch_next, victim, rch, att, vic, ret, slain>>
      /\ \/ UNCHANGED world /\ UNCHANGED <<pc, blow, served>>
         \/ /\ MayStrike(h, t) /\ TakeUpFight(h, t)
            /\ pc' = "blow" /\ blow' = <<h, t>>
            /\ UNCHANGED <<wounded, people, init>>
  BY DEF Swing, walk, world
<1>2. /\ WorldInv /\ ThreadInv /\ SlainInv /\ TurnInv
  BY DEF IInv
<1>3. att \in Chars /\ vic \in Chars /\ h \in Chars /\ t \in Chars /\ pc' \in {"swing", "blow"}
      /\ stage' \in 0 .. 5
  BY <1>1, <1>2 DEF ThreadInv
<1> HIDE DEF h, t
<1>4. /\ Front' = Front /\ (InRound' <=> InRound) /\ \A c \in Chars : OwnTurn(c) => OwnTurn(c)'
  BY <1>1, <1>2, <1>3 DEF ThreadInv, Front, InRound, OwnTurn
<1>5. CASE UNCHANGED world /\ UNCHANGED <<pc, blow, served>>
  <2>1. WorldInv' /\ KeepsOrder({})
    BY <1>2, <1>5, WorldStays
  <2>2. people' = people /\ init' = init
    BY <1>5 DEF world
  <2>3. ThreadInv'
    BY <1>1, <1>2, <1>3, <1>5 DEF ThreadInv, InRound
  <2>4. SlainInv'
    <3>1. \A c \in slain' : RoomOf(c)' \in {NULL, Altar}
      BY <1>1, <1>2, <2>2, RoomIs DEF SlainInv
    <3>2. QED
      BY <1>1, <1>2, <1>5, <3>1 DEF SlainInv, TheSlainAreOutOfIt
  <2>5. TurnInv'
    <3>1. served' \in [Chars -> 0 .. 3] /\ \A c \in Chars : served'[c] = served[c]
      BY <1>2, <1>5 DEF TurnInv
    <3>2. init \in [Chars -> Nat]
      BY <1>2, WorldTypes
    <3>3. QED
      BY <1>2, <1>4, <2>1, <2>2, <3>1, <3>2, TurnKept
  <2>6. QED
    BY <2>1, <2>3, <2>4, <2>5 DEF IInv
<1>6. CASE /\ MayStrike(h, t) /\ TakeUpFight(h, t)
           /\ pc' = "blow" /\ blow' = <<h, t>>
           /\ UNCHANGED <<wounded, people, init>>
  <2>1. /\ WorldInv' /\ KeepsOrder(NewFighters(h, t))
        /\ served' = [c \in Chars |-> IF c \in NewFighters(h, t) /\ served[c] \in {1, 2}
                                       THEN served[c] + 1 ELSE served[c]]
    BY <1>2, <1>3, <1>6, StrikeKeepsWorld
  <2>2. /\ Where(people, h) # NULL /\ Where(people, t) # NULL
        /\ h # t => Where(people, h) = Where(people, t) /\ Where(people, h) # Altar
    BY <1>2, <1>3, <1>6, Strikers
  <2>3. blow'[1] = h /\ blow'[2] = t /\ blow' \in Chars \X Chars
    BY <1>3, <1>6
  <2>4. ThreadInv'
    <3>1. Present(blow[1])' /\ Present(blow[2])'
      <4>1. Where(people', blow'[1]) # NULL /\ Where(people', blow'[2]) # NULL
        BY <1>6, <2>2, <2>3
      <4>2. QED
        BY <4>1 DEF Present, RoomOf, Where
    <3>2. QED
      BY <1>1, <1>2, <1>3, <1>6, <2>3, <3>1, NullAssumption DEF ThreadInv, InRound
  <2>5. SlainInv'
    <3>1. \A c \in slain' : RoomOf(c)' \in {NULL, Altar}
      BY <1>1, <1>2, <1>6, RoomIs DEF SlainInv
    <3>2. h # t => h \notin slain /\ t \notin slain
      BY <1>2, <2>2, RoomIs DEF SlainInv
    <3>3. TheSlainAreOutOfIt'
      BY <1>1, <2>3, <3>2 DEF TheSlainAreOutOfIt
    <3>4. QED
      BY <1>1, <1>2, <1>3, <1>6, <3>1, <3>3, NullAssumption DEF SlainInv
  <2>6. TurnInv'
    <3>1. \A c \in Chars : served'[c] = IF c \in NewFighters(h, t) /\ served[c] \in {1, 2}
                                        THEN served[c] + 1 ELSE served[c]
      BY <2>1
    <3>2. served' \in [Chars -> 0 .. 3]
      <4>1. \A c \in Chars : served[c] \in 0 .. 3
        BY <1>2 DEF TurnInv
      <4>2. \A c \in Chars : (IF c \in NewFighters(h, t) /\ served[c] \in {1, 2}
                              THEN served[c] + 1 ELSE served[c]) \in 0 .. 3
        BY <4>1
      <4>3. QED
        BY <2>1, <4>2
    <3>3. init \in [Chars -> Nat] /\ UNCHANGED init
      BY <1>2, <1>6, WorldTypes
    <3>4. QED
      BY <1>2, <1>4, <2>1, <3>1, <3>2, <3>3, TurnKept
  <2>7. QED
    BY <2>1, <2>4, <2>5, <2>6 DEF IInv
<1>7. QED
  BY <1>1, <1>5, <1>6

LEMMA ReturnKeeps ==
  ASSUME IInv, MultiHitReturn
  PROVE  IInv'
<1>1. /\ pc = "swing" /\ pc' = ret /\ att' = NULL /\ vic' = NULL /\ stage' = 0 /\ ret' = "idle"
      /\ slain' = (IF ret = "idle" THEN {} ELSE slain) /\ ret # "again"
      /\ UNCHANGED world /\ UNCHANGED <<ch, ch_next, victim, rch, blow, served>>
  BY DEF MultiHitReturn, MultiHitOver, walk, world
<1>2. WorldInv /\ ThreadInv /\ SlainInv /\ TurnInv
  BY DEF IInv
<1>3. WorldInv' /\ KeepsOrder({}) /\ people' = people /\ init' = init
  BY <1>1, <1>2, WorldStays DEF world
<1>4. ThreadInv'
  BY <1>1, <1>2 DEF ThreadInv, InRound
<1>5. SlainInv'
  <2>1. \A c \in slain' : RoomOf(c)' \in {NULL, Altar}
    BY <1>1, <1>2, <1>3, RoomIs DEF SlainInv
  <2>2. pc' # "blow" /\ (pc' = "idle" => slain' = {})
    BY <1>1, <1>2 DEF ThreadInv
  <2>3. slain' \subseteq Chars
    BY <1>1, <1>2 DEF SlainInv
  <2>4. QED
    BY <2>1, <2>2, <2>3 DEF SlainInv, TheSlainAreOutOfIt
<1>6. TurnInv'
  <2>1. served' \in [Chars -> 0 .. 3] /\ \A c \in Chars : served'[c] = served[c]
    BY <1>1, <1>2 DEF TurnInv
  <2>2. Front' = Front /\ (InRound' <=> InRound) /\ \A c \in Chars : OwnTurn(c) => OwnTurn(c)'
    BY <1>1, <1>2 DEF ThreadInv, Front, InRound, OwnTurn
  <2>3. init \in [Chars -> Nat]
    BY <1>2, WorldTypes
  <2>4. QED
    BY <1>2, <1>3, <2>1, <2>2, <2>3, TurnKept
<1>7. QED
  BY <1>3, <1>4, <1>5, <1>6 DEF IInv

LEMMA NobodyIs == NobodyServed' = NobodyServed /\ NobodyServed \in [Chars -> 0 .. 3]
                  /\ \A c \in Chars : NobodyServed[c] = 0
  BY DEF NobodyServed

LEMMA AgainKeeps ==
  ASSUME IInv, MultiHitAgain
  PROVE  IInv'
<1>1. /\ pc = "swing" /\ ret = "again" /\ stage' = 1 /\ ret' = "idle"
      /\ UNCHANGED world
      /\ UNCHANGED <<pc, ch, ch_next, victim, rch, att, vic, blow, served, slain>>
  BY DEF MultiHitAgain, MultiHitOver, walk, world
<1>2. WorldInv /\ ThreadInv /\ SlainInv /\ TurnInv
  BY DEF IInv
<1>3. WorldInv' /\ people' = people
  BY <1>1, <1>2, WorldStays DEF world
<1>4. ThreadInv' /\ ~InRound /\ ~InRound'
  BY <1>1, <1>2 DEF ThreadInv, InRound
<1>5. SlainInv'
  <2>1. \A c \in slain' : RoomOf(c)' \in {NULL, Altar}
    BY <1>1, <1>2, <1>3, RoomIs DEF SlainInv
  <2>2. QED
    BY <1>1, <1>2, <2>1 DEF SlainInv, TheSlainAreOutOfIt
<1>6. TurnInv'
  BY <1>1, <1>2, <1>4, NobodyIs DEF TurnInv
<1>7. QED
  BY <1>3, <1>4, <1>5, <1>6 DEF IInv

(* The return from a blow, whatever it did to the world.                   *)
LEMMA AfterBlow ==
  ASSUME IInv, BlowDone, WorldInv', KeepsOrder({}), NEW dead \in SUBSET Chars, Noted(dead),
         \A c \in slain \cup dead : Where(people', c) \in {NULL, Altar}
  PROVE  IInv'
<1>1. /\ pc = "blow" /\ pc' = (IF att = NULL THEN "idle" ELSE "swing") /\ blow' = << >>
      /\ UNCHANGED <<init, ch, ch_next, victim, rch, att, vic, stage, ret, served>>
      /\ slain' = IF att = NULL THEN {} ELSE slain \cup dead
  BY DEF BlowDone, walk, Noted
<1>2. WorldInv /\ ThreadInv /\ SlainInv /\ TurnInv
  BY DEF IInv
<1>3. ThreadInv'
  BY <1>1, <1>2 DEF ThreadInv, InRound
<1>4. SlainInv'
  <2>1. \A c \in slain' : RoomOf(c)' \in {NULL, Altar}
    BY <1>1, RoomIs
  <2>2. slain' \subseteq Chars /\ pc' # "blow" /\ (pc' = "idle" => slain' = {})
    BY <1>1, <1>2 DEF SlainInv
  <2>3. QED
    BY <2>1, <2>2 DEF SlainInv, TheSlainAreOutOfIt
<1>5. TurnInv'
  <2>1. served' \in [Chars -> 0 .. 3] /\ \A c \in Chars : served'[c] = served[c]
    BY <1>1, <1>2 DEF TurnInv
  <2>2. Front' = Front /\ (InRound' <=> InRound) /\ \A c \in Chars : OwnTurn(c) => OwnTurn(c)'
    BY <1>1, <1>2 DEF ThreadInv, Front, InRound, OwnTurn
  <2>3. init \in [Chars -> Nat]
    BY <1>2, WorldTypes
  <2>4. QED
    BY <1>1, <1>2, <2>1, <2>2, <2>3, TurnKept
<1>6. QED
  BY <1>3, <1>4, <1>5 DEF IInv

(* Who is being struck is in the game, and not slain unless by itself.     *)
LEMMA Targets ==
  ASSUME IInv, pc = "blow"
  PROVE  /\ Target \in Chars /\ Where(people, Target) # NULL
         /\ blow[1] # Target => Target \notin slain
         /\ \A c \in slain : Where(people, c) \in {NULL, Altar}
         /\ slain \subseteq Chars
<1>1. blow \in Chars \X Chars /\ Present(blow[2])
  BY DEF IInv, ThreadInv
<1>2. blow[1] # blow[2] => blow[2] \notin slain
  BY DEF IInv, SlainInv, TheSlainAreOutOfIt
<1>3. \A c \in slain : Where(people, c) \in {NULL, Altar}
  BY RoomIs DEF IInv, SlainInv
<1>4. QED
  BY <1>1, <1>2, <1>3, Presence DEF Target, IInv, SlainInv

LEMMA AbsorbedKeeps ==
  ASSUME IInv, BlowAbsorbed
  PROVE  IInv'
<1> DEFINE out == IF Awake(Target) THEN {} ELSE Released(fighting, Target, FALSE)
<1>1. /\ BlowDone /\ StopFor(out, wounded) /\ UNCHANGED <<wounded, people>> /\ Noted({})
      /\ UNCHANGED init
  BY DEF BlowAbsorbed, BlowDone
<1>2. \A c \in out : c \in Chars /\ fighting[c] # NULL
  BY DEF Released
<1> HIDE DEF out
<1>3. Placed(people') /\ init' \in [Chars -> Nat]
  BY <1>1, WorldTypes DEF IInv
<1>4. WorldInv' /\ KeepsOrder({})
  <2>1. \A c \in Chars : Where(people', c) # NULL <=> Where(people, c) # NULL
    BY <1>1
  <2>2. QED
    BY <1>1, <1>2, <1>3, <2>1, StopKeepsWorld DEF IInv
<1>5. \A c \in slain \cup {} : Where(people', c) \in {NULL, Altar}
  BY <1>1, Targets DEF BlowDone
<1>6. QED
  BY <1>1, <1>4, <1>5, AfterBlow

(* The victim stays, or recalls if it has not struck itself.               *)
LEMMA GoingHome ==
  ASSUME WorldInv, Target \in Chars, Where(people, Target) # NULL,
         blow[1] # Target => Target \notin slain,
         \A c \in slain : Where(people, c) \in {NULL, Altar},
         UNCHANGED people \/ (blow[1] # Target /\ people' = MovedTo(Target, Home))
  PROVE  /\ Placed(people')
         /\ \A c \in Chars : Where(people', c) # NULL <=> Where(people, c) # NULL
         /\ \A c \in slain : Where(people', c) \in {NULL, Altar}
<1>1. CASE UNCHANGED people
  BY <1>1, WorldTypes
<1>2. CASE blow[1] # Target /\ people' = MovedTo(Target, Home)
  <2>1. Home \in Rooms /\ Home # NULL
    BY CombatAssumption
  <2>2. /\ Placed(people')
        /\ \A d : Where(people', d) = IF d = Target THEN Home ELSE Where(people, d)
    BY <1>2, <2>1, Walking, WorldTypes
  <2>3. QED
    BY <1>2, <2>1, <2>2
<1>3. QED
  BY <1>1, <1>2

LEMMA RousesKeeps ==
  ASSUME IInv, BlowRouses
  PROVE  IInv'
<1>1. /\ BlowDone /\ Noted({}) /\ pc = "blow"
      /\ position' = [position EXCEPT ![Target] = "standing"]
      /\ UNCHANGED people \/ (blow[1] # Target /\ people' = MovedTo(Target, Home))
      /\ UNCHANGED <<order, fighting, wounded, init>>
  BY DEF BlowRouses, BlowDone
<1>2. /\ Target \in Chars /\ Where(people, Target) # NULL
      /\ blow[1] # Target => Target \notin slain
      /\ \A c \in slain : Where(people, c) \in {NULL, Altar}
  BY <1>1, Targets
<1>3. /\ Placed(people')
      /\ \A c \in Chars : Where(people', c) # NULL <=> Where(people, c) # NULL
      /\ \A c \in slain : Where(people', c) \in {NULL, Altar}
  BY <1>1, <1>2, GoingHome DEF IInv
<1>4. WorldInv' /\ KeepsOrder({})
  BY <1>1, <1>2, <1>3, PoseKeepsWorld DEF IInv, Positions
<1>5. QED
  BY <1>1, <1>3, <1>4, AfterBlow

LEMMA WoundsKeeps ==
  ASSUME IInv, BlowWounds
  PROVE  IInv'
<1>1. /\ BlowDone /\ Target \in Players /\ GoDown(Target, TRUE) /\ Noted({})
      /\ UNCHANGED people \/ (blow[1] # Target /\ people' = MovedTo(Target, Home))
      /\ UNCHANGED init /\ pc = "blow"
  BY DEF BlowWounds, BlowDone
<1>2. /\ Target \in Chars /\ Where(people, Target) # NULL
      /\ blow[1] # Target => Target \notin slain
      /\ \A c \in slain : Where(people, c) \in {NULL, Altar}
  BY <1>1, Targets
<1>3. /\ Placed(people')
      /\ \A c \in Chars : Where(people', c) # NULL <=> Where(people, c) # NULL
      /\ \A c \in slain : Where(people', c) \in {NULL, Altar}
  BY <1>1, <1>2, GoingHome DEF IInv
<1>4. WorldInv' /\ KeepsOrder({})
  BY <1>1, <1>2, <1>3, DownKeepsWorld DEF IInv
<1>5. QED
  BY <1>1, <1>3, <1>4, AfterBlow

LEMMA KillsKeeps ==
  ASSUME IInv, BlowKills
  PROVE  IInv'
<1>1. BlowDone /\ RawKill(Target) /\ Noted({Target}) /\ UNCHANGED init /\ pc = "blow"
  BY DEF BlowKills, BlowDone
<1>2. Target \in Chars /\ \A c \in slain : Where(people, c) \in {NULL, Altar}
  BY <1>1, Targets
<1>3. /\ WorldInv' /\ KeepsOrder({})
      /\ \A c : Where(people', c) = IF c # Target THEN Where(people, c)
                                    ELSE IF IsNPC(Target) THEN NULL ELSE Altar
  BY <1>1, <1>2, KillKeepsWorld DEF IInv
<1>4. \A c \in slain \cup {Target} : Where(people', c) \in {NULL, Altar}
  BY <1>2, <1>3
<1>5. {Target} \in SUBSET Chars
  BY <1>2
<1>6. QED
  BY <1>1, <1>3, <1>4, <1>5, AfterBlow

LEMMA DrivesKeeps ==
  ASSUME IInv, BlowDrivesOff
  PROVE  IInv'
<1>1. PICK r \in Exits[RoomOf(Target)] \cup (IF IsNPC(Target) THEN {} ELSE {Home}) :
        r # RoomOf(Target) /\ people' = MovedTo(Target, r)
  BY DEF BlowDrivesOff
<1>2. /\ BlowDone /\ blow[1] # Target /\ fighting[Target] # NULL
      /\ StopFor(Released(fighting, Target, TRUE), wounded) /\ UNCHANGED wounded /\ Noted({})
      /\ UNCHANGED init /\ pc = "blow"
  BY DEF BlowDrivesOff, BlowDone
<1>3. /\ Target \in Chars /\ Where(people, Target) # NULL /\ Target \notin slain
      /\ \A c \in slain : Where(people, c) \in {NULL, Altar}
  BY <1>2, Targets
<1>4. r \in Rooms
  <2>1. RoomOf(Target) \in Rooms
    BY <1>3, RoomIs, InARoom, WorldTypes DEF IInv
  <2>2. Exits[RoomOf(Target)] \subseteq Rooms /\ Home \in Rooms
    BY <2>1, CombatAssumption
  <2>3. QED
    BY <2>2
<1>5. WorldInv' /\ KeepsOrder({})
  BY <1>1, <1>2, <1>3, <1>4, FlightKeepsWorld DEF IInv
<1>6. \A c \in slain \cup {} : Where(people', c) \in {NULL, Altar}
  <2>1. \A d : Where(people', d) = IF d = Target THEN r ELSE Where(people, d)
    BY <1>1, <1>3, <1>4, Walking, WorldTypes DEF IInv
  <2>2. QED
    BY <2>1, <1>3
<1>7. QED
  BY <1>2, <1>5, <1>6, AfterBlow

-----------------------------------------------------------------------------
(* violence_update.                                                        *)
LEMMA ViolenceKeeps ==
  ASSUME IInv, ViolenceUpdate
  PROVE  IInv'
<1>1. /\ pc = "idle" /\ pc' = "head" /\ ch' = HeadOf(order) /\ served' = NobodyServed
      /\ UNCHANGED world
      /\ UNCHANGED <<ch_next, victim, rch, att, vic, stage, ret, blow, slain>>
  BY DEF ViolenceUpdate, hit
<1>2. WorldInv /\ ThreadInv /\ SlainInv /\ TurnInv
  BY DEF IInv
<1>3. WorldInv'
  BY <1>1, <1>2, WorldStays
<1>4. HeadOf(order) \in Chars \cup {NULL}
  BY <1>2, Heads, WorldTypes
<1>5. ThreadInv'
  BY <1>1, <1>2, <1>4 DEF ThreadInv, InRound
<1>6. SlainInv'
  BY <1>1, <1>2 DEF SlainInv, TheSlainAreOutOfIt
<1>7. TurnInv'
  BY <1>1, NobodyIs DEF TurnInv
<1>8. QED
  BY <1>3, <1>5, <1>6, <1>7 DEF IInv

LEMMA RoundOverKeeps ==
  ASSUME IInv, RoundOver
  PROVE  IInv'
<1>1. /\ pc = "head" /\ pc' = "idle" /\ ch = NULL /\ ch_next' = NULL
      /\ served' = NobodyServed /\ slain' = {} /\ UNCHANGED world
      /\ UNCHANGED <<ch, victim, rch, att, vic, stage, ret, blow>>
  BY DEF RoundOver, hit
<1>2. WorldInv /\ ThreadInv /\ SlainInv /\ TurnInv
  BY DEF IInv
<1>3. WorldInv'
  BY <1>1, <1>2, WorldStays
<1>4. ThreadInv'
  BY <1>1, <1>2 DEF ThreadInv, InRound
<1>5. SlainInv'
  BY <1>1, <1>2 DEF SlainInv, TheSlainAreOutOfIt
<1>6. TurnInv'
  BY <1>1, NobodyIs DEF TurnInv
<1>7. QED
  BY <1>3, <1>4, <1>5, <1>6 DEF IInv

(* Steps of a round at which nobody is slain and no blow is under way.     *)
LEMMA SlainKept ==
  ASSUME SlainInv, pc' \notin {"blow", "idle"}, UNCHANGED <<people, slain>>
  PROVE  SlainInv'
<1>1. \A c \in slain' : RoomOf(c)' \in {NULL, Altar}
  BY RoomIs DEF SlainInv
<1>2. QED
  BY <1>1 DEF SlainInv, TheSlainAreOutOfIt

(* Whoever the walk is about to meet and was served has a speed to count   *)
(* down.                                                                   *)
LEMMA Met ==
  ASSUME IInv, pc = "head", ch \in Chars, fighting[ch] # NULL, init[ch] - 1 <= 0
  PROVE  served[ch] \in {0, 3}
<1>1. Ahead(order, ch, ch)
  BY WorldTypes, AheadIsIn DEF IInv
<1>2. Front = ch /\ ~OwnTurn(ch)
  BY DEF IInv, ThreadInv, Front, OwnTurn
<1>3. served[ch] # 1
  BY <1>1, <1>2 DEF IInv, TurnInv
<1>4. served[ch] # 2
  <2>1. served[ch] = 2 => init[ch] >= 2
    BY <1>1, <1>2 DEF IInv, TurnInv
  <2>2. init[ch] \in Nat
    BY WorldTypes DEF IInv
  <2>3. QED
    BY <2>1, <2>2
<1>5. served[ch] \in 0 .. 3
  BY DEF IInv, TurnInv
<1>6. QED
  BY <1>3, <1>4, <1>5

LEMMA TurnKeeps ==
  ASSUME IInv, Turn
  PROVE  IInv'
<1>1. /\ pc = "head" /\ ch # NULL /\ ch_next' = NextIn(order, ch)
      /\ UNCHANGED <<wounded, people, victim, rch, slain>>
  BY DEF Turn
<1>2. WorldInv /\ ThreadInv /\ SlainInv /\ TurnInv
  BY DEF IInv
<1>3. /\ ch \in Chars /\ ret = "idle" /\ att = NULL /\ vic = NULL
      /\ Front = ch /\ InRound /\ \A c \in Chars : ~OwnTurn(c)
  BY <1>1, <1>2 DEF ThreadInv, InRound, Front, OwnTurn
<1>4. /\ ch_next' \in Chars \cup {NULL}
      /\ \A c \in Chars : Ahead(order, ch_next', c) => Ahead(order, ch, c) /\ c # ch
  BY <1>1, <1>2, Follows, WorldTypes
<1>5. /\ init \in [Chars -> Nat] /\ served \in [Chars -> 0 .. 3]
      /\ \A c \in Chars : served[c] = 1 => ~Ahead(order, ch, c) /\ init[c] >= 2
      /\ \A c \in Chars : served[c] = 2 =>
           init[c] >= 1 /\ (Ahead(order, ch, c) => init[c] >= 2)
  BY <1>2, <1>3, WorldTypes DEF TurnInv
<1>6. CASE /\ Awaits(ch) /\ init[ch] - 1 <= 0
           /\ MultiHit(ch, fighting[ch], "after")
           /\ init' = [init EXCEPT ![ch] = 0]
           /\ served' = [served EXCEPT ![ch] = 1]
           /\ UNCHANGED <<order, fighting, position, ch>>
  <2>1. /\ att' = ch /\ vic' = fighting[ch] /\ ret' = "after" /\ stage' = 1 /\ blow' = << >>
        /\ pc' = "swing" /\ fighting[ch] # NULL
    BY <1>6 DEF MultiHit, Awaits
  <2>2. fighting[ch] \in Chars
    BY <1>2, <1>3, <2>1, FightersLive
  <2>3. WorldInv'
    <3>1. init' \in [Chars -> Nat]
      BY <1>5, <1>6
    <3>2. /\ Placed(people') /\ wounded' \subseteq Players /\ position' \in [Chars -> Positions]
      BY <1>1, <1>2, <1>6, WorldTypes
    <3>3. \A c \in Chars : /\ Where(people, c) # NULL => Where(people', c) # NULL
                           /\ position'[c] = "dead" <=> Where(people', c) = NULL
                           /\ position'[c] = "fighting" => position[c] = "fighting"
      BY <1>1, <1>2, <1>6, FightersLive
    <3>4. QED
      BY <1>2, <1>6, <3>1, <3>2, <3>3, PeaceKeepsWorld
  <2>4. ThreadInv'
    BY <1>1, <1>2, <1>3, <1>4, <1>6, <2>1, <2>2 DEF ThreadInv, InRound
  <2>5. SlainInv'
    BY <1>1, <1>2, <2>1, SlainKept
  <2>6. TurnInv'
    <3>1. Front' = ch_next' /\ InRound' /\ \A c \in Chars : OwnTurn(c)' <=> c = ch
      BY <1>6, <2>1 DEF Front, InRound, OwnTurn
    <3>2. /\ served' \in [Chars -> 0 .. 3] /\ served'[ch] = 1
          /\ \A c \in Chars \ {ch} : served'[c] = served[c] /\ init'[c] = init[c]
      BY <1>3, <1>5, <1>6
    <3>3. \A c \in Chars : Ahead(order', Front', c) => Ahead(order, ch, c) /\ c # ch
      BY <1>4, <1>6, <3>1
    <3>4. QED
      BY <1>5, <3>1, <3>2, <3>3 DEF TurnInv
  <2>7. QED
    BY <2>3, <2>4, <2>5, <2>6 DEF IInv
<1>7. CASE /\ Awaits(ch) /\ init[ch] - 1 > 0
           /\ init' = [init EXCEPT ![ch] = @ - 1]
           /\ ch' = ch_next'
           /\ UNCHANGED <<order, fighting, position, pc, hit, served>>
  <2>1. UNCHANGED <<att, vic, stage, ret, blow>> /\ fighting[ch] # NULL
    BY <1>7 DEF hit, Awaits
  <2>2. /\ init' \in [Chars -> Nat] /\ init'[ch] = init[ch] - 1
        /\ \A c \in Chars \ {ch} : init'[c] = init[c]
    <3>1. init[ch] \in Nat /\ init[ch] - 1 \in Nat
      BY <1>3, <1>5, <1>7
    <3>2. QED
      BY <1>3, <1>5, <1>7, <3>1
  <2>3. WorldInv'
    <3>1. /\ Placed(people') /\ wounded' \subseteq Players /\ position' \in [Chars -> Positions]
      BY <1>1, <1>2, <1>7, WorldTypes
    <3>2. \A c \in Chars : /\ Where(people, c) # NULL => Where(people', c) # NULL
                           /\ position'[c] = "dead" <=> Where(people', c) = NULL
                           /\ position'[c] = "fighting" => position[c] = "fighting"
      BY <1>1, <1>2, <1>7, FightersLive
    <3>3. QED
      BY <1>2, <1>7, <2>2, <3>1, <3>2, PeaceKeepsWorld
  <2>4. ThreadInv'
    BY <1>1, <1>2, <1>3, <1>4, <1>7, <2>1 DEF ThreadInv, InRound
  <2>5. SlainInv'
    BY <1>1, <1>2, <1>7, SlainKept
  <2>6. TurnInv'
    <3>1. Front' = ch_next' /\ InRound'
      BY <1>1, <1>7 DEF Front, InRound
    <3>2. \A c \in Chars : Ahead(order', Front', c) => Ahead(order, ch, c) /\ c # ch
      BY <1>4, <1>7, <3>1
    <3>3. Ahead(order, ch, ch)
      BY <1>2, <1>3, <2>1, WorldTypes, AheadIsIn
    <3>4. served[ch] # 1 /\ (served[ch] = 2 => init'[ch] >= 1)
      <4>1. served[ch] = 2 => init[ch] >= 2
        BY <1>3, <1>5, <3>3
      <4>2. init[ch] \in Nat
        BY <1>3, <1>5
      <4>3. QED
        BY <1>3, <1>5, <2>2, <3>3, <4>1, <4>2
    <3>5. \A c \in Chars : served'[c] = 1 => ~Ahead(order', Front', c)
      BY <1>5, <1>7, <3>2
    <3>6. \A c \in Chars : served'[c] = 1 => init'[c] >= 2
      BY <1>5, <1>7, <2>2, <3>4
    <3>7. \A c \in Chars : served'[c] = 2 =>
            init'[c] >= 1 /\ (Ahead(order', Front', c) => init'[c] >= 2)
      <4> SUFFICES ASSUME NEW c \in Chars, served[c] = 2
                   PROVE  init'[c] >= 1 /\ (Ahead(order', Front', c) => init'[c] >= 2)
        BY <1>7
      <4>1. CASE c = ch
        BY <4>1, <3>2, <3>4
      <4>2. CASE c # ch
        BY <4>2, <1>5, <2>2, <3>2
      <4>3. QED
        BY <4>1, <4>2
    <3>8. QED
      BY <1>5, <1>7, <3>1, <3>5, <3>6, <3>7 DEF TurnInv
  <2>7. QED
    BY <2>3, <2>4, <2>5, <2>6 DEF IInv
<1>8. CASE /\ ~Awaits(ch)
           /\ StopFor(Released(fighting, ch, FALSE), wounded)
           /\ ch' = ch_next'
           /\ UNCHANGED <<init, pc, hit, served>>
  <2>1. UNCHANGED <<att, vic, stage, ret, blow>>
    BY <1>8 DEF hit
  <2>2. WorldInv' /\ KeepsOrder({})
    <3>1. \A c \in Released(fighting, ch, FALSE) : c \in Chars /\ fighting[c] # NULL
      BY DEF Released
    <3>2. Placed(people') /\ init' \in [Chars -> Nat]
          /\ \A c \in Chars : Where(people', c) # NULL <=> Where(people, c) # NULL
      BY <1>1, <1>2, <1>8, WorldTypes
    <3>3. QED
      BY <1>1, <1>2, <1>8, <3>1, <3>2, StopKeepsWorld
  <2>3. ThreadInv'
    BY <1>1, <1>2, <1>3, <1>4, <1>8, <2>1 DEF ThreadInv, InRound
  <2>4. SlainInv'
    BY <1>1, <1>2, <1>8, SlainKept
  <2>5. TurnInv'
    <3>1. Front' = ch_next' /\ InRound' /\ \A c \in Chars : ~OwnTurn(c)'
      BY <1>1, <1>2, <1>8, <2>1 DEF Front, InRound, OwnTurn, ThreadInv
    <3>2. \A c \in Chars : Ahead(order', Front', c) => Ahead(order, ch, c)
      BY <1>4, <2>2, <3>1 DEF KeepsOrder
    <3>3. QED
      BY <1>5, <1>8, <3>1, <3>2 DEF TurnInv
  <2>6. QED
    BY <2>2, <2>3, <2>4, <2>5 DEF IInv
<1>9. QED
  BY <1>6, <1>7, <1>8 DEF Turn

LEMMA TurnTakenKeeps ==
  ASSUME IInv, TurnTaken
  PROVE  IInv'
<1>1. PICK n \in GetSpeed : init' = [init EXCEPT ![ch] = n]
  BY DEF TurnTaken
<1>2. /\ pc = "after"
      /\ UNCHANGED <<order, fighting, position, wounded, people>>
      /\ UNCHANGED <<att, vic, stage, ret, blow>> /\ UNCHANGED <<served, slain>>
      /\ \/ /\ fighting[ch] = NULL
            /\ pc' = "head" /\ ch' = ch_next /\ ch_next' = NULL
            /\ UNCHANGED <<victim, rch>>
         \/ /\ fighting[ch] # NULL
            /\ pc' = "assist" /\ victim' = fighting[ch]
            /\ rch' = HeadOf(people[RoomOf(ch)])
            /\ UNCHANGED <<ch, ch_next>>
  BY DEF TurnTaken, hit, history
<1>3. WorldInv /\ ThreadInv /\ SlainInv /\ TurnInv
  BY DEF IInv
<1>4. ch \in Chars /\ ret = "idle" /\ n \in Nat /\ n >= 2 /\ InRound /\ Front = ch_next
  BY <1>2, <1>3, CombatAssumption DEF ThreadInv, InRound, Front, GetSpeed
<1>5. /\ init \in [Chars -> Nat] /\ init' \in [Chars -> Nat] /\ init'[ch] >= 2
      /\ \A c \in Chars \ {ch} : init'[c] = init[c]
  BY <1>1, <1>3, <1>4, WorldTypes
<1>6. WorldInv'
  <2>1. /\ Placed(people') /\ wounded' \subseteq Players /\ position' \in [Chars -> Positions]
    BY <1>2, <1>3, WorldTypes
  <2>2. \A c \in Chars : /\ Where(people, c) # NULL => Where(people', c) # NULL
                         /\ position'[c] = "dead" <=> Where(people', c) = NULL
                         /\ position'[c] = "fighting" => position[c] = "fighting"
    BY <1>2, <1>3, FightersLive
  <2>3. QED
    BY <1>2, <1>3, <1>5, <2>1, <2>2, PeaceKeepsWorld
<1>7. fighting[ch] # NULL =>
        fighting[ch] \in Chars /\ HeadOf(people[RoomOf(ch)]) \in Chars \cup {NULL}
  <2> SUFFICES ASSUME fighting[ch] # NULL
               PROVE  fighting[ch] \in Chars /\ HeadOf(people[RoomOf(ch)]) \in Chars \cup {NULL}
    OBVIOUS
  <2>1. fighting[ch] \in Chars /\ RoomOf(ch) \in Rooms
    BY <1>3, <1>4, FightersLive, WorldTypes, InARoom, RoomIs
  <2>2. Listed(people[RoomOf(ch)])
    BY <1>3, <2>1, WorldTypes, PlacedIs DEF Placed
  <2>3. QED
    BY <2>1, <2>2, Heads
<1>8. ThreadInv'
  BY <1>2, <1>3, <1>4, <1>7 DEF ThreadInv, InRound
<1>9. SlainInv'
  BY <1>2, <1>3, SlainKept
<1>10. TurnInv'
  <2>1. Front' = ch_next /\ InRound' /\ \A c \in Chars : ~OwnTurn(c)'
    BY <1>2, <1>4 DEF Front, InRound, OwnTurn
  <2>2. \A c \in Chars \ {ch} : ~OwnTurn(c)
    BY DEF OwnTurn
  <2>3. \A c \in Chars : served'[c] = 1 => ~Ahead(order', Front', c) /\ init'[c] >= 2
    BY <1>2, <1>3, <1>4, <1>5, <2>1, <2>2 DEF TurnInv
  <2>4. \A c \in Chars : served'[c] = 2 =>
          init'[c] >= 1 /\ (Ahead(order', Front', c) => init'[c] >= 2)
    <3>1. init'[ch] >= 1
      BY <1>4, <1>5
    <3>2. QED
      BY <1>2, <1>3, <1>4, <1>5, <2>1, <2>2, <3>1 DEF TurnInv
  <2>5. served' \in [Chars -> 0 .. 3]
    BY <1>2, <1>3 DEF TurnInv
  <2>6. QED
    BY <2>1, <2>3, <2>4, <2>5 DEF TurnInv
<1>11. QED
  BY <1>6, <1>8, <1>9, <1>10 DEF IInv

(* Steps of the room loop, which leaves the walk and the turns alone.      *)
LEMMA RoomLoopKeeps ==
  ASSUME IInv, UNCHANGED world, UNCHANGED history, pc' \notin {"blow", "idle"}, ThreadInv',
         Front' = Front, InRound, InRound', \A c \in Chars : ~OwnTurn(c)
  PROVE  IInv'
<1>1. WorldInv /\ SlainInv /\ TurnInv
  BY DEF IInv
<1>2. WorldInv' /\ KeepsOrder({}) /\ people' = people /\ init' = init
  BY <1>1, WorldStays DEF world
<1>3. served' = served /\ slain' = slain
  BY DEF history
<1>4. SlainInv'
  BY <1>1, <1>2, <1>3, SlainKept
<1>5. served' \in [Chars -> 0 .. 3] /\ \A c \in Chars : served'[c] = served[c]
  BY <1>1, <1>3 DEF TurnInv
<1>6. TurnInv'
  <2>1. init \in [Chars -> Nat]
    BY <1>1, WorldTypes
  <2>2. QED
    BY <1>1, <1>2, <1>5, <2>1, TurnKept
<1>7. QED
  BY <1>2, <1>4, <1>6 DEF IInv

LEMMA AssistKeeps ==
  ASSUME IInv, Assist
  PROVE  IInv'
<1>1. /\ pc = "assist" /\ rch # NULL /\ rch' = NextInRoom(rch)
      /\ UNCHANGED world /\ UNCHANGED history /\ UNCHANGED <<ch, ch_next, victim>>
      /\ \/ \E v \in AssistTargets(rch) :
              /\ att' = rch /\ vic' = v /\ ret' = "assist"
              /\ stage' = 1 /\ blow' = << >> /\ pc' = "swing"
         \/ UNCHANGED <<pc, att, vic, stage, ret, blow>>
  BY DEF Assist, MultiHit, hit
<1>2. WorldInv /\ ThreadInv
  BY DEF IInv
<1>3. rch \in Chars /\ victim \in Chars /\ ch \in Chars /\ ret = "idle"
  BY <1>1, <1>2 DEF ThreadInv
<1>4. AssistTargets(rch) \subseteq Chars
  BY <1>3 DEF AssistTargets
<1>5. NextInRoom(rch) \in Chars \cup {NULL}
  <2>1. CASE Present(rch)
    <3>1. RoomOf(rch) \in Rooms
      BY <1>2, <2>1, WorldTypes, InARoom, RoomIs DEF Present
    <3>2. Listed(people[RoomOf(rch)])
      BY <1>2, <3>1, WorldTypes, PlacedIs DEF Placed
    <3>3. QED
      BY <2>1, <3>2, Follows DEF NextInRoom
  <2>2. CASE ~Present(rch)
    BY <2>2 DEF NextInRoom
  <2>3. QED
    BY <2>1, <2>2
<1>6. pc' \in {"swing", "assist"} /\ (pc' = "swing" => ret' = "assist" /\ att' \in Chars /\ vic' \in Chars)
  BY <1>1, <1>3, <1>4
<1>7. ThreadInv'
  BY <1>1, <1>2, <1>3, <1>5, <1>6 DEF ThreadInv, InRound
<1>8. /\ Front' = Front /\ InRound /\ InRound' /\ \A c \in Chars : ~OwnTurn(c)
  BY <1>1, <1>3, <1>6 DEF Front, InRound, OwnTurn
<1>9. QED
  BY <1>1, <1>6, <1>7, <1>8, RoomLoopKeeps

LEMMA AssistDoneKeeps ==
  ASSUME IInv, AssistDone
  PROVE  IInv'
<1>1. /\ pc = "assist" /\ pc' = "head" /\ ch' = ch_next /\ ch_next' = NULL /\ victim' = NULL
      /\ UNCHANGED world /\ UNCHANGED history
      /\ UNCHANGED <<rch, att, vic, stage, ret, blow>>
  BY DEF AssistDone, hit
<1>2. ThreadInv /\ ret = "idle"
  BY <1>1 DEF IInv, ThreadInv
<1>3. ThreadInv'
  BY <1>1, <1>2 DEF ThreadInv, InRound
<1>4. /\ Front' = Front /\ InRound /\ InRound' /\ \A c \in Chars : ~OwnTurn(c)
  BY <1>1, <1>2 DEF Front, InRound, OwnTurn
<1>5. QED
  BY <1>1, <1>3, <1>4, RoomLoopKeeps

-----------------------------------------------------------------------------
(* What is begun between the rounds: an attack, and a poison's blow.       *)
LEMMA BeginningKeeps ==
  ASSUME IInv, Between, WorldInv', people' = people, ThreadInv', ~InRound',
         pc' \in {"swing", "blow"}, pc' = "blow" => blow'[1] = blow'[2]
  PROVE  IInv'
<1>1. WorldInv /\ SlainInv /\ TurnInv /\ pc = "idle" /\ ~InRound
  BY DEF IInv, Between, ThreadInv, InRound
<1>2. UNCHANGED <<served, slain>>
  BY DEF Between, history
<1>3. slain' = {}
  BY <1>1, <1>2 DEF SlainInv
<1>4. SlainInv'
  BY <1>3 DEF SlainInv, TheSlainAreOutOfIt
<1>5. TurnInv'
  BY <1>1, <1>2, NobodyIs DEF TurnInv
<1>6. QED
  BY <1>4, <1>5 DEF IInv

LEMMA AttackKeeps ==
  ASSUME IInv, NEW a \in Chars, NEW v \in Chars, Attack(a, v)
  PROVE  IInv'
<1>1. /\ Between /\ UNCHANGED <<ch, ch_next, victim, rch>> /\ pc = "idle"
      /\ att' = a /\ vic' = v /\ ret' \in {"idle", "again"} /\ stage' = 1 /\ blow' = << >>
      /\ pc' = "swing" /\ UNCHANGED <<order, fighting, wounded, people, init>>
      /\ \/ UNCHANGED position
         \/ position[v] = "standing" /\ position' = [position EXCEPT ![v] = "down"]
  BY DEF Attack, Between, MultiHit, walk
<1>2. ThreadInv' /\ ~InRound'
  BY <1>1 DEF IInv, ThreadInv, InRound
<1>3. WorldInv
  BY DEF IInv
<1>4. WorldInv'
  <2>1. CASE UNCHANGED position
    BY <1>1, <1>3, <2>1, WorldStays DEF world
  <2>2. CASE position[v] = "standing" /\ position' = [position EXCEPT ![v] = "down"]
    BY <1>1, <1>3, <2>2, PoseKeepsWorld, WorldTypes, FightersLive DEF Positions
  <2>3. QED
    BY <1>1, <2>1, <2>2
<1>5. QED
  BY <1>1, <1>2, <1>4, BeginningKeeps

LEMMA PoisonKeeps ==
  ASSUME IInv, NEW c \in Chars, Poison(c)
  PROVE  IInv'
<1>1. /\ Between /\ UNCHANGED world /\ UNCHANGED <<ch, ch_next, victim, rch>> /\ pc = "idle"
      /\ Present(c) /\ pc' = "blow" /\ blow' = <<c, c>> /\ UNCHANGED <<att, vic, stage, ret>>
  BY DEF Poison, Between, walk
<1>2. Present(c)'
  <2>1. people' = people
    BY <1>1 DEF world
  <2>2. QED
    BY <1>1, <2>1, RoomIs DEF Present
<1>3. blow'[1] = c /\ blow'[2] = c /\ blow' \in Chars \X Chars
  BY <1>1
<1>4. Present(blow[1])' /\ Present(blow[2])'
  BY <1>2, <1>3 DEF Present, RoomOf
<1>5. ThreadInv' /\ ~InRound'
  BY <1>1, <1>3, <1>4 DEF IInv, ThreadInv, InRound
<1>6. WorldInv' /\ people' = people
  BY <1>1, WorldStays DEF IInv, world
<1>7. QED
  BY <1>1, <1>3, <1>5, <1>6, BeginningKeeps

(* Commands that end a fight, or let nobody into one.                      *)
LEMMA FleeKeeps ==
  ASSUME IInv, NEW c \in Chars, Flee(c)
  PROVE  IInv'
<1>1. WorldInv /\ Quiet /\ fighting[c] # NULL
  BY DEF IInv, Flee
<1>2. PICK r \in Exits[RoomOf(c)] \cup (IF IsNPC(c) THEN {} ELSE {Home}) :
        people' = MovedTo(c, r)
  BY DEF Flee
<1>3. r \in Rooms
  <2>1. RoomOf(c) \in Rooms
    BY <1>1, FightersLive, WorldTypes, InARoom, RoomIs
  <2>2. QED
    BY <2>1, CombatAssumption
<1>4. StopFor(Released(fighting, c, TRUE), wounded) /\ UNCHANGED <<wounded, init>>
  BY DEF Flee
<1>5. WorldInv'
  BY <1>1, <1>2, <1>3, <1>4, FlightKeepsWorld
<1>6. QED
  BY <1>1, <1>5, QuietKeeps

LEMMA RescueKeeps ==
  ASSUME IInv, NEW c \in Chars, NEW v \in Chars, Rescue(c, v)
  PROVE  IInv'
  BY RescueKeepsWorld, QuietKeeps DEF IInv, Rescue

LEMMA ExtractKeeps ==
  ASSUME IInv, NEW c \in Chars, Extract(c)
  PROVE  IInv'
  BY ExtractKeepsWorld, QuietKeeps DEF IInv, Extract

LEMMA BleedKeeps ==
  ASSUME IInv, NEW c \in Chars, BleedToDeath(c)
  PROVE  IInv'
  BY KillKeepsWorld, QuietKeeps DEF IInv, BleedToDeath

LEMMA WitherKeeps ==
  ASSUME IInv, NEW p \in Chars, Wither(p)
  PROVE  IInv'
<1>1. /\ WorldInv /\ Quiet /\ p \in Players /\ Present(p) /\ GoDown(p, FALSE)
      /\ people' = people /\ init' = init
  BY DEF IInv, Wither
<1>2. Where(people, p) # NULL /\ Placed(people')
  BY <1>1, Presence, WorldTypes
<1>3. WorldInv'
  BY <1>1, <1>2, DownKeepsWorld
<1>4. QED
  BY <1>1, <1>3, QuietKeeps

(* Moving about, which anybody may be made to do and nobody is lost by.    *)
LEMMA MovingKeeps ==
  ASSUME IInv, Quiet, NEW c \in Chars, NEW r \in Rooms, people' = MovedTo(c, r),
         Present(c), UNCHANGED <<order, fighting, position, wounded, init>>
  PROVE  IInv'
<1>1. WorldInv
  BY DEF IInv
<1>2. /\ Placed(people')
      /\ \A d : Where(people', d) = IF d = c THEN r ELSE Where(people, d)
  BY <1>1, Walking, WorldTypes
<1>3. r # NULL /\ Where(people, c) # NULL
  BY CombatAssumption, Presence
<1>4. wounded' \subseteq Players /\ init' \in [Chars -> Nat] /\ position' \in [Chars -> Positions]
  BY <1>1, WorldTypes
<1>5. \A d \in Chars : /\ Where(people, d) # NULL => Where(people', d) # NULL
                       /\ position'[d] = "dead" <=> Where(people', d) = NULL
                       /\ position'[d] = "fighting" => position[d] = "fighting"
  BY <1>1, <1>2, <1>3, FightersLive
<1>6. WorldInv'
  BY <1>1, <1>2, <1>4, <1>5, PeaceKeepsWorld
<1>7. QED
  BY <1>6, QuietKeeps

LEMMA WalkKeeps ==
  ASSUME IInv, NEW c \in Chars, Walk(c)
  PROVE  IInv'
<1>1. PICK r \in Exits[RoomOf(c)] : people' = MovedTo(c, r)
  BY DEF Walk
<1>2. /\ Quiet /\ Present(c) /\ UNCHANGED <<order, fighting, position, wounded, init>>
  BY DEF Walk
<1>3. RoomOf(c) \in Rooms
  BY <1>2, WorldTypes, InARoom, RoomIs DEF Present, IInv
<1>4. r \in Rooms
  BY <1>1, <1>3, CombatAssumption
<1>5. QED
  BY <1>1, <1>2, <1>4, MovingKeeps

LEMMA TeleportKeeps ==
  ASSUME IInv, NEW p \in Chars, Teleport(p)
  PROVE  IInv'
<1>1. PICK r \in Rooms : people' = MovedTo(p, r)
  BY DEF Teleport
<1>2. Quiet /\ fighting[p] # NULL /\ UNCHANGED <<order, fighting, position, wounded, init>>
  BY DEF Teleport
<1>3. Present(p)
  BY <1>2, FightersLive, Presence DEF IInv
<1>4. QED
  BY <1>1, <1>2, <1>3, MovingKeeps

(* Changes of a position that is not POS_FIGHTING, in one's place.         *)
LEMMA PosingKeeps ==
  ASSUME IInv, Quiet, NEW c \in Chars, Present(c), NEW to \in Positions \ {"dead", "fighting"},
         position' = [position EXCEPT ![c] = to], wounded' \subseteq wounded,
         UNCHANGED <<order, fighting, people, init>>
  PROVE  IInv'
<1>1. WorldInv
  BY DEF IInv
<1>2. Placed(people') /\ Where(people, c) # NULL
  BY <1>1, WorldTypes, Presence
<1>3. WorldInv'
  BY <1>1, <1>2, PoseKeepsWorld
<1>4. QED
  BY <1>3, QuietKeeps

LEMMA SleepKeeps ==
  ASSUME IInv, NEW c \in Chars, Sleep(c)
  PROVE  IInv'
  BY PosingKeeps DEF Sleep, Positions

LEMMA StandKeeps ==
  ASSUME IInv, NEW c \in Chars, Stand(c)
  PROVE  IInv'
  BY PosingKeeps DEF Stand, Positions

LEMMA RecoverKeeps ==
  ASSUME IInv, NEW p \in Chars, Recover(p)
  PROVE  IInv'
<1>1. /\ WorldInv /\ Quiet /\ Present(p) /\ wounded' \subseteq wounded
      /\ position' = [position EXCEPT ![p] = IF position[p] = "down" THEN "standing"
                                              ELSE position[p]]
      /\ UNCHANGED <<order, fighting, people, init>>
  BY DEF IInv, Recover
<1>2. position \in [Chars -> Positions] /\ position[p] # "dead"
  BY <1>1, WorldTypes, FightersLive, Presence
<1>3. CASE position[p] = "down"
  BY <1>1, <1>2, <1>3, PosingKeeps DEF Positions
<1>4. CASE position[p] # "down"
  <2>1. position' = position
    BY <1>1, <1>2, <1>4
  <2>2. wounded' \subseteq Players /\ init' \in [Chars -> Nat] /\ Placed(people')
    BY <1>1, WorldTypes
  <2>3. \A d \in Chars : /\ Where(people, d) # NULL => Where(people', d) # NULL
                         /\ position'[d] = "dead" <=> Where(people', d) = NULL
                         /\ position'[d] = "fighting" => position[d] = "fighting"
    BY <1>1, <2>1, FightersLive
  <2>4. WorldInv'
    BY <1>1, <1>2, <2>1, <2>2, <2>3, PeaceKeepsWorld
  <2>5. QED
    BY <1>1, <2>4, QuietKeeps
<1>5. QED
  BY <1>3, <1>4

LEMMA AppearKeeps ==
  ASSUME IInv, NEW c \in Chars, Appear(c)
  PROVE  IInv'
<1>1. PICK r \in Rooms : people' = MovedTo(c, r)
  BY DEF Appear
<1>2. /\ WorldInv /\ Quiet /\ ~Present(c)
      /\ \E p \in {"down", "sleeping", "resting", "standing"} :
           position' = [position EXCEPT ![c] = p]
      /\ init' = [init EXCEPT ![c] = 0]
      /\ UNCHANGED <<order, fighting, wounded>>
  BY DEF IInv, Appear
<1>3. /\ Placed(people')
      /\ \A d : Where(people', d) = IF d = c THEN r ELSE Where(people, d)
  BY <1>1, <1>2, Walking, WorldTypes
<1>4. r # NULL
  BY CombatAssumption
<1>5. /\ position \in [Chars -> Positions] /\ wounded' \subseteq Players
      /\ init' \in [Chars -> Nat]
      /\ position'[c] \in {"down", "sleeping", "resting", "standing"}
      /\ \A d \in Chars \ {c} : position'[d] = position[d]
      /\ position' \in [Chars -> Positions]
  BY <1>2, WorldTypes DEF Positions
<1>6. \A d \in Chars : /\ Where(people, d) # NULL => Where(people', d) # NULL
                       /\ position'[d] = "dead" <=> Where(people', d) = NULL
                       /\ position'[d] = "fighting" => position[d] = "fighting"
  BY <1>2, <1>3, <1>4, <1>5, FightersLive
<1>7. WorldInv'
  BY <1>2, <1>3, <1>5, <1>6, PeaceKeepsWorld
<1>8. QED
  BY <1>2, <1>7, QuietKeeps

-----------------------------------------------------------------------------
(* In the beginning everybody stands in one room.                          *)
LEMMA EverybodyIn ==
  ASSUME NEW s \in [1 .. Cardinality(Chars) -> Chars],
         \A i, j \in DOMAIN s : s[i] = s[j] => i = j
  PROVE  Listed(s) /\ \A c \in Chars : In(s, c)
<1> DEFINE n == Cardinality(Chars)
           N == 1 .. n
<1>1. IsFiniteSet(Chars) /\ n \in Nat
  BY CombatAssumption, FS_CardinalityType
<1>2. IsFiniteSet(N) /\ Cardinality(N) = n
  <2>1. Cardinality(N) = IF 1 <= n THEN n - 1 + 1 ELSE 0
    BY <1>1, FS_Interval
  <2>2. IsFiniteSet(N)
    BY <1>1, FS_Interval
  <2>3. QED
    BY <1>1, <2>1, <2>2
<1>3. s \in Seq(Chars) /\ Len(s) = n
  <2>1. Cardinality(Chars) \in Nat
    BY <1>1
  <2>2. QED
    BY <2>1
<1>4. s \in Injection(N, Chars)
  BY DEF Injection, IsInjective
<1>5. s \in Surjection(N, Chars)
  BY <1>1, <1>2, <1>4, FS_Injection
<1>6. \A c \in Chars : \E i \in N : s[i] = c
  BY <1>5 DEF Surjection
<1>7. QED
  BY <1>1, <1>3, <1>6 DEF Listed, In

LEMMA Starts == Init => IInv
<1> SUFFICES ASSUME Init PROVE IInv
  OBVIOUS
<1>1. PICK r \in Rooms, s \in [1 .. Cardinality(Chars) -> Chars] :
        /\ \A i, j \in DOMAIN s : s[i] = s[j] => i = j
        /\ people = [q \in Rooms |-> IF q = r THEN s ELSE << >>]
  BY DEF Init
<1>2. /\ order = << >> /\ fighting = [c \in Chars |-> NULL]
      /\ position = [c \in Chars |-> "standing"] /\ wounded = {} /\ init = [c \in Chars |-> 0]
      /\ pc = "idle" /\ ch = NULL /\ ch_next = NULL /\ victim = NULL /\ rch = NULL
      /\ att = NULL /\ vic = NULL /\ stage = 0 /\ ret = "idle" /\ blow = << >>
      /\ served = NobodyServed /\ slain = {}
  BY DEF Init, FightInit
<1>3. Listed(s) /\ s \in Seq(Chars) /\ \A c \in Chars : In(s, c)
  BY <1>1, EverybodyIn DEF Listed
<1>4. Placed(people)
  <2>1. people \in [Rooms -> Seq(Chars)]
    BY <1>1, <1>3
  <2>2. \A q \in Rooms : Listed(people[q])
    BY <1>1, <1>3 DEF Listed
  <2>3. \A p, q \in Rooms : \A c : In(people[p], c) /\ In(people[q], c) => p = q
    BY <1>1 DEF In
  <2>4. QED
    BY <2>1, <2>2, <2>3, PlacedIs
<1>5. \A c \in Chars : Present(c)
  <2>1. \A c \in Chars : In(people[r], c)
    BY <1>1, <1>3
  <2>2. \A c \in Chars : Where(people, c) = r
    BY <1>4, <2>1, Rooming
  <2>3. QED
    BY <2>2, Presence, CombatAssumption
<1>6. OrderInv
  BY <1>2 DEF OrderInv, Listed, In
<1>7. PlaceInv
  BY <1>2, <1>4, <1>5 DEF PlaceInv, Positions
<1>8. LinkInv
  BY <1>2 DEF LinkInv, FightLinksLive
<1>9. ThreadInv
  BY <1>2 DEF ThreadInv, InRound
<1>10. SlainInv
  BY <1>2 DEF SlainInv, TheSlainAreOutOfIt
<1>11. TurnInv
  BY <1>2, NobodyIs DEF TurnInv
<1>12. QED
  BY <1>6, <1>7, <1>8, <1>9, <1>10, <1>11 DEF IInv, WorldInv

LEMMA RoundKeeps == IInv /\ Round => IInv'
<1> SUFFICES ASSUME IInv, Round PROVE IInv'
  OBVIOUS
<1>1. CASE ViolenceUpdate \/ Turn \/ TurnTaken \/ Assist \/ AssistDone \/ RoundOver
  BY <1>1, ViolenceKeeps, TurnKeeps, TurnTakenKeeps, AssistKeeps, AssistDoneKeeps, RoundOverKeeps
<1>2. CASE (\E n \in 1 .. 5 : Swing(n)) \/ MultiHitReturn \/ MultiHitAgain
  BY <1>2, SwingKeeps, ReturnKeeps, AgainKeeps
<1>3. CASE BlowAbsorbed \/ BlowRouses \/ BlowWounds \/ BlowKills \/ BlowDrivesOff
  BY <1>3, AbsorbedKeeps, RousesKeeps, WoundsKeeps, KillsKeeps, DrivesKeeps
<1>4. QED
  BY <1>1, <1>2, <1>3 DEF Round

LEMMA CommandsKeep == IInv /\ Commands => IInv'
<1> SUFFICES ASSUME IInv, Commands PROVE IInv'
  OBVIOUS
<1>1. PICK c \in Chars :
        \/ \E v \in Chars : Attack(c, v) \/ Rescue(c, v)
        \/ Flee(c) \/ Walk(c) \/ Sleep(c) \/ Stand(c)
        \/ Teleport(c) \/ Recover(c) \/ Wither(c) \/ BleedToDeath(c)
        \/ Poison(c)
        \/ Extract(c) \/ Appear(c)
  BY DEF Commands
<1>2. CASE \E v \in Chars : Attack(c, v) \/ Rescue(c, v)
  BY <1>2, AttackKeeps, RescueKeeps
<1>3. CASE Flee(c) \/ Walk(c) \/ Sleep(c) \/ Stand(c) \/ Teleport(c)
  BY <1>3, FleeKeeps, WalkKeeps, SleepKeeps, StandKeeps, TeleportKeeps
<1>4. CASE Recover(c) \/ Wither(c) \/ BleedToDeath(c) \/ Poison(c) \/ Extract(c) \/ Appear(c)
  BY <1>4, RecoverKeeps, WitherKeeps, BleedKeeps, PoisonKeeps, ExtractKeeps, AppearKeeps
<1>5. QED
  BY <1>1, <1>2, <1>3, <1>4

LEMMA IdlingKeeps == IInv /\ UNCHANGED vars => IInv'
<1> SUFFICES ASSUME IInv, UNCHANGED vars PROVE IInv'
  OBVIOUS
<1>1. /\ UNCHANGED world
      /\ UNCHANGED <<pc, ch, ch_next, victim, rch, att, vic, stage, ret, blow, served, slain>>
  BY DEF vars, walk, hit, history
<1>2. WorldInv' /\ KeepsOrder({}) /\ people' = people /\ order' = order /\ init' = init
  BY <1>1, WorldStays DEF IInv, world
<1>3. \A c : (RoomOf(c) = RoomOf(c)') /\ (Present(c) <=> Present(c)')
  BY <1>2 DEF Present, RoomOf
<1>4. ThreadInv'
  <2>1. blow' = blow
    BY <1>1
  <2>2. pc = "blow" => Present(blow[1])' /\ Present(blow[2])'
    BY <1>2, <2>1 DEF IInv, ThreadInv, Present, RoomOf
  <2>3. QED
    BY <1>1, <2>1, <2>2 DEF IInv, ThreadInv, InRound
<1>5. SlainInv'
  BY <1>1, <1>2 DEF IInv, SlainInv, TheSlainAreOutOfIt, RoomOf
<1>6. TurnInv'
  BY <1>1, <1>2, NobodyIs DEF IInv, TurnInv, InRound, Front, OwnTurn
<1>7. QED
  BY <1>2, <1>4, <1>5, <1>6 DEF IInv

-----------------------------------------------------------------------------
(* The inductive invariant: the fight list holds exactly those who fight,  *)
(* the room lists partition the living, and what violence_update, the room *)
(* loop and multi_hit remember is still good for what they do with it.     *)
THEOREM Invariant == Spec => []IInv
<1>1. IInv /\ [Next]_vars => IInv'
  BY RoundKeeps, CommandsKeep, IdlingKeeps DEF Next
<1>2. QED
  BY <1>1, Starts, PTL DEF Spec

(* Every list, pointer and counter of a fight keeps its type.              *)
THEOREM TypeCorrect == Spec => []TypeOK
<1>1. IInv => TypeOK
  BY WorldTypes DEF IInv, ThreadInv, SlainInv, TurnInv, TypeOK, Placed
<1>2. QED
  BY <1>1, Invariant, PTL

(* No fighting pointer outlives the character it points to: every path     *)
(* that takes somebody out of the game (raw_kill, extract_char) first has  *)
(* everybody let go of it, in the middle of a round as well.               *)
THEOREM LinksAlwaysLive == Spec => []FightLinksLive
<1>1. IInv => FightLinksLive
  BY DEF IInv, WorldInv, LinkInv
<1>2. QED
  BY <1>1, Invariant, PTL

(* At the game loop, whoever is in POS_FIGHTING has an opponent, so        *)
(* process_output does not follow a null pointer.                          *)
THEOREM FightersHaveOpponents == Spec => []FightingHasOpponent
<1>1. IInv => FightingHasOpponent
  BY DEF IInv, WorldInv, LinkInv, FightingHasOpponent
<1>2. QED
  BY <1>1, Invariant, PTL

(* Whoever is killed in a group of attacks, or in a round, neither strikes *)
(* nor is struck until it is over.                                         *)
THEOREM SlainStayOut == Spec => []TheSlainAreOutOfIt
<1>1. IInv => TheSlainAreOutOfIt
  BY DEF IInv, SlainInv
<1>2. QED
  BY <1>1, Invariant, PTL

(* violence_update gives nobody its attacks a second time in a round       *)
(* unless it has left the list and joined it at the end twice since.       *)
THEOREM TurnsAreSpaced == Spec => NoTurnTooSoon
<1>1. IInv /\ [Next]_vars => [\A c \in Chars : TakesTurn(c) => served[c] \in {0, 3}]_vars
  <2> SUFFICES ASSUME IInv, Next, NEW c \in Chars, pc = "head", pc' = "swing", ch = c
               PROVE  served[c] \in {0, 3}
    BY DEF TakesTurn
  <2>1. Turn
    <3>1. ~Commands
      BY DEF Commands, Attack, Rescue, Flee, Walk, Sleep, Stand, Teleport, Recover, Wither,
             BleedToDeath, Poison, Extract, Appear, Quiet, Between
    <3>2. QED
      BY <3>1 DEF Next, Round, ViolenceUpdate, TurnTaken, Assist, AssistDone, RoundOver, Swing,
                  MultiHitReturn, MultiHitAgain, MultiHitOver, BlowAbsorbed, BlowRouses,
                  BlowWounds, BlowKills, BlowDrivesOff, BlowDone
  <2>2. fighting[c] # NULL /\ init[c] - 1 <= 0
    BY <2>1 DEF Turn, Awaits
  <2>3. QED
    BY <2>2, Met
<1>2. QED
  BY <1>1, Invariant, PTL DEF Spec, NoTurnTooSoon
=============================================================================
