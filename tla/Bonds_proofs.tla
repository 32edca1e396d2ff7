---------------------------- MODULE Bonds_proofs ----------------------------
(***************************************************************************)
(* Proofs about Bonds for any finite set of structures, any players and    *)
(* any limit on followers: the bonds between characters are well typed,    *)
(* mutual and among those in the game; groups follow their leaders;        *)
(* servants are counted and do not outlive their lords; a body that may    *)
(* not act waits for its own spirit; charm goes in circles only by chants  *)
(* and by charm that came back from a player's file.                       *)
(*                                                                         *)
(* The inductive invariant IInv has one part for each kind of bond.  Apart *)
(* from extract_char, the operations on one kind of bond leave the others  *)
(* alone, so each part is proved by itself: first for the operations that  *)
(* only bring somebody in or leave the part's variables as they are, then  *)
(* for the few that change them, then for extract_char.                    *)
(***************************************************************************)
EXTENDS Bonds, FiniteSetTheorems, FunctionTheorems, WellFoundedInduction,
        NaturalsInduction, TLAPS

Somebody == InGame \cup {None}

(* Fellowship: whom one follows is in the game, and a group follows.       *)
FellowInv ==
  \A c \in Chars :
    /\ master[c] \in Somebody /\ leader[c] \in Somebody
    /\ leader[c] \in {None, c, master[c]}
    /\ who[c] = Free => master[c] = None /\ leader[c] = None /\ charm[c] = "none"

(* Only players have familiars and only mobiles are: what extract_char     *)
(* relies on when it asks for pcdata, and when it takes the familiar along. *)
SpiritInv ==
  \A c \in Chars :
    /\ familiar[c] # None => /\ IsPC(c) /\ familiar[c] \in NPCs
                             /\ wizard[familiar[c]] = c
    /\ wizard[c] # None => IsNPC(c) /\ wizard[c] \in Chars /\ familiar[wizard[c]] = c
    /\ no_action[c] => IsPC(c)
    /\ no_action[c] /\ familiar[c] # None => kind[familiar[c]] = "spirit"

RideInv == RidingMutual /\ \A c \in Chars : mount[c] \in Somebody
HoldInv == HoldingMutual /\ \A c \in Chars : embrace[c] \in Somebody

(* No two structures are the same player; servants are mobiles with a lord *)
(* in the game, who is charged with them.                                  *)
LordInv ==
  /\ \A c, d \in PCs : who[c] = who[d] => c = d
  /\ \A m \in Chars : lord[m] # None => IsNPC(m) /\ \E c \in PCs : who[c] = lord[m]
  /\ \A c \in PCs \ cleared : Cardinality(Servants(c)) <= followers[c]

IInv == TypeOK /\ FellowInv /\ SpiritInv /\ RideInv /\ HoldInv /\ LordInv

(* How the population changes, other than by extract_char: whoever is in    *)
(* the game stays as it is, and it may be joined by others.                *)
Stays == \A c \in InGame : who'[c] = who[c] /\ kind'[c] = kind[c]
Goes == \E c \in Chars : \E awake \in SUBSET Chars : ExtractChar(c, awake)

-----------------------------------------------------------------------------
LEMMA TypeInit == Init => TypeOK
  BY ConstantsDiffer DEF Init, TypeOK

LEMMA FileType ==
  ASSUME TypeOK, NEW c \in Chars, who[c] \in Players
  PROVE  SavedWith(c) \subseteq Players \X Bits
<1>1. BitsOf(c) \subseteq Bits
  BY DEF BitsOf, Bits
<1>2. QED
  BY <1>1 DEF SavedWith, TypeOK

LEMMA ExtractType ==
  ASSUME TypeOK, Goes, saved' \subseteq Players \X Bits
  PROVE  TypeOK'
<1> USE ConstantsDiffer
<1> PICK c \in Chars : \E awake \in SUBSET Chars : ExtractChar(c, awake)
  BY DEF Goes
<1> PICK awake \in SUBSET Chars : ExtractChar(c, awake)
  OBVIOUS
<1> DEFINE gone == Departing(c)
           Lost(s) == IF IsPC(s) THEN Servants(s) \cap gone ELSE {}
<1>1. \A s \in Chars : Cardinality(Lost(s)) \in Nat
  <2> TAKE s \in Chars
  <2>1. Lost(s) \subseteq Chars
    BY DEF Servants, NPCs
  <2>2. QED
    BY <2>1, FS_Subset, FS_CardinalityType
<1>2. followers' \in [Chars -> 0..MaxFollowers]
  <2> DEFINE Count(s) == IF s \in Chars \ gone /\ followers[s] > Cardinality(Lost(s))
                         THEN followers[s] - Cardinality(Lost(s)) ELSE 0
  <2>1. followers' = [s \in Chars |-> Count(s)]
    BY DEF ExtractChar
  <2> HIDE DEF Lost, gone
  <2>2. \A s \in Chars : Count(s) \in 0..MaxFollowers
    BY <1>1 DEF TypeOK
  <2> HIDE DEF Count
  <2>3. QED
    BY <2>1, <2>2
<1>3. /\ who' \in [Chars -> Players \cup {Mob, Free}]
      /\ kind' \in [Chars -> {"plain", "beast", "spirit", "eye"}]
      /\ master' \in [Chars -> Chars \cup {None}]
      /\ leader' \in [Chars -> Chars \cup {None}]
  BY DEF ExtractChar, TypeOK
<1>4. /\ charm' \in [Chars -> {"none", "person", "chant", "pet", "file"}]
      /\ lord' \in [Chars -> Players \cup {None}]
      /\ cleared' \subseteq Chars
      /\ topics' \in Topics
  BY DEF ExtractChar, TypeOK
<1>5. /\ familiar' \in [Chars -> Chars \cup {None}]
      /\ wizard' \in [Chars -> Chars \cup {None}]
      /\ no_action' \in [Chars -> BOOLEAN]
  BY DEF ExtractChar, TypeOK
<1>6. /\ mount' \in [Chars -> Chars \cup {None}]
      /\ mounted' \in [Chars -> {"foot", "riding", "mount"}]
      /\ embrace' \in [Chars -> Chars \cup {None}]
      /\ embraced' \in [Chars -> {"none", "embracing", "embraced"}]
  BY DEF ExtractChar, TypeOK
<1>7. QED
  BY <1>2, <1>3, <1>4, <1>5, <1>6 DEF TypeOK

LEMMA TypeNext == TypeOK /\ [Next]_vars => TypeOK'
<1> SUFFICES ASSUME TypeOK, [Next]_vars PROVE TypeOK'
  OBVIOUS
<1> USE ConstantsDiffer DEF TypeOK, fellowship, service, spirits, riding, holding, presence
<1>1. CASE Arrivals
  <2>1. ASSUME NEW c \in Chars, NEW k \in {"plain", "beast"}, Appear(c, k) PROVE TypeOK'
    BY <2>1 DEF Appear, Allocate
  <2>2. ASSUME NEW c \in Chars, NEW p \in Players, Login(c, p) PROVE TypeOK'
    BY <2>2 DEF Login, Allocate
  <2>3. QED
    BY <1>1, <2>1, <2>2 DEF Arrivals
<1>2. CASE Departures
  <2> PICK c \in Chars : Quit(c) \/ MobileGoes(c) \/ PlayerDies(c) \/ Save(c)
    BY <1>2 DEF Departures
  <2>1. CASE Quit(c)
    <3>1. saved' \subseteq Players \X Bits
      BY <2>1, FileType DEF Quit, IsPC
    <3>2. Goes
      BY <2>1 DEF Quit, Goes
    <3>3. QED
      BY <3>1, <3>2, ExtractType
  <2>2. CASE MobileGoes(c)
    BY <2>2, ExtractType DEF MobileGoes, Goes
  <2>3. CASE PlayerDies(c)
    BY <2>3 DEF PlayerDies, Parted
  <2>4. CASE Save(c)
    BY <2>4, FileType DEF Save, IsPC
  <2>5. QED
    BY <2>1, <2>2, <2>3, <2>4
<1>3. CASE Following
  BY <1>3 DEF Following, FollowSelf, StopFollower, Follow, TakenInBy, Group, GroupAll
<1>4. CASE Charming
  BY <1>4 DEF Charming, CharmPerson, Chant, Strike, BuyPet, CharmFades, TakenInBy, Allocate
<1>5. CASE Serving
  <2> PICK c \in Chars : \/ ClearStats(c)
                         \/ \E v \in Chars : Entrance(c, v)
                         \/ \E m \in Chars, k \in {"plain", "beast"}, bind \in BOOLEAN : Summon(c, m, k, bind)
    BY <1>5 DEF Serving
  <2>1. CASE ClearStats(c)
    BY <2>1 DEF ClearStats
  <2>2. ASSUME NEW v \in Chars, Entrance(c, v) PROVE TypeOK'
    BY <2>2 DEF Entrance, TakenInBy, MaySummon, Charged, SwornTo, IsPC
  <2>3. ASSUME NEW m \in Chars, NEW k \in {"plain", "beast"}, NEW bind \in BOOLEAN, Summon(c, m, k, bind)
        PROVE  TypeOK'
    BY <2>3 DEF Summon, TakenInBy, MaySummon, Charged, SwornTo, IsPC, Allocate
  <2>4. QED
    BY <2>1, <2>2, <2>3
<1>6. CASE Haunting
  <2> PICK c \in Chars : \/ Stir(c) \/ Recall(c) \/ CloseEye(c)
                         \/ \E m \in Chars : TakeOver(c, m) \/ Project(c, m) \/ TurnEye(c, m)
                         \/ \E m \in Chars, k \in {"plain", "eye"} : MakeFamiliar(c, m, k)
                         \/ \E m, v \in Chars : SendEye(c, m, v)
    BY <1>6 DEF Haunting
  <2>1. CASE Stir(c)
    BY <2>1 DEF Stir
  <2>2. CASE Recall(c) \/ CloseEye(c)
    BY <2>2, ExtractType DEF Recall, CloseEye, Goes
  <2>3. ASSUME NEW m \in Chars, TakeOver(c, m) \/ Project(c, m) \/ TurnEye(c, m) PROVE TypeOK'
    <3>1. CASE TakeOver(c, m)
      BY <3>1 DEF TakeOver, Linked
    <3>2. CASE Project(c, m)
      BY <3>2 DEF Project, Linked, Allocate, Charged, SwornTo, IsPC
    <3>3. CASE TurnEye(c, m)
      BY <3>3 DEF TurnEye, TakenInBy, InGame
    <3>4. QED
      BY <2>3, <3>1, <3>2, <3>3
  <2>4. ASSUME NEW m \in Chars, NEW k \in {"plain", "eye"}, MakeFamiliar(c, m, k) PROVE TypeOK'
    BY <2>4 DEF MakeFamiliar, Linked, Allocate
  <2>5. ASSUME NEW m \in Chars, NEW v \in Chars, SendEye(c, m, v) PROVE TypeOK'
    BY <2>5 DEF SendEye, MaySummon, Linked, TakenInBy, Allocate, Charged, SwornTo, IsPC
  <2>6. QED
    BY <2>1, <2>2, <2>3, <2>4, <2>5
<1>7. CASE Riding
  BY <1>7 DEF Riding, Dismount, Parted, Mount
<1>8. CASE Holding
  BY <1>8 DEF Holding, Release, LetGo, Embrace
<1>9. CASE UNCHANGED vars
  BY <1>9 DEF vars
<1>10. QED
  BY <1>1, <1>2, <1>3, <1>4, <1>5, <1>6, <1>7, <1>8, <1>9 DEF Next

-----------------------------------------------------------------------------
(* Each part of the invariant under the operations that leave it alone, and *)
(* under those of its own.                                                  *)

LEMMA Joining ==
  ASSUME TypeOK, NEW c \in Chars, NEW w, NEW k, Allocate(c, w, k), w # Free
  PROVE  Stays /\ who[c] = Free /\ who'[c] = w /\ kind'[c] = k
                /\ \A d \in Chars \ {c} : who'[d] = who[d]
  BY DEF Allocate, Stays, InGame, TypeOK

LEMMA Staying == ASSUME UNCHANGED presence PROVE Stays
  BY DEF presence, Stays

LEMMA FellowSame ==
  ASSUME TypeOK, FellowInv, Stays, UNCHANGED fellowship
  PROVE  FellowInv'
  BY ConstantsDiffer DEF TypeOK, FellowInv, Stays, fellowship, Somebody, InGame

LEMMA FellowTaken ==
  ASSUME TypeOK, FellowInv, Stays, NEW c \in Chars, NEW m \in Chars, NEW how,
         TakenInBy(c, m, how), who'[c] # Free, who'[m] # Free
  PROVE  FellowInv'
  BY ConstantsDiffer DEF TypeOK, FellowInv, Stays, TakenInBy, Somebody, InGame

LEMMA SpiritSame ==
  ASSUME TypeOK, SpiritInv, Stays, UNCHANGED spirits
  PROVE  SpiritInv'
  BY ConstantsDiffer DEF TypeOK, SpiritInv, Stays, spirits, NPCs, IsNPC, IsPC, InGame

LEMMA SpiritLinked ==
  ASSUME TypeOK, SpiritInv, Stays, NEW c \in Chars, NEW m \in Chars,
         IsPC(c), familiar[c] = None, wizard[m] = None, who'[m] = Mob, Linked(c, m),
         \/ UNCHANGED no_action /\ ~no_action[c]
         \/ no_action' = [no_action EXCEPT ![c] = TRUE] /\ kind'[m] = "spirit"
  PROVE  SpiritInv'
<1> USE ConstantsDiffer DEF TypeOK
<1>1. who'[c] = who[c] /\ IsPC(c)' /\ c # m
  BY DEF Stays, InGame, IsPC
<1>2. ASSUME NEW d \in Chars, familiar'[d] # None
      PROVE  IsPC(d)' /\ familiar'[d] \in NPCs' /\ wizard'[familiar'[d]] = d
  <2>1. CASE d = c
    BY <1>1, <2>1 DEF Linked, NPCs, IsNPC
  <2>2. CASE d # c
    BY <1>2, <2>2 DEF Linked, SpiritInv, Stays, InGame, IsPC, NPCs, IsNPC
  <2>3. QED
    BY <2>1, <2>2
<1>3. ASSUME NEW d \in Chars, wizard'[d] # None
      PROVE  IsNPC(d)' /\ wizard'[d] \in Chars /\ familiar'[wizard'[d]] = d
  BY <1>3, <1>1 DEF Linked, SpiritInv, Stays, InGame, IsPC, NPCs, IsNPC
<1>4. ASSUME NEW d \in Chars, no_action'[d]
      PROVE  IsPC(d)' /\ (familiar'[d] # None => kind'[familiar'[d]] = "spirit")
  <2>1. CASE d = c
    BY <1>1, <1>4, <2>1 DEF Linked
  <2>2. CASE d # c
    BY <1>4, <2>2 DEF Linked, SpiritInv, Stays, InGame, IsPC, NPCs, IsNPC
  <2>3. QED
    BY <2>1, <2>2
<1>5. QED
  BY <1>2, <1>3, <1>4 DEF SpiritInv

LEMMA RideSame ==
  ASSUME TypeOK, RideInv, Stays, UNCHANGED riding
  PROVE  RideInv'
  BY ConstantsDiffer DEF TypeOK, RideInv, RidingMutual, Stays, riding, Somebody, InGame

LEMMA RideParted ==
  ASSUME TypeOK, RideInv, Stays, NEW c \in Chars, mount[c] # None, Parted(c)
  PROVE  RideInv'
<1> USE ConstantsDiffer DEF TypeOK
<1> DEFINE m == mount[c]
<1>1. /\ m \in Chars /\ mount[m] = c /\ c # m
      /\ mount' = [mount EXCEPT ![c] = None, ![m] = None]
      /\ mounted' = [mounted EXCEPT ![c] = "foot", ![m] = "foot"]
  <2>1. m \in Chars /\ mount[m] = c /\ (mounted[c] = "riding" <=> mounted[m] = "mount")
    <3>1. m \in Chars
      OBVIOUS
    <3>2. mount[mount[c]] = c /\ (mounted[c] = "riding" <=> mounted[mount[c]] = "mount")
      BY Zenon DEF RideInv, RidingMutual
    <3>3. QED
      BY <3>1, <3>2, Zenon
  <2>2. c # m
    <3>1. SUFFICES ASSUME c = m PROVE FALSE
      OBVIOUS
    <3>2. mounted[c] # "foot"
      BY Zenon DEF RideInv, RidingMutual
    <3>3. QED
      BY <2>1, <3>1, <3>2
  <2>3. QED
    BY <2>1, <2>2 DEF Parted
<1> HIDE DEF m
<1>2. ASSUME NEW d \in Chars
      PROVE  /\ mount'[d] = None <=> mounted'[d] = "foot"
             /\ mount'[d] \in Somebody'
             /\ mount'[d] # None =>
                  /\ mount'[mount'[d]] = d
                  /\ (mounted'[d] = "riding" <=> mounted'[mount'[d]] = "mount")
  <2>1. CASE d \in {c, m}
    BY <1>1, <2>1 DEF Somebody
  <2>2. CASE d \notin {c, m}
    <3>1. mount'[d] = mount[d] /\ mounted'[d] = mounted[d] /\ mount[d] \notin {c, m}
      BY <1>1, <2>2 DEF RideInv, RidingMutual
    <3>2. mount[d] # None => mount'[mount[d]] = mount[mount[d]] /\ mounted'[mount[d]] = mounted[mount[d]]
      BY <1>1, <3>1
    <3>3. mount[d] \in Somebody'
      BY DEF RideInv, Somebody, InGame, Stays
    <3>4. /\ mount[d] = None <=> mounted[d] = "foot"
          /\ mount[d] # None => mount[mount[d]] = d /\ (mounted[d] = "riding" <=> mounted[mount[d]] = "mount")
      BY Zenon DEF RideInv, RidingMutual
    <3>5. QED
      BY <3>1, <3>2, <3>3, <3>4
  <2>3. QED
    BY <2>1, <2>2
<1>3. QED
  BY <1>2 DEF RideInv, RidingMutual

LEMMA HoldSame ==
  ASSUME TypeOK, HoldInv, Stays, UNCHANGED holding
  PROVE  HoldInv'
  BY ConstantsDiffer DEF TypeOK, HoldInv, HoldingMutual, Stays, holding, Somebody, InGame

LEMMA ServantsFinite ==
  ASSUME NEW c
  PROVE  IsFiniteSet(Servants(c)) /\ Cardinality(Servants(c)) \in Nat
<1>1. Servants(c) \subseteq Chars
  BY DEF Servants, NPCs
<1>2. QED
  BY <1>1, ConstantsDiffer, FS_Subset, FS_CardinalityType

LEMMA LordSame ==
  ASSUME TypeOK, LordInv, UNCHANGED presence, UNCHANGED <<lord, followers>>, cleared \subseteq cleared'
  PROVE  LordInv'
<1>1. PCs' = PCs /\ \A c \in Chars : Servants(c)' = Servants(c)
  BY DEF presence, PCs, IsPC, Servants, NPCs, IsNPC
<1>2. QED
  BY <1>1 DEF LordInv, presence, PCs, IsPC, IsNPC

LEMMA LordJoined ==
  ASSUME TypeOK, LordInv, NEW c \in Chars, NEW w \in Players \cup {Mob}, NEW k, Allocate(c, w, k),
         \A d \in Chars : who[d] # w \/ w = Mob, UNCHANGED service
  PROVE  LordInv'
<1> USE ConstantsDiffer DEF TypeOK, service
<1>1. who[c] = Free /\ who' = [who EXCEPT ![c] = w] /\ lord[c] = None
  BY DEF Allocate, LordInv, IsNPC
<1>2. \A m \in Chars : lord[m] # None => who[m] = Mob /\ who'[m] = Mob
  BY <1>1 DEF LordInv, IsNPC
<1>3. PCs \subseteq PCs' /\ \A d \in PCs : who'[d] = who[d]
  BY <1>1 DEF PCs, IsPC
<1>4. \A d, e \in PCs' : who'[d] = who'[e] => d = e
  BY <1>1 DEF PCs, IsPC, LordInv
<1>5. \A m \in Chars : lord[m] # None => \E d \in PCs' : who'[d] = lord[m]
  BY <1>3 DEF LordInv
<1>6. ASSUME NEW d \in PCs' \ cleared' PROVE Cardinality(Servants(d)') <= followers'[d]
  <2>1. CASE d = c
    <3>1. w \in Players /\ \A m \in Chars : lord[m] # w
      BY <1>1, <1>6, <2>1 DEF PCs, IsPC, LordInv
    <3>2. Servants(d)' = {}
      BY <1>1, <2>1, <3>1 DEF Servants, NPCs
    <3>3. QED
      BY <3>2, FS_EmptySet DEF PCs
  <2>2. CASE d # c
    <3>1. d \in PCs \ cleared /\ who'[d] = who[d] /\ who[d] # None
      BY <1>1, <1>6, <2>2 DEF PCs, IsPC
    <3>2. Servants(d)' = Servants(d)
      BY <1>2, <3>1 DEF Servants, NPCs, IsNPC
    <3>3. QED
      BY <3>1, <3>2 DEF LordInv
  <2>3. QED
    BY <2>1, <2>2
<1>7. QED
  BY <1>2, <1>4, <1>5, <1>6 DEF LordInv, IsNPC

LEMMA LordSworn ==
  ASSUME TypeOK, LordInv, NEW c \in Chars, NEW m \in Chars, IsPC(c), ~IsPC(m),
         who'[m] = Mob, \A d \in Chars \ {m} : who'[d] = who[d],
         Charged(c), SwornTo(m, c), UNCHANGED cleared
  PROVE  LordInv'
<1> USE ConstantsDiffer DEF TypeOK
<1>1. PCs' = PCs /\ (\A d \in PCs : who'[d] = who[d]) /\ c \in PCs
  BY DEF PCs, IsPC
<1>2. \A d, e \in PCs' : who'[d] = who'[e] => d = e
  BY <1>1 DEF LordInv
<1>3. ASSUME NEW n \in Chars, lord'[n] # None
      PROVE  IsNPC(n)' /\ \E d \in PCs' : who'[d] = lord'[n]
  BY <1>1, <1>3 DEF SwornTo, LordInv, IsNPC, IsPC
<1>4. ASSUME NEW d \in PCs' \ cleared' PROVE Cardinality(Servants(d)') <= followers'[d]
  <2>1. d \in PCs \ cleared /\ d \in Chars /\ Cardinality(Servants(d)) <= followers[d]
    BY <1>1, <1>4 DEF LordInv, PCs
  <2>2. CASE d = c
    <3>1. Servants(d)' \subseteq Servants(d) \cup {m}
      BY <1>1, <2>2 DEF Servants, NPCs, IsNPC, SwornTo
    <3>2. /\ IsFiniteSet(Servants(d) \cup {m})
          /\ Cardinality(Servants(d) \cup {m}) \in {Cardinality(Servants(d)), Cardinality(Servants(d)) + 1}
      BY ServantsFinite, FS_AddElement
    <3>3. Cardinality(Servants(d)') <= Cardinality(Servants(d) \cup {m})
      BY <3>1, <3>2, FS_Subset
    <3>4. followers'[d] = followers[d] + 1 /\ followers[d] \in Nat
      BY <2>1, <2>2 DEF Charged
    <3>5. Cardinality(Servants(d)) \in Nat /\ Cardinality(Servants(d)') \in Nat
      BY <3>1, <3>2, ServantsFinite, FS_Subset, FS_CardinalityType
    <3>6. QED
      BY <2>1, <3>2, <3>3, <3>4, <3>5
  <2>3. CASE d # c
    <3>1. who[d] # who[c] /\ followers'[d] = followers[d]
      BY <1>1, <2>1, <2>3 DEF LordInv, Charged
    <3>2. Servants(d)' \subseteq Servants(d)
      BY <1>1, <2>1, <3>1 DEF Servants, NPCs, IsNPC, SwornTo
    <3>3. /\ Cardinality(Servants(d)') <= Cardinality(Servants(d))
          /\ Cardinality(Servants(d)') \in Nat
          /\ Cardinality(Servants(d)) \in Nat
      BY <3>2, ServantsFinite, FS_Subset, FS_CardinalityType
    <3>4. QED
      BY <2>1, <3>1, <3>3
  <2>4. QED
    BY <2>2, <2>3
<1>5. QED
  BY <1>2, <1>3, <1>4 DEF LordInv

LEMMA RideMounted ==
  ASSUME TypeOK, RideInv, NEW c \in Chars, NEW m \in Chars, Mount(c, m)
  PROVE  RideInv'
<1> USE ConstantsDiffer DEF TypeOK
<1>1. /\ c # m /\ {c, m} \subseteq InGame /\ UNCHANGED presence
      /\ mount[c] = None /\ mount[m] = None
      /\ mount' = [mount EXCEPT ![c] = m, ![m] = c]
      /\ mounted' = [mounted EXCEPT ![c] = "riding", ![m] = "mount"]
  BY DEF Mount, RideInv, RidingMutual, InGame, IsNPC
<1>2. ASSUME NEW d \in Chars
      PROVE  /\ mount'[d] = None <=> mounted'[d] = "foot"
             /\ mount'[d] \in Somebody'
             /\ mount'[d] # None =>
                  /\ mount'[mount'[d]] = d
                  /\ (mounted'[d] = "riding" <=> mounted'[mount'[d]] = "mount")
  <2>1. CASE d \in {c, m}
    BY <1>1, <2>1 DEF Somebody, InGame, presence
  <2>2. CASE d \notin {c, m}
    <3>1. mount'[d] = mount[d] /\ mounted'[d] = mounted[d] /\ mount[d] \notin {c, m}
      BY <1>1, <2>2 DEF RideInv, RidingMutual
    <3>2. mount[d] # None => mount'[mount[d]] = mount[mount[d]] /\ mounted'[mount[d]] = mounted[mount[d]]
      BY <1>1, <3>1
    <3>3. mount[d] \in Somebody'
      BY <1>1 DEF RideInv, Somebody, InGame, presence
    <3>4. /\ mount[d] = None <=> mounted[d] = "foot"
          /\ mount[d] # None => mount[mount[d]] = d /\ (mounted[d] = "riding" <=> mounted[mount[d]] = "mount")
      BY Zenon DEF RideInv, RidingMutual
    <3>5. QED
      BY <3>1, <3>2, <3>3, <3>4
  <2>3. QED
    BY <2>1, <2>2
<1>3. QED
  BY <1>2 DEF RideInv, RidingMutual

LEMMA HoldReleased ==
  ASSUME TypeOK, HoldInv, NEW c \in Chars, Release(c)
  PROVE  HoldInv'
<1> USE ConstantsDiffer DEF TypeOK
<1> DEFINE m == embrace[c]
<1>1. /\ m \in Chars /\ embrace[m] = c /\ UNCHANGED presence
      /\ embrace' = [embrace EXCEPT ![c] = None, ![m] = None]
      /\ embraced' = [embraced EXCEPT ![c] = "none", ![m] = "none"]
  <2>1. m \in Chars /\ embrace[m] = c
    BY DEF Release, HoldInv, HoldingMutual
  <2>2. QED
    BY <2>1 DEF Release, LetGo
<1> HIDE DEF m
<1>2. ASSUME NEW d \in Chars
      PROVE  /\ embrace'[d] = None <=> embraced'[d] = "none"
             /\ embrace'[d] \in Somebody'
             /\ embrace'[d] # None =>
                  /\ embrace'[embrace'[d]] = d
                  /\ (embraced'[d] = "embracing" <=> embraced'[embrace'[d]] = "embraced")
  <2>1. CASE d \in {c, m}
    BY <1>1, <2>1 DEF Somebody
  <2>2. CASE d \notin {c, m}
    <3>1. embrace'[d] = embrace[d] /\ embraced'[d] = embraced[d] /\ embrace[d] \notin {c, m}
      BY <1>1, <2>2 DEF HoldInv, HoldingMutual
    <3>2. embrace[d] # None => embrace'[embrace[d]] = embrace[embrace[d]] /\ embraced'[embrace[d]] = embraced[embrace[d]]
      BY <1>1, <3>1
    <3>3. embrace[d] \in Somebody'
      BY <1>1 DEF HoldInv, Somebody, InGame, presence
    <3>4. /\ embrace[d] = None <=> embraced[d] = "none"
          /\ embrace[d] # None => embrace[embrace[d]] = d /\ (embraced[d] = "embracing" <=> embraced[embrace[d]] = "embraced")
      BY Zenon DEF HoldInv, HoldingMutual
    <3>5. QED
      BY <3>1, <3>2, <3>3, <3>4
  <2>3. QED
    BY <2>1, <2>2
<1>3. QED
  BY <1>2 DEF HoldInv, HoldingMutual

LEMMA HoldEmbraced ==
  ASSUME TypeOK, HoldInv, NEW c \in Chars, NEW m \in Chars, Embrace(c, m)
  PROVE  HoldInv'
<1> USE ConstantsDiffer DEF TypeOK
<1>1. /\ c # m /\ {c, m} \subseteq InGame /\ UNCHANGED presence
      /\ embrace[c] = None /\ embrace[m] = None
      /\ embrace' = [embrace EXCEPT ![c] = m, ![m] = c]
      /\ embraced' = [embraced EXCEPT ![c] = "embracing", ![m] = "embraced"]
  <2>1. embrace[c] = None
    BY DEF Embrace, HoldInv, HoldingMutual
  <2>2. QED
    BY <2>1 DEF Embrace, IsPC, InGame
<1>2. ASSUME NEW d \in Chars
      PROVE  /\ embrace'[d] = None <=> embraced'[d] = "none"
             /\ embrace'[d] \in Somebody'
             /\ embrace'[d] # None =>
                  /\ embrace'[embrace'[d]] = d
                  /\ (embraced'[d] = "embracing" <=> embraced'[embrace'[d]] = "embraced")
  <2>1. CASE d \in {c, m}
    BY <1>1, <2>1 DEF Somebody, InGame, presence
  <2>2. CASE d \notin {c, m}
    <3>1. embrace'[d] = embrace[d] /\ embraced'[d] = embraced[d] /\ embrace[d] \notin {c, m}
      BY <1>1, <2>2 DEF HoldInv, HoldingMutual
    <3>2. embrace[d] # None => embrace'[embrace[d]] = embrace[embrace[d]] /\ embraced'[embrace[d]] = embraced[embrace[d]]
      BY <1>1, <3>1
    <3>3. embrace[d] \in Somebody'
      BY <1>1 DEF HoldInv, Somebody, InGame, presence
    <3>4. /\ embrace[d] = None <=> embraced[d] = "none"
          /\ embrace[d] # None => embrace[embrace[d]] = d /\ (embraced[d] = "embracing" <=> embraced[embrace[d]] = "embraced")
      BY Zenon DEF HoldInv, HoldingMutual
    <3>5. QED
      BY <3>1, <3>2, <3>3, <3>4
  <2>3. QED
    BY <2>1, <2>2
<1>3. QED
  BY <1>2 DEF HoldInv, HoldingMutual

-----------------------------------------------------------------------------
(* Each part under extract_char.                                            *)

LEMMA FellowGoes ==
  ASSUME TypeOK, FellowInv, NEW c \in Chars, NEW awake \in SUBSET Chars, ExtractChar(c, awake)
  PROVE  FellowInv'
<1> DEFINE gone == Departing(c)
<1>1. /\ who' = [s \in Chars |-> IF s \in Chars \ gone THEN who[s] ELSE Free]
      /\ master' = [s \in Chars |-> IF s \in Chars \ gone /\ master[s] \notin gone THEN master[s] ELSE None]
      /\ leader' = [s \in Chars |-> IF s \in gone \/ master[s] \in gone THEN None
                                    ELSE IF leader[s] \in gone THEN s ELSE leader[s]]
      /\ charm' = [s \in Chars |-> IF s \in Chars \ gone /\ master[s] \notin gone THEN charm[s] ELSE "none"]
  BY DEF ExtractChar
<1> HIDE DEF gone
<1>2. QED
  BY <1>1, ConstantsDiffer DEF TypeOK, FellowInv, Somebody, InGame

LEMMA RideGoes ==
  ASSUME TypeOK, RideInv, NEW c \in Chars, NEW awake \in SUBSET Chars, ExtractChar(c, awake)
  PROVE  RideInv'
<1> USE ConstantsDiffer DEF TypeOK
<1> DEFINE gone == Departing(c)
           Afoot(s) == s \in gone \/ \E g \in gone : mount[g] = s
<1>1. /\ who' = [s \in Chars |-> IF s \in Chars \ gone THEN who[s] ELSE Free]
      /\ mount' = [s \in Chars |-> IF Afoot(s) THEN None ELSE mount[s]]
      /\ mounted' = [s \in Chars |-> IF Afoot(s) THEN "foot" ELSE mounted[s]]
  BY DEF ExtractChar
<1> HIDE DEF gone
<1>2. ASSUME NEW d \in Chars
      PROVE  /\ mount'[d] = None <=> mounted'[d] = "foot"
             /\ mount'[d] \in Somebody'
             /\ mount'[d] # None =>
                  /\ mount'[mount'[d]] = d
                  /\ (mounted'[d] = "riding" <=> mounted'[mount'[d]] = "mount")
  <2>1. CASE Afoot(d)
    BY <1>1, <2>1 DEF Somebody
  <2>2. CASE ~Afoot(d)
    <3>1. mount'[d] = mount[d] /\ mounted'[d] = mounted[d] /\ d \notin gone
      BY <1>1, <2>2
    <3>2. ASSUME mount[d] # None
          PROVE  mount[d] \in Chars /\ mount[mount[d]] = d /\ ~Afoot(mount[d])
      <4>1. mount[d] \in Chars /\ mount[mount[d]] = d
        BY <3>2 DEF RideInv, RidingMutual
      <4>2. mount[d] \notin gone
        BY <2>2, <4>1
      <4>3. \A g \in Chars : mount[g] = mount[d] => g = d
        BY <3>2, <4>1 DEF RideInv, RidingMutual
      <4>4. gone \subseteq Chars
        BY DEF gone, Departing, Servants, NPCs
      <4>5. QED
        BY <3>1, <4>1, <4>2, <4>3, <4>4
    <3>3. mount[d] # None => mount'[mount[d]] = mount[mount[d]] /\ mounted'[mount[d]] = mounted[mount[d]]
      BY <1>1, <3>2
    <3>4. mount[d] \in Somebody'
      BY <1>1, <3>2 DEF RideInv, Somebody, InGame
    <3>5. /\ mount[d] = None <=> mounted[d] = "foot"
          /\ mount[d] # None => mount[mount[d]] = d /\ (mounted[d] = "riding" <=> mounted[mount[d]] = "mount")
      BY Zenon DEF RideInv, RidingMutual
    <3>6. QED
      BY <3>1, <3>3, <3>4, <3>5
  <2>3. QED
    BY <2>1, <2>2
<1>3. QED
  BY <1>2 DEF RideInv, RidingMutual

LEMMA HoldGoes ==
  ASSUME TypeOK, HoldInv, NEW c \in Chars, NEW awake \in SUBSET Chars, ExtractChar(c, awake)
  PROVE  HoldInv'
<1> USE ConstantsDiffer DEF TypeOK
<1> DEFINE gone == Departing(c)
           Alone(s) == s \in gone \/ \E g \in gone : embrace[g] = s
<1>1. /\ who' = [s \in Chars |-> IF s \in Chars \ gone THEN who[s] ELSE Free]
      /\ embrace' = [s \in Chars |-> IF Alone(s) THEN None ELSE embrace[s]]
      /\ embraced' = [s \in Chars |-> IF Alone(s) THEN "none" ELSE embraced[s]]
  BY DEF ExtractChar
<1> HIDE DEF gone
<1>2. ASSUME NEW d \in Chars
      PROVE  /\ embrace'[d] = None <=> embraced'[d] = "none"
             /\ embrace'[d] \in Somebody'
             /\ embrace'[d] # None =>
                  /\ embrace'[embrace'[d]] = d
                  /\ (embraced'[d] = "embracing" <=> embraced'[embrace'[d]] = "embraced")
  <2>1. CASE Alone(d)
    BY <1>1, <2>1 DEF Somebody
  <2>2. CASE ~Alone(d)
    <3>1. embrace'[d] = embrace[d] /\ embraced'[d] = embraced[d] /\ d \notin gone
      BY <1>1, <2>2
    <3>2. ASSUME embrace[d] # None
          PROVE  embrace[d] \in Chars /\ embrace[embrace[d]] = d /\ ~Alone(embrace[d])
      <4>1. embrace[d] \in Chars /\ embrace[embrace[d]] = d
        BY <3>2 DEF HoldInv, HoldingMutual
      <4>2. embrace[d] \notin gone
        BY <2>2, <4>1
      <4>3. \A g \in Chars : embrace[g] = embrace[d] => g = d
        BY <3>2, <4>1 DEF HoldInv, HoldingMutual
      <4>4. gone \subseteq Chars
        BY DEF gone, Departing, Servants, NPCs
      <4>5. QED
        BY <3>1, <4>1, <4>2, <4>3, <4>4
    <3>3. embrace[d] # None => embrace'[embrace[d]] = embrace[embrace[d]] /\ embraced'[embrace[d]] = embraced[embrace[d]]
      BY <1>1, <3>2
    <3>4. embrace[d] \in Somebody'
      BY <1>1, <3>2 DEF HoldInv, Somebody, InGame
    <3>5. /\ embrace[d] = None <=> embraced[d] = "none"
          /\ embrace[d] # None => embrace[embrace[d]] = d /\ (embraced[d] = "embracing" <=> embraced[embrace[d]] = "embraced")
      BY Zenon DEF HoldInv, HoldingMutual
    <3>6. QED
      BY <3>1, <3>3, <3>4, <3>5
  <2>3. QED
    BY <2>1, <2>2
<1>3. QED
  BY <1>2 DEF HoldInv, HoldingMutual

LEMMA SpiritGoes ==
  ASSUME TypeOK, SpiritInv, NEW c \in Chars, NEW awake \in SUBSET Chars, ExtractChar(c, awake)
  PROVE  SpiritInv'
<1> USE ConstantsDiffer DEF TypeOK
<1> DEFINE gone == Departing(c)
           Bereft(s) == s \in gone \/ \E g \in gone : wizard[g] = s
<1>1. /\ who' = [s \in Chars |-> IF s \in Chars \ gone THEN who[s] ELSE Free]
      /\ kind' = [s \in Chars |-> IF s \in Chars \ gone THEN kind[s] ELSE "plain"]
      /\ familiar' = [s \in Chars |-> IF Bereft(s) THEN None ELSE familiar[s]]
      /\ wizard' = [s \in Chars |-> IF s \in gone THEN None ELSE wizard[s]]
      /\ \A s \in Chars : no_action'[s] => no_action[s] /\ s \notin gone
  BY DEF ExtractChar
<1>2. /\ gone \subseteq Chars
      /\ \A d \in gone : IsPC(d) /\ familiar[d] # None => familiar[d] \in gone
  BY DEF gone, Departing, Servants, NPCs, IsNPC, IsPC, SpiritInv
<1> HIDE DEF gone
<1>3. ASSUME NEW d \in Chars, familiar'[d] # None
      PROVE  IsPC(d)' /\ familiar'[d] \in NPCs' /\ wizard'[familiar'[d]] = d
  <2>1. d \notin gone /\ familiar'[d] = familiar[d] /\ familiar[d] \notin gone
    BY <1>1, <1>3 DEF SpiritInv
  <2>2. QED
    BY <1>1, <1>3, <2>1 DEF SpiritInv, NPCs, IsNPC, IsPC
<1>4. ASSUME NEW d \in Chars, wizard'[d] # None
      PROVE  IsNPC(d)' /\ wizard'[d] \in Chars /\ familiar'[wizard'[d]] = d
  <2>1. d \notin gone /\ wizard'[d] = wizard[d]
    BY <1>1, <1>4
  <2>2. wizard[d] \in Chars /\ familiar[wizard[d]] = d /\ IsNPC(d) /\ IsPC(wizard[d])
    BY <1>4, <2>1 DEF SpiritInv
  <2>3. wizard[d] \notin gone
    BY <1>2, <2>1, <2>2
  <2>4. \A g \in gone : wizard[g] # wizard[d]
    BY <1>2, <2>1, <2>2 DEF SpiritInv
  <2>5. QED
    BY <1>1, <2>1, <2>2, <2>3, <2>4 DEF IsNPC
<1>5. ASSUME NEW d \in Chars, no_action'[d]
      PROVE  IsPC(d)' /\ (familiar'[d] # None => kind'[familiar'[d]] = "spirit")
  <2>1. IsPC(d)'
    BY <1>1, <1>5 DEF SpiritInv, IsPC
  <2>2. ASSUME familiar'[d] # None PROVE kind'[familiar'[d]] = "spirit"
    <3>1. familiar'[d] = familiar[d] /\ familiar[d] \notin gone
      BY <1>1, <2>2 DEF SpiritInv
    <3>2. QED
      BY <1>1, <1>5, <2>2, <3>1 DEF SpiritInv
  <2>3. QED
    BY <2>1, <2>2
<1>6. QED
  BY <1>3, <1>4, <1>5 DEF SpiritInv

LEMMA LordGoes ==
  ASSUME TypeOK, LordInv, NEW c \in Chars, NEW awake \in SUBSET Chars, ExtractChar(c, awake)
  PROVE  LordInv'
<1> USE ConstantsDiffer DEF TypeOK
<1> DEFINE gone == Departing(c)
           Lost(s) == IF IsPC(s) THEN Servants(s) \cap gone ELSE {}
<1>1. /\ who' = [s \in Chars |-> IF s \in Chars \ gone THEN who[s] ELSE Free]
      /\ lord' = [s \in Chars |-> IF s \in Chars \ gone THEN lord[s] ELSE None]
      /\ cleared' = cleared \cap (Chars \ gone)
      /\ \A s \in Chars \ gone :
            followers'[s] = IF followers[s] > Cardinality(Lost(s))
                            THEN followers[s] - Cardinality(Lost(s)) ELSE 0
  BY DEF ExtractChar
<1>2. \A d \in gone : IsPC(d) => Servants(d) \subseteq gone
  BY DEF Departing, Servants, NPCs, IsNPC, IsPC
<1> HIDE DEF gone
<1>3. PCs' = PCs \ gone /\ \A d \in PCs' : who'[d] = who[d]
  BY <1>1 DEF PCs, IsPC
<1>4. \A d, e \in PCs' : who'[d] = who'[e] => d = e
  BY <1>3 DEF LordInv
<1>5. ASSUME NEW m \in Chars, lord'[m] # None
      PROVE  IsNPC(m)' /\ \E d \in PCs' : who'[d] = lord'[m]
  <2>1. m \notin gone /\ lord'[m] = lord[m] /\ IsNPC(m) /\ IsNPC(m)'
    BY <1>1, <1>5 DEF LordInv, IsNPC
  <2>2. PICK d \in PCs : who[d] = lord[m]
    BY <1>5, <2>1 DEF LordInv
  <2>3. d \notin gone
    BY <1>2, <2>1, <2>2 DEF Servants, NPCs, PCs
  <2>4. QED
    BY <1>3, <2>1, <2>2, <2>3
<1>6. ASSUME NEW d \in PCs' \ cleared' PROVE Cardinality(Servants(d)') <= followers'[d]
  <2>1. d \in PCs \ cleared /\ d \in Chars \ gone /\ who'[d] = who[d] /\ IsPC(d)
    BY <1>1, <1>3, <1>6 DEF PCs
  <2>2. Cardinality(Servants(d)) <= followers[d] /\ followers[d] \in Nat
    BY <2>1 DEF LordInv
  <2>3. Servants(d)' = Servants(d) \ Lost(d)
    BY <1>1, <2>1 DEF Servants, NPCs, IsNPC, IsPC
  <2>4. Servants(d) \cap Lost(d) = Lost(d)
    BY <2>1
  <2>5. /\ Cardinality(Servants(d) \ Lost(d)) = Cardinality(Servants(d)) - Cardinality(Lost(d))
        /\ Cardinality(Servants(d)) \in Nat
    BY <2>4, ServantsFinite, FS_Difference
  <2>6. Cardinality(Lost(d)) \in Nat /\ Cardinality(Lost(d)) <= Cardinality(Servants(d))
    BY <2>1, ServantsFinite, FS_Subset, FS_CardinalityType
  <2> HIDE DEF Lost
  <2>7. QED
    BY <1>1, <2>1, <2>2, <2>3, <2>5, <2>6
<1>7. QED
  BY <1>4, <1>5, <1>6 DEF LordInv

-----------------------------------------------------------------------------
(* The whole invariant.                                                     *)

Parts == FellowInv /\ SpiritInv /\ RideInv /\ HoldInv /\ LordInv

LEMMA InvInit == Init => IInv
<1> SUFFICES ASSUME Init PROVE Parts
  BY TypeInit DEF IInv, Parts
<1> USE ConstantsDiffer DEF Init
<1>1. FellowInv
  BY DEF FellowInv, Somebody
<1>2. SpiritInv
  BY DEF SpiritInv
<1>3. RideInv /\ HoldInv
  BY DEF RideInv, HoldInv, RidingMutual, HoldingMutual, Somebody
<1>4. LordInv
  <2>1. PCs = {}
    BY DEF PCs, IsPC
  <2>2. QED
    BY <2>1 DEF LordInv
<1>5. QED
  BY <1>1, <1>2, <1>3, <1>4 DEF Parts

(* Operations that leave the population alone and touch one kind of bond.   *)
LEMMA FellowsOnly ==
  ASSUME IInv, UNCHANGED <<presence, service, spirits, riding, holding>>, FellowInv'
  PROVE  Parts'
  BY Staying, SpiritSame, RideSame, HoldSame, LordSame DEF IInv, Parts, service

LEMMA SpiritsOnly ==
  ASSUME IInv, UNCHANGED <<presence, fellowship, service, riding, holding>>, SpiritInv'
  PROVE  Parts'
  BY Staying, FellowSame, RideSame, HoldSame, LordSame DEF IInv, Parts, service

LEMMA RidersOnly ==
  ASSUME IInv, UNCHANGED <<presence, fellowship, service, spirits, holding>>, RideInv'
  PROVE  Parts'
  BY Staying, FellowSame, SpiritSame, HoldSame, LordSame DEF IInv, Parts, service

LEMMA HoldersOnly ==
  ASSUME IInv, UNCHANGED <<presence, fellowship, service, spirits, riding>>, HoldInv'
  PROVE  Parts'
  BY Staying, FellowSame, SpiritSame, RideSame, LordSame DEF IInv, Parts, service

LEMMA GoesNext ==
  ASSUME IInv, Goes
  PROVE  Parts'
<1> PICK c \in Chars : \E awake \in SUBSET Chars : ExtractChar(c, awake)
  BY DEF Goes
<1> PICK awake \in SUBSET Chars : ExtractChar(c, awake)
  OBVIOUS
<1> QED
  BY FellowGoes, SpiritGoes, RideGoes, HoldGoes, LordGoes DEF IInv, Parts

(* A mobile that a summoner brings in, with or without a master.            *)
LEMMA SummonNext ==
  ASSUME IInv, NEW c \in Chars, NEW m \in Chars, NEW k, IsPC(c),
         Allocate(m, Mob, k), Charged(c), SwornTo(m, c), UNCHANGED <<cleared, riding, holding>>,
         FellowInv', SpiritInv'
  PROVE  Parts'
<1>1. Stays /\ who[m] = Free /\ who'[m] = Mob /\ \A d \in Chars \ {m} : who'[d] = who[d]
  BY Joining, ConstantsDiffer DEF IInv
<1>2. ~IsPC(m)
  BY <1>1, ConstantsDiffer DEF IsPC
<1>3. RideInv' /\ HoldInv'
  BY <1>1, RideSame, HoldSame DEF IInv
<1>4. LordInv'
  BY <1>1, <1>2, LordSworn DEF IInv
<1>5. QED
  BY <1>3, <1>4 DEF Parts

LEMMA ArrivalsNext ==
  ASSUME IInv, Arrivals
  PROVE  Parts'
<1> USE ConstantsDiffer DEF IInv
<1>1. ASSUME NEW c \in Chars, NEW k \in {"plain", "beast"}, Appear(c, k) PROVE Parts'
  <2>1. Stays
    BY <1>1, Joining DEF Appear
  <2>2. FellowInv' /\ SpiritInv' /\ RideInv' /\ HoldInv'
    BY <1>1, <2>1, FellowSame, SpiritSame, RideSame, HoldSame DEF Appear
  <2>3. LordInv'
    BY <1>1, LordJoined DEF Appear
  <2>4. QED
    BY <2>2, <2>3 DEF Parts
<1>2. ASSUME NEW c \in Chars, NEW p \in Players, Login(c, p) PROVE Parts'
  <2>1. Stays /\ who[c] = Free /\ who'[c] = p /\ \A d \in Chars \ {c} : who'[d] = who[d]
    BY <1>2, Joining DEF Login
  <2>2. FellowInv' /\ RideInv' /\ HoldInv'
    <3>1. UNCHANGED <<master, leader>> /\ who'[c] # Free
          /\ \A d \in Chars \ {c} : charm'[d] = charm[d]
      BY <1>2, <2>1 DEF Login, TypeOK
    <3>2. FellowInv'
      BY <2>1, <3>1 DEF FellowInv, Stays, Somebody, InGame, TypeOK
    <3>3. QED
      BY <1>2, <2>1, <3>2, RideSame, HoldSame DEF Login
  <2>3. LordInv'
    BY <1>2, LordJoined DEF Login
  <2>4. SpiritInv'
    <3>1. familiar[c] = None /\ wizard[c] = None
      BY <2>1 DEF SpiritInv, IsPC, IsNPC, TypeOK
    <3>2. UNCHANGED <<familiar, wizard>> /\ \A d \in Chars \ {c} : no_action'[d] = no_action[d]
      BY <1>2 DEF Login, TypeOK
    <3>3. QED
      BY <2>1, <3>1, <3>2 DEF SpiritInv, Stays, InGame, IsPC, IsNPC, NPCs, TypeOK
  <2>5. QED
    BY <2>2, <2>3, <2>4 DEF Parts
<1>3. QED
  BY <1>1, <1>2 DEF Arrivals

LEMMA DeparturesNext ==
  ASSUME IInv, Departures
  PROVE  Parts'
<1> PICK c \in Chars : Quit(c) \/ MobileGoes(c) \/ PlayerDies(c) \/ Save(c)
  BY DEF Departures
<1>1. CASE Quit(c) \/ MobileGoes(c)
  BY <1>1, GoesNext DEF Quit, MobileGoes, Goes
<1>2. CASE PlayerDies(c)
  <2> USE <1>2 DEF IInv
  <2>1. Stays
    BY Staying DEF PlayerDies
  <2>2. FellowInv'
    BY <2>1 DEF PlayerDies, FellowInv, TypeOK, Somebody, InGame, presence
  <2>3. SpiritInv'
    BY <2>1 DEF PlayerDies, SpiritInv, TypeOK, IsPC, IsNPC, NPCs, presence
  <2>4. RideInv'
    BY <2>1, RideSame, RideParted DEF PlayerDies
  <2>5. HoldInv'
    BY <2>1, HoldSame DEF PlayerDies
  <2>6. LordInv'
    BY LordSame DEF PlayerDies, service
  <2>7. QED
    BY <2>2, <2>3, <2>4, <2>5, <2>6 DEF Parts
<1>3. CASE Save(c)
  BY <1>3, Staying, FellowSame, FellowsOnly DEF Save, IInv
<1>4. QED
  BY <1>1, <1>2, <1>3

LEMMA FollowingNext ==
  ASSUME IInv, Following
  PROVE  Parts'
<1> USE ConstantsDiffer DEF IInv
<1> PICK c \in Chars : \/ FollowSelf(c)
                       \/ \E v \in Chars : Follow(c, v) \/ Group(c, v)
                       \/ \E present \in SUBSET {v \in Chars : master[v] = c} : GroupAll(c, present)
  BY DEF Following
<1>1. CASE FollowSelf(c)
  <2>1. FellowInv'
    BY <1>1 DEF FollowSelf, StopFollower, FellowInv, TypeOK, Somebody, InGame, presence
  <2>2. QED
    BY <1>1, <2>1, FellowsOnly DEF FollowSelf
<1>2. ASSUME NEW v \in Chars, Follow(c, v) PROVE Parts'
  <2>1. FellowInv'
    BY <1>2, Staying, FellowTaken DEF Follow, InGame, presence
  <2>2. QED
    BY <1>2, <2>1, FellowsOnly DEF Follow
<1>3. ASSUME NEW v \in Chars, Group(c, v) PROVE Parts'
  <2>1. FellowInv'
    BY <1>3 DEF Group, MayLead, FellowInv, TypeOK, Somebody, InGame, presence
  <2>2. QED
    BY <1>3, <2>1, FellowsOnly DEF Group
<1>4. ASSUME NEW present \in SUBSET {v \in Chars : master[v] = c}, GroupAll(c, present) PROVE Parts'
  <2>1. FellowInv'
    BY <1>4 DEF GroupAll, MayLead, FellowInv, TypeOK, Somebody, InGame, presence
  <2>2. QED
    BY <1>4, <2>1, FellowsOnly DEF GroupAll
<1>5. QED
  BY <1>1, <1>2, <1>3, <1>4

LEMMA CharmingNext ==
  ASSUME IInv, Charming
  PROVE  Parts'
<1> USE ConstantsDiffer DEF IInv
<1> PICK c \in Chars, v \in Chars : \/ CharmPerson(c, v) \/ Chant(c, v) \/ Strike(c, v)
                                   \/ BuyPet(c, v) \/ CharmFades(v)
  BY DEF Charming
<1>1. CASE CharmPerson(c, v) \/ Chant(c, v)
  <2>1. CASE TakenInBy(v, c, "person") \/ TakenInBy(v, c, "chant")
    <3>1. FellowInv'
      BY <1>1, <2>1, Staying, FellowTaken DEF CharmPerson, Chant, MayCharm, IsPC, InGame, presence
    <3>2. QED
      BY <1>1, <3>1, FellowsOnly DEF CharmPerson, Chant
  <2>2. CASE charm[v] # "none" /\ charm' = [charm EXCEPT ![v] = "chant"] /\ UNCHANGED <<master, leader>>
    <3>1. FellowInv'
      BY <1>1, <2>2 DEF CharmPerson, Chant, FellowInv, TypeOK, Somebody, InGame, presence
    <3>2. QED
      BY <1>1, <3>1, FellowsOnly DEF CharmPerson, Chant
  <2>3. QED
    BY <1>1, <2>1, <2>2 DEF CharmPerson, Chant
<1>2. CASE Strike(c, v)
  <2>1. FellowInv'
    <3> DEFINE freed == (IF IsPC(Responsible(v)) /\ charm[c] # "none" THEN {c} ELSE {})
                        \cup (IF master[v] = c THEN {v} ELSE {})
    <3>1. /\ master' = [d \in Chars |-> IF d \in freed THEN None ELSE master[d]]
          /\ leader' = [d \in Chars |-> IF d \in freed /\ master[d] # None THEN None ELSE leader[d]]
          /\ charm' = [d \in Chars |-> IF d \in freed THEN "none" ELSE charm[d]]
          /\ UNCHANGED presence
      BY <1>2 DEF Strike
    <3> HIDE DEF freed
    <3>2. QED
      BY <3>1 DEF FellowInv, TypeOK, Somebody, InGame, presence
  <2>2. QED
    BY <1>2, <2>1, FellowsOnly DEF Strike
<1>3. CASE BuyPet(c, v)
  <2>1. Stays /\ who[v] = Free /\ who'[v] = Mob
    BY <1>3, Joining DEF BuyPet
  <2>2. FellowInv'
    BY <1>3, <2>1, FellowTaken DEF BuyPet, IsPC, Stays, InGame
  <2>3. SpiritInv' /\ RideInv' /\ HoldInv'
    BY <1>3, <2>1, SpiritSame, RideSame, HoldSame DEF BuyPet
  <2>4. LordInv'
    BY <1>3, LordJoined DEF BuyPet
  <2>5. QED
    BY <2>2, <2>3, <2>4 DEF Parts
<1>4. CASE CharmFades(v)
  <2>1. FellowInv'
    BY <1>4 DEF CharmFades, FellowInv, TypeOK, Somebody, InGame, presence
  <2>2. QED
    BY <1>4, <2>1, FellowsOnly DEF CharmFades
<1>5. QED
  BY <1>1, <1>2, <1>3, <1>4

LEMMA ServingNext ==
  ASSUME IInv, Serving
  PROVE  Parts'
<1> USE ConstantsDiffer DEF IInv
<1> PICK c \in Chars : \/ ClearStats(c)
                       \/ \E v \in Chars : Entrance(c, v)
                       \/ \E m \in Chars, k \in {"plain", "beast"}, bind \in BOOLEAN : Summon(c, m, k, bind)
  BY DEF Serving
<1>1. CASE ClearStats(c)
  <2>1. UNCHANGED <<presence, master, leader, lord, spirits, riding, holding>>
    BY <1>1 DEF ClearStats
  <2>2. FellowInv'
    BY <1>1, <2>1 DEF ClearStats, FellowInv, TypeOK, Somebody, InGame, presence
  <2>3. SpiritInv' /\ RideInv' /\ HoldInv'
    BY <2>1, Staying, SpiritSame, RideSame, HoldSame
  <2>4. LordInv'
    <3>1. PCs' = PCs /\ (\A d \in Chars : Servants(d)' = Servants(d)) /\ PCs \subseteq Chars
      BY <2>1 DEF presence, PCs, IsPC, Servants, NPCs, IsNPC
    <3>2. \A d \in PCs' \ cleared' : d \in PCs \ cleared /\ followers'[d] = followers[d]
      BY <1>1, <3>1 DEF ClearStats, TypeOK
    <3>3. QED
      BY <2>1, <3>1, <3>2 DEF LordInv, presence, PCs, IsPC, IsNPC
  <2>5. QED
    BY <2>2, <2>3, <2>4 DEF Parts
<1>2. ASSUME NEW v \in Chars, Entrance(c, v) PROVE Parts'
  <2>1. /\ TakenInBy(v, c, "person") /\ IsPC(c) /\ v \in InGame
        /\ UNCHANGED <<presence, cleared, spirits, riding, holding>>
    BY <1>2 DEF Entrance, MayCharm
  <2>2. FellowInv'
    BY <2>1, Staying, FellowTaken DEF IsPC, InGame, presence
  <2>3. SpiritInv' /\ RideInv' /\ HoldInv'
    BY <2>1, Staying, SpiritSame, RideSame, HoldSame
  <2>4. LordInv'
    <3>1. CASE IsNPC(v)
      <4>1. Charged(c) /\ SwornTo(v, c) /\ ~IsPC(v) /\ who'[v] = Mob
        BY <1>2, <2>1, <3>1 DEF Entrance, IsNPC, IsPC, presence
      <4>2. QED
        BY <2>1, <4>1, LordSworn DEF presence
    <3>2. CASE ~IsNPC(v)
      BY <1>2, <2>1, <3>2, LordSame DEF Entrance
    <3>3. QED
      BY <3>1, <3>2
  <2>5. QED
    BY <2>2, <2>3, <2>4 DEF Parts
<1>3. ASSUME NEW m \in Chars, NEW k \in {"plain", "beast"}, NEW bind \in BOOLEAN, Summon(c, m, k, bind)
      PROVE  Parts'
  <2>1. Stays /\ who'[m] = Mob
    BY <1>3, Joining DEF Summon
  <2>2. FellowInv'
    <3>1. CASE bind
      BY <1>3, <2>1, <3>1, FellowTaken DEF Summon, MaySummon, IsPC, Stays, InGame
    <3>2. CASE ~bind
      BY <1>3, <2>1, <3>2, FellowSame DEF Summon
    <3>3. QED
      BY <3>1, <3>2
  <2>3. SpiritInv'
    BY <1>3, <2>1, SpiritSame DEF Summon
  <2>4. QED
    BY <1>3, <2>2, <2>3, SummonNext DEF Summon, MaySummon
<1>4. QED
  BY <1>1, <1>2, <1>3

LEMMA HauntingNext ==
  ASSUME IInv, Haunting
  PROVE  Parts'
<1> USE ConstantsDiffer DEF IInv
<1> PICK c \in Chars : \/ Stir(c) \/ Recall(c) \/ CloseEye(c)
                       \/ \E m \in Chars : TakeOver(c, m) \/ Project(c, m) \/ TurnEye(c, m)
                       \/ \E m \in Chars, k \in {"plain", "eye"} : MakeFamiliar(c, m, k)
                       \/ \E m, v \in Chars : SendEye(c, m, v)
  BY DEF Haunting
<1>1. CASE Stir(c)
  <2>1. SpiritInv'
    BY <1>1 DEF Stir, SpiritInv, TypeOK, IsPC, IsNPC, NPCs, presence
  <2>2. QED
    BY <1>1, <2>1, SpiritsOnly DEF Stir
<1>2. CASE Recall(c) \/ CloseEye(c)
  <2>1. familiar[c] \in Chars
    BY <1>2 DEF Recall, CloseEye, TypeOK
  <2>2. QED
    BY <1>2, <2>1, GoesNext DEF Recall, CloseEye, Goes
<1>3. ASSUME NEW m \in Chars, TakeOver(c, m) PROVE Parts'
  <2>1. SpiritInv'
    BY <1>3, Staying, SpiritLinked DEF TakeOver, IsItself, IsNPC, presence
  <2>2. QED
    BY <1>3, <2>1, SpiritsOnly DEF TakeOver
<1>4. ASSUME NEW m \in Chars, Project(c, m) PROVE Parts'
  <2>1. Stays /\ who[m] = Free /\ who'[m] = Mob /\ kind'[m] = "spirit"
    BY <1>4, Joining DEF Project
  <2>2. wizard[m] = None
    BY <2>1 DEF SpiritInv, IsNPC
  <2>3. SpiritInv'
    BY <1>4, <2>1, <2>2, SpiritLinked DEF Project
  <2>4. FellowInv'
    BY <1>4, <2>1, FellowSame DEF Project
  <2>5. QED
    BY <1>4, <2>3, <2>4, SummonNext DEF Project
<1>5. ASSUME NEW v \in Chars, TurnEye(c, v) PROVE Parts'
  <2>1. familiar[c] \in Chars /\ who[familiar[c]] = Mob
    BY <1>5 DEF TurnEye, SpiritInv, NPCs, IsNPC
  <2>2. FellowInv'
    BY <1>5, <2>1, Staying, FellowTaken DEF TurnEye, InGame, presence
  <2>3. QED
    BY <1>5, <2>2, FellowsOnly DEF TurnEye
<1>6. ASSUME NEW m \in Chars, NEW k \in {"plain", "eye"}, MakeFamiliar(c, m, k) PROVE Parts'
  <2>1. Stays /\ who[m] = Free /\ who'[m] = Mob
    BY <1>6, Joining DEF MakeFamiliar
  <2>2. wizard[m] = None
    BY <2>1 DEF SpiritInv, IsNPC
  <2>3. SpiritInv'
    BY <1>6, <2>1, <2>2, SpiritLinked DEF MakeFamiliar, IsItself
  <2>4. FellowInv' /\ RideInv' /\ HoldInv'
    BY <1>6, <2>1, FellowSame, RideSame, HoldSame DEF MakeFamiliar
  <2>5. LordInv'
    BY <1>6, LordJoined DEF MakeFamiliar
  <2>6. QED
    BY <2>3, <2>4, <2>5 DEF Parts
<1>7. ASSUME NEW m \in Chars, NEW v \in Chars, SendEye(c, m, v) PROVE Parts'
  <2>1. Stays /\ who[m] = Free /\ who'[m] = Mob
    BY <1>7, Joining DEF SendEye
  <2>2. wizard[m] = None
    BY <2>1 DEF SpiritInv, IsNPC
  <2>3. SpiritInv'
    BY <1>7, <2>1, <2>2, SpiritLinked DEF SendEye, MaySummon, IsItself
  <2>4. FellowInv'
    BY <1>7, <2>1, FellowTaken DEF SendEye, Stays, InGame
  <2>5. QED
    BY <1>7, <2>3, <2>4, SummonNext DEF SendEye, MaySummon
<1>8. QED
  BY <1>1, <1>2, <1>3, <1>4, <1>5, <1>6, <1>7

LEMMA InvNext == IInv /\ [Next]_vars => IInv'
<1> SUFFICES ASSUME IInv, [Next]_vars PROVE Parts'
  BY TypeNext DEF IInv, Parts
<1>1. CASE Arrivals
  BY <1>1, ArrivalsNext
<1>2. CASE Departures
  BY <1>2, DeparturesNext
<1>3. CASE Following
  BY <1>3, FollowingNext
<1>4. CASE Charming
  BY <1>4, CharmingNext
<1>5. CASE Serving
  BY <1>5, ServingNext
<1>6. CASE Haunting
  BY <1>6, HauntingNext
<1>7. CASE Riding
  <2> PICK c \in Chars : Dismount(c) \/ \E m \in Chars : Mount(c, m)
    BY <1>7 DEF Riding
  <2>1. CASE Dismount(c)
    BY <2>1, Staying, RideParted, RidersOnly DEF Dismount, IInv
  <2>2. ASSUME NEW m \in Chars, Mount(c, m) PROVE Parts'
    BY <2>2, RideMounted, RidersOnly DEF Mount, IInv
  <2>3. QED
    BY <2>1, <2>2
<1>8. CASE Holding
  <2> PICK c \in Chars : Release(c) \/ \E v \in Chars : Embrace(c, v)
    BY <1>8 DEF Holding
  <2>1. CASE Release(c)
    BY <2>1, HoldReleased, HoldersOnly DEF Release, IInv
  <2>2. ASSUME NEW v \in Chars, Embrace(c, v) PROVE Parts'
    BY <2>2, HoldEmbraced, HoldersOnly DEF Embrace, IInv
  <2>3. QED
    BY <2>1, <2>2
<1>9. CASE UNCHANGED vars
  BY <1>9, Staying, FellowSame, FellowsOnly DEF vars, IInv
<1>10. QED
  BY <1>1, <1>2, <1>3, <1>4, <1>5, <1>6, <1>7, <1>8, <1>9 DEF Next

-----------------------------------------------------------------------------
(* What follows for every behaviour.                                        *)

THEOREM Invariant == Spec => []IInv
  BY InvInit, InvNext, PTL DEF Spec

\* Every variable keeps its type; in particular nobody is charged with more
\* than MaxFollowers servants, whatever is summoned, entranced or lost.
THEOREM TypeCorrect == Spec => []TypeOK
<1>1. IInv => TypeOK
  BY DEF IInv
<1>2. QED
  BY <1>1, Invariant, PTL

\* extract_char leaves nobody with a pointer to the structure it frees, and
\* familiars, mounts and embraces stay mutual through everything else.
THEOREM BondsAlwaysHold == Spec => []BondsHold
<1>1. IInv => BondsHold
  <2> SUFFICES ASSUME IInv PROVE BondsHold
    OBVIOUS
  <2> USE ConstantsDiffer DEF IInv
  <2>1. FamiliarsMutual
    BY DEF FamiliarsMutual, SpiritInv, NPCs
  <2>2. RidingMutual /\ HoldingMutual
    BY DEF RideInv, HoldInv
  <2>3. ASSUME NEW c \in Chars
        PROVE  /\ {master[c], leader[c], familiar[c], wizard[c], mount[c], embrace[c]} \subseteq InGame \cup {None}
               /\ who[c] = Free => /\ {master[c], leader[c], familiar[c], wizard[c], mount[c], embrace[c]} = {None}
                                   /\ charm[c] = "none" /\ lord[c] = None
    <3>1. master[c] \in Somebody /\ leader[c] \in Somebody
      BY DEF FellowInv
    <3>2. familiar[c] \in Somebody /\ wizard[c] \in Somebody
      BY DEF SpiritInv, Somebody, InGame, NPCs, IsNPC, IsPC
    <3>3. mount[c] \in Somebody /\ embrace[c] \in Somebody
      BY DEF RideInv, HoldInv
    <3>4. ASSUME who[c] = Free
          PROVE  /\ master[c] = None /\ leader[c] = None /\ charm[c] = "none"
                 /\ familiar[c] = None /\ wizard[c] = None /\ lord[c] = None
      BY <3>4 DEF FellowInv, SpiritInv, LordInv, IsPC, IsNPC
    <3>5. ASSUME who[c] = Free, mount[c] # None PROVE FALSE
      <4>1. mount[c] \in InGame /\ mount[mount[c]] = c
        BY <3>5, Zenon DEF RideInv, RidingMutual, Somebody
      <4>2. c \in Somebody
        BY <4>1 DEF RideInv, InGame
      <4>3. QED
        BY <3>5, <4>2 DEF Somebody, InGame
    <3>6. ASSUME who[c] = Free, embrace[c] # None PROVE FALSE
      <4>1. embrace[c] \in InGame /\ embrace[embrace[c]] = c
        BY <3>6, Zenon DEF HoldInv, HoldingMutual, Somebody
      <4>2. c \in Somebody
        BY <4>1 DEF HoldInv, InGame
      <4>3. QED
        BY <3>6, <4>2 DEF Somebody, InGame
    <3>7. QED
      BY <3>1, <3>2, <3>3, <3>4, <3>5, <3>6 DEF Somebody
  <2>4. QED
    BY <2>1, <2>2, <2>3 DEF BondsHold, NobodyPointsToTheGone
<1>2. QED
  BY <1>1, Invariant, PTL

\* A group's members follow its leader, whoever joins, leaves, dies or changes
\* masters.
THEOREM GroupsAlwaysFollow == Spec => []GroupsFollow
<1>1. IInv => GroupsFollow
  BY DEF IInv, FellowInv, GroupsFollow
<1>2. QED
  BY <1>1, Invariant, PTL

\* Servants do not outlive their lord's leaving, and unless do_clearstats forgot
\* some, each is counted, so that the limit on followers is a limit on servants.
THEOREM ServantsAlwaysCounted == Spec => []ServantsCounted
<1>1. IInv => ServantsCounted
  BY DEF IInv, LordInv, ServantsCounted, NPCs
<1>2. QED
  BY <1>1, Invariant, PTL

\* A body that may not act has sent its spirit out, or nothing.
THEOREM BodiesAlwaysReachable == Spec => []OnlyTheSpiritKeepsTheBody
<1>1. IInv => OnlyTheSpiritKeepsTheBody
  BY DEF IInv, SpiritInv, OnlyTheSpiritKeepsTheBody, PCs
<1>2. QED
  BY <1>1, Invariant, PTL

-----------------------------------------------------------------------------
(* Circles of charm.  A ring is a set of bound characters who lead only to *)
(* one another: check_killer that enters one does not come out.            *)
Ring(C) == C # {} /\ \A c \in C : Bound(c) /\ master[c] \in C

(* Charm that did not come with a new master: laid over another, or read    *)
(* from the file.                                                          *)
Stray == {"chant", "file"}

KnotInv ==
  /\ \A c \in Chars : master[c] = None => charm[c] \in {"none"} \cup Stray
  /\ \A C \in SUBSET Chars : Ring(C) => \E c \in C : charm[c] \in Stray

LEMMA KnotInit == Init => KnotInv
  BY DEF Init, KnotInv, Ring, Bound

(* Whoever is bound by now was so before to the same master, or is so by a *)
(* stray charm: rings are old, and have the stray charm they had.          *)
LEMMA Untied ==
  ASSUME KnotInv,
         \A c \in Chars : \/ charm'[c] = "none"
                          \/ charm'[c] \in Stray
                          \/ charm'[c] = charm[c] /\ master'[c] = master[c]
  PROVE  KnotInv'
<1>1. \A c \in Chars : master'[c] = None => charm'[c] \in {"none"} \cup Stray
  BY DEF KnotInv
<1>2. ASSUME NEW C \in SUBSET Chars, Ring(C)', \A c \in C : charm'[c] \notin Stray
      PROVE  FALSE
  <2>1. C # {} /\ \A c \in C : charm'[c] # "none" /\ master'[c] # None /\ master'[c] \in C
    BY <1>2 DEF Ring, Bound
  <2>2. \A c \in C : charm'[c] = charm[c] /\ master'[c] = master[c]
    BY <1>2, <2>1
  <2>3. Ring(C)
    BY <2>1, <2>2 DEF Ring, Bound
  <2>4. QED
    BY <1>2, <2>2, <2>3 DEF KnotInv
<1>3. QED
  BY <1>1, <1>2 DEF KnotInv

(* Somebody is bound anew to a master who is not bound, or who is not      *)
(* within the reach of anyone bound to the newcomer.                       *)
LEMMA Tied ==
  ASSUME KnotInv, NEW v \in Chars, NEW m \in Chars, m # v,
         charm[m] = "none" \/ \A c \in Chars : master[c] # v,
         master' = [master EXCEPT ![v] = m], charm'[v] # "none",
         \A c \in Chars \ {v} : charm'[c] = charm[c], TypeOK
  PROVE  KnotInv'
<1> USE ConstantsDiffer
<1>0. master'[v] = m /\ \A c \in Chars \ {v} : master'[c] = master[c]
  BY DEF TypeOK
<1>1. \A c \in Chars : master'[c] = None => charm'[c] \in {"none"} \cup Stray
  BY <1>0 DEF KnotInv
<1>2. ASSUME NEW C \in SUBSET Chars, Ring(C)', \A c \in C : charm'[c] \notin Stray
      PROVE  FALSE
  <2>1. C # {} /\ \A c \in C : charm'[c] # "none" /\ master'[c] # None /\ master'[c] \in C
    BY <1>2 DEF Ring, Bound
  <2> DEFINE D == C \ {v}
  <2>2. D # {}
    BY <1>0, <2>1
  <2>3. \A c \in D : charm[c] # "none" /\ master[c] # None /\ master[c] \in C /\ charm[c] \notin Stray
    BY <1>0, <1>2, <2>1
  <2>4. \A c \in D : master[c] # v
    <3>1. CASE v \in C
      <4>1. m \in D
        BY <1>0, <2>1, <3>1
      <4>2. QED
        BY <2>3, <4>1
    <3>2. CASE v \notin C
      BY <2>3, <3>2
    <3>3. QED
      BY <3>1, <3>2
  <2>5. Ring(D)
    BY <2>2, <2>3, <2>4 DEF Ring, Bound
  <2>6. QED
    BY <2>3, <2>5 DEF KnotInv
<1>3. QED
  BY <1>1, <1>2 DEF KnotInv

LEMMA KnotSame ==
  ASSUME KnotInv, UNCHANGED <<master, charm>>
  PROVE  KnotInv'
  BY Untied

(* extract_char binds nobody.                                              *)
LEMMA KnotGoes ==
  ASSUME KnotInv, Goes
  PROVE  KnotInv'
<1>1. PICK c \in Chars, awake \in SUBSET Chars : ExtractChar(c, awake)
  BY DEF Goes
<1>2. \A s \in Chars : charm'[s] # "none" => charm'[s] = charm[s] /\ master'[s] = master[s]
  BY <1>1 DEF ExtractChar
<1>3. QED
  BY <1>2, Untied

LEMMA KnotFollowing == ASSUME IInv, KnotInv, Following PROVE KnotInv'
<1> USE DEF IInv
<1> PICK c \in Chars : \/ FollowSelf(c)
                       \/ \E v \in Chars : Follow(c, v) \/ Group(c, v)
                       \/ \E present \in SUBSET {v \in Chars : master[v] = c} : GroupAll(c, present)
  BY DEF Following
<1>1. CASE FollowSelf(c)
  BY <1>1, Untied DEF FollowSelf, StopFollower, TypeOK
<1>2. ASSUME NEW v \in Chars, Follow(c, v) PROVE KnotInv'
  <2>1. charm'[c] \in {"none"} \cup Stray
    BY <1>2 DEF Follow, TakenInBy, KnotInv, TypeOK
  <2>2. \A d \in Chars \ {c} : charm'[d] = charm[d] /\ master'[d] = master[d]
    BY <1>2 DEF Follow, TakenInBy, TypeOK
  <2>3. QED
    BY <2>1, <2>2, Untied
<1>3. ASSUME NEW v \in Chars, Group(c, v) PROVE KnotInv'
  BY <1>3, KnotSame DEF Group
<1>4. ASSUME NEW present \in SUBSET {v \in Chars : master[v] = c}, GroupAll(c, present) PROVE KnotInv'
  BY <1>4, KnotSame DEF GroupAll
<1>5. QED
  BY <1>1, <1>2, <1>3, <1>4

(* Nobody follows a structure that is free.                                *)
LEMMA NobodyBehind ==
  ASSUME FellowInv, NEW v \in Chars, who[v] = Free
  PROVE  \A c \in Chars : master[c] # v
  BY ConstantsDiffer DEF FellowInv, Somebody, InGame

LEMMA KnotTaken ==
  ASSUME TypeOK, KnotInv, NEW v \in Chars, NEW m \in Chars, m # v, NEW how,
         charm[m] = "none" \/ \A c \in Chars : master[c] # v,
         TakenInBy(v, m, how), how # "none"
  PROVE  KnotInv'
<1>1. charm'[v] = how /\ \A c \in Chars \ {v} : charm'[c] = charm[c]
  BY DEF TakenInBy, TypeOK
<1>2. QED
  BY <1>1, Tied DEF TakenInBy

LEMMA KnotCharming == ASSUME IInv, KnotInv, Charming PROVE KnotInv'
<1> USE ConstantsDiffer DEF IInv
<1> PICK c \in Chars, v \in Chars : \/ CharmPerson(c, v) \/ Chant(c, v) \/ Strike(c, v)
                                   \/ BuyPet(c, v) \/ CharmFades(v)
  BY DEF Charming
<1>1. CASE CharmPerson(c, v)
  BY <1>1, KnotTaken DEF CharmPerson, MayCharm
<1>2. CASE Chant(c, v)
  <2>1. charm'[v] \in Stray
    BY <1>2 DEF Chant, TakenInBy, TypeOK, Stray
  <2>2. \A d \in Chars \ {v} : charm'[d] = charm[d] /\ master'[d] = master[d]
    BY <1>2 DEF Chant, TakenInBy, TypeOK
  <2>3. QED
    BY <2>1, <2>2, Untied
<1>3. CASE Strike(c, v)
  <2>1. \A d \in Chars : charm'[d] # "none" => charm'[d] = charm[d] /\ master'[d] = master[d]
    <3> DEFINE freed == (IF IsPC(Responsible(v)) /\ charm[c] # "none" THEN {c} ELSE {})
                        \cup (IF master[v] = c THEN {v} ELSE {})
    <3>1. /\ master' = [d \in Chars |-> IF d \in freed THEN None ELSE master[d]]
          /\ charm' = [d \in Chars |-> IF d \in freed THEN "none" ELSE charm[d]]
      BY <1>3 DEF Strike
    <3> HIDE DEF freed
    <3>2. QED
      BY <3>1
  <2>2. QED
    BY <2>1, Untied
<1>4. CASE BuyPet(c, v)
  <2>1. who[v] = Free /\ IsPC(c) /\ TakenInBy(v, c, "pet")
    BY <1>4 DEF BuyPet, Allocate
  <2>2. c # v
    BY <2>1 DEF IsPC
  <2>3. QED
    BY <2>1, <2>2, NobodyBehind, KnotTaken
<1>5. CASE CharmFades(v)
  BY <1>5, Untied DEF CharmFades, TypeOK
<1>6. QED
  BY <1>1, <1>2, <1>3, <1>4, <1>5

LEMMA KnotServing == ASSUME IInv, KnotInv, Serving PROVE KnotInv'
<1> USE ConstantsDiffer DEF IInv
<1> PICK c \in Chars : \/ ClearStats(c)
                       \/ \E v \in Chars : Entrance(c, v)
                       \/ \E m \in Chars, k \in {"plain", "beast"}, bind \in BOOLEAN : Summon(c, m, k, bind)
  BY DEF Serving
<1>1. CASE ClearStats(c)
  BY <1>1, Untied DEF ClearStats, TypeOK
<1>2. ASSUME NEW v \in Chars, Entrance(c, v) PROVE KnotInv'
  BY <1>2, KnotTaken DEF Entrance, MayCharm
<1>3. ASSUME NEW m \in Chars, NEW k \in {"plain", "beast"}, NEW bind \in BOOLEAN, Summon(c, m, k, bind)
      PROVE  KnotInv'
  <2>1. who[m] = Free /\ IsPC(c) /\ IF bind THEN TakenInBy(m, c, "person") ELSE UNCHANGED fellowship
    BY <1>3 DEF Summon, MaySummon, Allocate
  <2>2. c # m
    BY <2>1 DEF IsPC
  <2>3. CASE bind
    BY <2>1, <2>2, <2>3, NobodyBehind, KnotTaken
  <2>4. CASE ~bind
    BY <2>1, <2>4, KnotSame DEF fellowship
  <2>5. QED
    BY <2>3, <2>4
<1>4. QED
  BY <1>1, <1>2, <1>3

LEMMA KnotHaunting == ASSUME IInv, KnotInv, Haunting PROVE KnotInv'
<1> USE ConstantsDiffer DEF IInv
<1> PICK c \in Chars : \/ Stir(c) \/ Recall(c) \/ CloseEye(c)
                       \/ \E m \in Chars : TakeOver(c, m) \/ Project(c, m) \/ TurnEye(c, m)
                       \/ \E m \in Chars, k \in {"plain", "eye"} : MakeFamiliar(c, m, k)
                       \/ \E m, v \in Chars : SendEye(c, m, v)
  BY DEF Haunting
<1>1. CASE Stir(c)
  BY <1>1, KnotSame DEF Stir, fellowship
<1>2. CASE Recall(c) \/ CloseEye(c)
  <2>1. familiar[c] \in Chars
    BY <1>2 DEF Recall, CloseEye, TypeOK
  <2>2. QED
    BY <1>2, <2>1, KnotGoes DEF Recall, CloseEye, Goes
<1>3. ASSUME NEW m \in Chars, TakeOver(c, m) \/ Project(c, m) PROVE KnotInv'
  BY <1>3, KnotSame DEF TakeOver, Project, fellowship
<1>4. ASSUME NEW v \in Chars, TurnEye(c, v) PROVE KnotInv'
  <2>1. familiar[c] \in Chars
    BY <1>4 DEF TurnEye, TypeOK
  <2>2. charm'[familiar[c]] \in {"none"} \cup Stray
    BY <1>4, <2>1 DEF TurnEye, TakenInBy, KnotInv, TypeOK
  <2>3. \A d \in Chars \ {familiar[c]} : charm'[d] = charm[d] /\ master'[d] = master[d]
    BY <1>4, <2>1 DEF TurnEye, TakenInBy, TypeOK
  <2>4. QED
    BY <2>2, <2>3, Untied
<1>5. ASSUME NEW m \in Chars, NEW k \in {"plain", "eye"}, MakeFamiliar(c, m, k) PROVE KnotInv'
  BY <1>5, KnotSame DEF MakeFamiliar, fellowship
<1>6. ASSUME NEW m \in Chars, NEW v \in Chars, SendEye(c, m, v) PROVE KnotInv'
  BY <1>6, Untied DEF SendEye, TakenInBy, TypeOK
<1>7. QED
  BY <1>1, <1>2, <1>3, <1>4, <1>5, <1>6

LEMMA KnotNext == IInv /\ KnotInv /\ [Next]_vars => KnotInv'
<1> SUFFICES ASSUME IInv, KnotInv, [Next]_vars PROVE KnotInv'
  OBVIOUS
<1>1. CASE Arrivals
  <2>1. ASSUME NEW c \in Chars, NEW k \in {"plain", "beast"}, Appear(c, k) PROVE KnotInv'
    BY <2>1, KnotSame DEF Appear, fellowship
  <2>2. ASSUME NEW c \in Chars, NEW p \in Players, Login(c, p) PROVE KnotInv'
    BY <2>2, Untied DEF Login, Stray, IInv, TypeOK
  <2>3. QED
    BY <1>1, <2>1, <2>2 DEF Arrivals
<1>2. CASE Departures
  <2> PICK c \in Chars : Quit(c) \/ MobileGoes(c) \/ PlayerDies(c) \/ Save(c)
    BY <1>2 DEF Departures
  <2>1. CASE Quit(c) \/ MobileGoes(c)
    BY <2>1, KnotGoes DEF Quit, MobileGoes, Goes
  <2>2. CASE PlayerDies(c)
    BY <2>2, Untied DEF PlayerDies, IInv, TypeOK
  <2>3. CASE Save(c)
    BY <2>3, KnotSame DEF Save, fellowship
  <2>4. QED
    BY <2>1, <2>2, <2>3
<1>3. CASE Following \/ Charming \/ Serving \/ Haunting
  BY <1>3, KnotFollowing, KnotCharming, KnotServing, KnotHaunting
<1>4. CASE Riding
  BY <1>4, KnotSame DEF Riding, Dismount, Mount, fellowship
<1>5. CASE Holding
  BY <1>5, KnotSame DEF Holding, Release, Embrace, fellowship
<1>6. CASE UNCHANGED vars
  BY <1>6, KnotSame DEF vars, fellowship
<1>7. QED
  BY <1>1, <1>2, <1>3, <1>4, <1>5, <1>6 DEF Next

-----------------------------------------------------------------------------
(* The thread that check_killer follows.  Among more places than there are *)
(* characters two hold the same one.                                       *)
LEMMA Least ==
  ASSUME NEW S, S \subseteq Nat, S # {}
  PROVE  \E x \in S : \A y \in S : x <= y
<1>1. IsWellFoundedOn(OpToRel(<,Nat), Nat)
  BY NatLessThanWellFounded
<1>2. OpToRel(<,Nat) = {ss \in Nat \X Nat : ss[1] < ss[2]}
  BY DEF OpToRel
<1>3. \E x \in S : \A y \in S : ~(<<y, x>> \in OpToRel(<,Nat))
  BY <1>1, WFMin
<1>4. \E x \in S : \A y \in S : ~(<<y, x>> \in {ss \in Nat \X Nat : ss[1] < ss[2]})
  BY <1>2, <1>3, Zenon
<1>5. PICK x \in S : \A y \in S : ~(<<y, x>> \in {ss \in Nat \X Nat : ss[1] < ss[2]})
  BY <1>4
<1>6. ASSUME NEW y \in S PROVE x <= y
  <2>1. x \in Nat /\ y \in Nat
    OBVIOUS
  <2>2. ~(<<y, x>>[1] < <<y, x>>[2])
    BY <1>5, <2>1
  <2>3. QED
    BY <2>1, <2>2
<1>7. QED
  BY <1>6

LEMMA Again ==
  ASSUME NEW t \in [0 .. Cardinality(Chars) -> Chars]
  PROVE  \E i, j \in 0 .. Cardinality(Chars) : i < j /\ t[i] = t[j]
<1> DEFINE n == Cardinality(Chars)
<1>1. IsFiniteSet(Chars) /\ n \in Nat
  BY ConstantsDiffer, FS_CardinalityType
<1>2. IsFiniteSet(0 .. n) /\ Cardinality(0 .. n) = n + 1
  BY <1>1, FS_Interval
<1>3. \A f \in [0 .. n -> Chars] : \E x, y \in 0 .. n : x # y /\ f[x] = f[y]
  BY <1>1, <1>2, FS_PigeonHole
<1>4. PICK i \in 0 .. n, j \in 0 .. n : i # j /\ t[i] = t[j]
  BY <1>3
<1>5. CASE i < j
  BY <1>4, <1>5
<1>6. CASE j < i
  BY <1>4, <1>6
<1>7. QED
  BY <1>1, <1>4, <1>5, <1>6

(* One step along the thread.                                              *)
On(c) == IF Bound(c) THEN master[c] ELSE c
Threads(t, v, n) ==
  /\ t \in [0 .. n -> Chars] /\ t[0] = v
  /\ \A i \in 1 .. n : t[i] = On(t[i - 1])

LEMMA ThreadExists ==
  ASSUME TypeOK, NEW v \in Chars, NEW n \in Nat
  PROVE  \E t : Threads(t, v, n)
<1> DEFINE B == {m \in Nat : ~\E t : Threads(t, v, m)}
<1>1. ASSUME B # {} PROVE FALSE
  <2>1. PICK m \in B : \A k \in B : m <= k
    BY <1>1, Least
  <2>2. CASE m = 0
    <3> DEFINE t == [i \in 0 .. 0 |-> v]
    <3>1. Threads(t, v, 0)
      BY DEF Threads
    <3>2. QED
      BY <2>1, <2>2, <3>1
  <2>3. CASE m # 0
    <3>1. m - 1 \in Nat /\ m - 1 \notin B
      BY <2>1, <2>3
    <3>2. PICK t : Threads(t, v, m - 1)
      BY <3>1
    <3> DEFINE u == [i \in 0 .. m |-> IF i = m THEN On(t[m - 1]) ELSE t[i]]
    <3>3. On(t[m - 1]) \in Chars
      BY <3>1, <3>2 DEF Threads, On, Bound, TypeOK
    <3>4. u \in [0 .. m -> Chars] /\ u[0] = v
      BY <2>3, <3>2, <3>3 DEF Threads
    <3>5. \A i \in 1 .. m : u[i] = On(u[i - 1])
      <4> TAKE i \in 1 .. m
      <4>1. CASE i = m
        BY <2>3, <4>1
      <4>2. CASE i # m
        BY <3>2, <4>2 DEF Threads
      <4>3. QED
        BY <4>1, <4>2
    <3>6. Threads(u, v, m)
      BY <3>4, <3>5 DEF Threads
    <3>7. QED
      BY <2>1, <3>6
  <2>4. QED
    BY <2>2, <2>3
<1>2. QED
  BY <1>1

LEMMA ThreadIs ==
  ASSUME TypeOK, NEW v \in Chars
  PROVE  Threads(Thread(v), v, Cardinality(Chars))
<1> DEFINE n == Cardinality(Chars)
           step(t, i) == IF i = 0 THEN v ELSE IF Bound(t[i - 1]) THEN master[t[i - 1]] ELSE t[i - 1]
           t == CHOOSE x : x = [i \in 0 .. n |-> step(x, i)]
<1>0. n \in Nat
  BY ConstantsDiffer, FS_CardinalityType
<1>1. PICK u : Threads(u, v, n)
  BY <1>0, ThreadExists
<1>2. u = [i \in 0 .. n |-> step(u, i)]
  <2>1. \A i \in 0 .. n : u[i] = step(u, i)
    <3> TAKE i \in 0 .. n
    <3>1. CASE i = 0
      BY <1>1, <3>1 DEF Threads
    <3>2. CASE i # 0
      <4>1. i \in 1 .. n
        BY <1>0, <3>2
      <4>2. u[i] = On(u[i - 1])
        BY <1>1, <4>1 DEF Threads
      <4>3. QED
        BY <3>2, <4>2 DEF On
    <3>3. QED
      BY <3>1, <3>2
  <2> HIDE DEF step
  <2>2. QED
    BY <1>1, <2>1 DEF Threads
<1>3. t = [i \in 0 .. n |-> step(t, i)]
  <2> HIDE DEF step
  <2>1. QED
    BY <1>2
<1>4. Thread(v) = t
  BY DEF Thread
<1> HIDE DEF t
<1>5. t[0] = v /\ \A i \in 1 .. n : t[i] = On(t[i - 1])
  <2>1. \A i \in 0 .. n : t[i] = step(t, i)
    <3> HIDE DEF step
    <3>1. QED
      BY <1>3
  <2>2. t[0] = v
    BY <1>0, <2>1
  <2>3. ASSUME NEW i \in 1 .. n PROVE t[i] = On(t[i - 1])
    <3>1. t[i] = step(t, i) /\ i # 0
      BY <1>0, <2>1
    <3>2. QED
      BY <3>1 DEF On
  <2>4. QED
    BY <2>2, <2>3
<1>6. \A i \in 0 .. n : t[i] \in Chars
  <2> DEFINE B == {i \in 0 .. n : t[i] \notin Chars}
  <2>1. ASSUME B # {} PROVE FALSE
    <3>1. B \subseteq Nat
      OBVIOUS
    <3>2. PICK k \in B : \A i \in B : k <= i
      BY <2>1, <3>1, Least
    <3>3. k \in 1 .. n /\ t[k - 1] \in Chars
      BY <1>0, <1>5, <3>2
    <3>4. t[k] \in Chars
      BY <1>5, <3>3 DEF On, Bound, TypeOK
    <3>5. QED
      BY <3>2, <3>4
  <2>2. QED
    BY <2>1
<1>7. t \in [0 .. n -> Chars]
  <2> HIDE DEF step
  <2>1. QED
    BY <1>3, <1>6
<1>8. QED
  BY <1>4, <1>5, <1>7 DEF Threads

(* A thread with somebody bound at its end has nobody else on it.          *)
LEMMA AllBound ==
  ASSUME NEW n \in Nat, NEW v, NEW t, Threads(t, v, n), Bound(t[n])
  PROVE  \A k \in 0 .. n : Bound(t[k])
<1> SUFFICES ASSUME NEW k \in 0 .. n, ~Bound(t[k]) PROVE FALSE
  OBVIOUS
<1> DEFINE B == {m \in k .. n : t[m] # t[k]}
<1>1. ASSUME B # {} PROVE FALSE
  <2>0. B \subseteq Nat
    OBVIOUS
  <2>1. PICK m \in B : \A i \in B : m <= i
    BY <1>1, <2>0, Least
  <2>2. m \in 1 .. n /\ m - 1 \in k .. n /\ t[m - 1] = t[k]
    BY <2>1
  <2>3. t[m] = t[k]
    BY <2>2 DEF Threads, On
  <2>4. QED
    BY <2>1, <2>3
<1>2. t[n] = t[k]
  BY <1>1
<1>3. QED
  BY <1>2

(* It goes round, and ends in a ring.                                      *)
LEMMA EndsInRing ==
  ASSUME NEW v, NEW t, Threads(t, v, Cardinality(Chars)),
         \A k \in 0 .. Cardinality(Chars) : Bound(t[k])
  PROVE  \E C \in SUBSET {t[k] : k \in 0 .. Cardinality(Chars)} :
             Ring(C) /\ t[Cardinality(Chars)] \in C
<1> DEFINE n == Cardinality(Chars)
<1>0. n \in Nat
  BY ConstantsDiffer, FS_CardinalityType
<1> HIDE DEF n
<1>1. /\ t \in [0 .. n -> Chars]
      /\ \A i \in 1 .. n : t[i] = master[t[i - 1]]
  BY <1>0 DEF Threads, On, n
<1>2. PICK i \in 0 .. n, j \in 0 .. n : i < j /\ t[i] = t[j]
  BY <1>1, Again DEF n
<1> DEFINE C == {t[k] : k \in i .. (j - 1)}
<1>3. C \in SUBSET {t[k] : k \in 0 .. n} /\ t[i] \in C
  BY <1>0, <1>2
<1>4. \A c \in C : Bound(c) /\ master[c] \in C
  <2> TAKE c \in C
  <2>1. PICK k \in i .. (j - 1) : c = t[k]
    OBVIOUS
  <2>2. k \in 0 .. n /\ k + 1 \in 1 .. n /\ (k + 1) - 1 = k
    BY <1>0, <1>2
  <2>3. Bound(c) /\ master[c] = t[k + 1]
    BY <1>1, <2>1, <2>2 DEF n
  <2>4. CASE k = j - 1
    BY <1>2, <1>3, <2>3, <2>4
  <2>5. CASE k # j - 1
    <3>1. k + 1 \in i .. (j - 1)
      BY <1>2, <2>5
    <3>2. QED
      BY <2>3, <3>1
  <2>6. QED
    BY <2>3, <2>4, <2>5
<1>5. Ring(C)
  BY <1>3, <1>4 DEF Ring
<1> DEFINE B == {k \in i .. n : t[k] \notin C}
<1> HIDE DEF C
<1>6. ASSUME B # {} PROVE FALSE
  <2>1. B \subseteq Nat
    OBVIOUS
  <2>2. PICK k \in B : \A m \in B : k <= m
    BY <1>6, <2>1, Least
  <2>3. k # i
    BY <1>3, <2>2
  <2>4. k \in 1 .. n /\ k - 1 \in i .. n /\ t[k - 1] \in C
    BY <1>0, <2>2, <2>3
  <2>5. t[k] \in C
    BY <1>1, <1>4, <2>4
  <2>6. QED
    BY <2>2, <2>5
<1>7. t[n] \in C
  BY <1>0, <1>6
<1>8. QED
  BY <1>3, <1>5, <1>7 DEF n

LEMMA KnotsTell == TypeOK /\ KnotInv => OnlyStrayCharmTangles
<1> SUFFICES ASSUME TypeOK, KnotInv, NEW v \in Chars, ~ThreadEnds(v)
             PROVE  \E i \in 0 .. Cardinality(Chars) : charm[Thread(Responsible(v))[i]] \in Stray
  BY DEF OnlyStrayCharmTangles, Stray
<1> DEFINE n == Cardinality(Chars)
           r == Responsible(v)
           t == Thread(v)
           u == Thread(r)
<1>0. n \in Nat
  BY ConstantsDiffer, FS_CardinalityType
<1>1. Threads(t, v, n) /\ r = t[n] /\ r \in Chars /\ Bound(t[n])
  <2>1. Threads(t, v, n)
    BY ThreadIs
  <2>2. r = t[n] /\ Bound(t[n])
    BY DEF Responsible, ThreadEnds
  <2>3. QED
    BY <1>0, <2>1, <2>2 DEF Threads
<1>2. Threads(u, r, n)
  BY <1>1, ThreadIs
<1> HIDE DEF t, u, r
<1>3. PICK C \in SUBSET Chars : Ring(C) /\ r \in C
  <2>1. \A k \in 0 .. n : Bound(t[k])
    BY <1>0, <1>1, AllBound
  <2>2. {t[k] : k \in 0 .. n} \subseteq Chars
    BY <1>1 DEF Threads
  <2>3. \E C \in SUBSET {t[k] : k \in 0 .. n} : Ring(C) /\ t[n] \in C
    BY <1>1, <2>1, EndsInRing
  <2>4. QED
    BY <1>1, <2>2, <2>3
<1>4. \A k \in 0 .. n : u[k] \in C
  <2> DEFINE B == {k \in 0 .. n : u[k] \notin C}
  <2>1. ASSUME B # {} PROVE FALSE
    <3>1. B \subseteq Nat
      OBVIOUS
    <3>2. PICK k \in B : \A m \in B : k <= m
      BY <2>1, <3>1, Least
    <3>3. k # 0
      BY <1>2, <1>3, <3>2 DEF Threads
    <3>4. k \in 1 .. n /\ u[k - 1] \in C
      BY <1>0, <3>2, <3>3
    <3>5. u[k] \in C
      BY <1>2, <1>3, <3>4 DEF Threads, On, Ring
    <3>6. QED
      BY <3>2, <3>5
  <2>2. QED
    BY <2>1
<1>5. \A k \in 0 .. n : Bound(u[k])
  BY <1>3, <1>4 DEF Ring
<1>6. PICK D \in SUBSET {u[k] : k \in 0 .. n} : Ring(D)
  BY <1>2, <1>5, EndsInRing
<1>7. PICK c \in D : charm[c] \in Stray
  <2>1. D \in SUBSET Chars
    BY <1>2, <1>6 DEF Threads
  <2>2. QED
    BY <1>6, <2>1 DEF KnotInv
<1>8. PICK i \in 0 .. n : c = u[i]
  BY <1>6, <1>7
<1>9. QED
  BY <1>7, <1>8 DEF u, r

\* Whatever players charm, chant, buy, entrance or summon, let go, lose or leave
\* behind, a thread of charm that has no end has somebody on it who was bound by
\* a chanted spell, or who came back from its file charmed: check_killer cannot
\* be hung by charm person, entrancement and pets among those who stay.
THEOREM KnotsAreStray == Spec => []OnlyStrayCharmTangles
<1>1. IInv /\ KnotInv /\ [Next]_vars => KnotInv'
  BY KnotNext
<1>2. IInv /\ KnotInv => OnlyStrayCharmTangles
  BY KnotsTell DEF IInv
<1>3. QED
  BY <1>1, <1>2, KnotInit, Invariant, PTL DEF Spec
=============================================================================
