--------------------------- MODULE Session_proofs ---------------------------
(***************************************************************************)
(* Proofs about Session for any number of descriptors, bodies and mobiles: *)
(* the walks of the game loop visit every open descriptor and no other,    *)
(* and descriptors and bodies always agree about who plays whom.           *)
(***************************************************************************)
EXTENDS Session, SequenceTheorems, TLAPS

(* The list is a sequence, so that it can be reasoned about by position.   *)
ListInv == descriptor_list \in Seq(Desc) /\ IsInjective(descriptor_list)

WorldTypes ==
  /\ connected \in [Desc -> Login \cup InGame \cup {"free"}]
  /\ character \in [Desc -> Bodies \cup Mobs \cup {NULL}]
  /\ original \in [Desc -> Bodies \cup {NULL}]
  /\ desc \in [Bodies \cup Mobs -> Desc \cup {NULL}]
  /\ name \in [Bodies -> Names \cup {NULL}]
  /\ char_list \subseteq Bodies \cup Mobs
  /\ switched \subseteq Bodies /\ blank \subseteq Bodies

(* A descriptor on descriptor_free holds nothing: new_descriptor relies on *)
(* it.                                                                     *)
FreeUnused ==
  \A d \in Desc : /\ connected[d] = "free" <=> d \notin Open
                  /\ d \notin Open => character[d] = NULL /\ original[d] = NULL

(* The state of the dialogue says whether there is a body yet.             *)
StateFits ==
  \A d \in Desc :
    /\ connected[d] = "get_name" => character[d] = NULL
    /\ connected[d] \in {"old_password", "new", "motd"} => character[d] \in Bodies
    /\ character[d] \in Mobs => connected[d] \in InGame

(* Whoever is switched plays a mobile, and nobody plays or shares the body *)
(* that was left behind.                                                   *)
LeftBehind ==
  \A d \in Desc : original[d] # NULL =>
    /\ character[d] \in Mobs /\ desc[original[d]] = NULL
    /\ \A e \in Desc : original[e] = original[d] => e = d

(* EXTRA_SWITCH is an immortal's: the timer that makes idle players quit   *)
(* never finds a body that somebody will return to.                        *)
OnlyImmortals == \A c \in switched : name[c] # NULL => name[c] \in Immortals

(* What BodiesAccounted says, by descriptor and by body.                   *)
LoginUnlisted ==
  \A d \in Desc : connected[d] \in Login => character[d] \notin char_list
ListedOrLogin ==
  \A c \in Bodies : name[c] # NULL /\ c \notin char_list =>
    desc[c] # NULL /\ connected[desc[c]] \in Login
InGameListed ==
  \A d \in Desc : connected[d] \in InGame /\ character[d] # NULL => character[d] \in char_list
BodyToReturnTo ==
  \A d \in Desc : original[d] # NULL => original[d] \in char_list \cap switched
FreeBodies ==
  \A c \in Bodies : name[c] = NULL => c \notin char_list /\ desc[c] = NULL

WorldInv ==
  /\ WorldTypes /\ FreeUnused /\ StateFits /\ LeftBehind /\ DescAgrees
  /\ LoginUnlisted /\ ListedOrLogin /\ InGameListed /\ BodyToReturnTo /\ FreeBodies
  /\ OnlyImmortals

FilesInv == pfiles \subseteq Names /\ flagged \subseteq pfiles /\ flagged \subseteq Immortals

(* What is still to be served lies ahead, at or behind d_next.             *)
Ahead ==
  \A e \in unserved : \E i, j \in 1..Len(descriptor_list) :
    i <= j /\ descriptor_list[i] = d_next /\ descriptor_list[j] = e

WalkInv ==
  /\ at \in {"poll", "input", "output"}
  /\ at = "poll" => d_next = NULL /\ unserved = {}
  /\ d_next # NULL => d_next \in Open
  /\ unserved \subseteq Desc
  /\ Ahead

IInv == ListInv /\ WorldInv /\ FilesInv /\ WalkInv

-----------------------------------------------------------------------------
(* The list.                                                               *)
LEMMA PlaceOf ==
  ASSUME ListInv, NEW d \in Open
  PROVE  /\ Place(d) \in 1..Len(descriptor_list) /\ descriptor_list[Place(d)] = d
         /\ d \in Desc
  BY DEF ListInv, Open, ToSet, Place

LEMMA OnePlace ==
  ASSUME ListInv, NEW i \in 1..Len(descriptor_list), NEW j \in 1..Len(descriptor_list),
         descriptor_list[i] = descriptor_list[j]
  PROVE  i = j
  BY DEF ListInv, IsInjective

LEMMA OpenAt ==
  ASSUME ListInv, NEW i \in 1..Len(descriptor_list)
  PROVE  descriptor_list[i] \in Open
  BY DEF ListInv, Open, ToSet

LEMMA AfterIs ==
  ASSUME ListInv, NEW d \in Open
  PROVE  \/ After(d) = NULL /\ Place(d) = Len(descriptor_list)
         \/ /\ Place(d) + 1 \in 1..Len(descriptor_list)
            /\ After(d) = descriptor_list[Place(d) + 1] /\ After(d) \in Open
<1>1. Place(d) \in 1..Len(descriptor_list) /\ Len(descriptor_list) \in Nat
  BY PlaceOf DEF ListInv
<1>2. CASE Place(d) = Len(descriptor_list)
  BY <1>2 DEF After
<1>3. CASE Place(d) # Len(descriptor_list)
  <2>1. Place(d) + 1 \in 1..Len(descriptor_list)
    BY <1>1, <1>3
  <2>2. QED
    BY <1>3, <2>1, OpenAt DEF After
<1>4. QED
  BY <1>2, <1>3

(* Unlinking one descriptor keeps the others, in their order.              *)
LEMMA Unlinking ==
  ASSUME ListInv, NEW d \in Open, descriptor_list' = Without(d)
  PROVE  /\ ListInv' /\ Open' = Open \ {d}
         /\ \A i, j \in 1..Len(descriptor_list) :
              i <= j /\ descriptor_list[i] # d /\ descriptor_list[j] # d =>
                \E k, l \in 1..Len(descriptor_list') :
                  /\ k <= l
                  /\ descriptor_list'[k] = descriptor_list[i]
                  /\ descriptor_list'[l] = descriptor_list[j]
<1> DEFINE s == descriptor_list
           p == Place(d)
           t == descriptor_list'
           New(i) == IF i < p THEN i ELSE i - 1
           Old(k) == IF k < p THEN k ELSE k + 1
<1>1. p \in 1..Len(s) /\ s[p] = d /\ s \in Seq(Desc) /\ Len(s) \in Nat /\ DOMAIN s = 1..Len(s)
  BY PlaceOf DEF ListInv
<1>2. t = SubSeq(s, 1, p - 1) \o SubSeq(s, p + 1, Len(s))
  BY DEF Without, RemoveAt
<1> HIDE DEF s, p, t
<1> DEFINE a == SubSeq(s, 1, p - 1)
           b == SubSeq(s, p + 1, Len(s))
<1>3. a \in Seq(Desc) /\ Len(a) = p - 1 /\ \A k \in 1..(p - 1) : a[k] = s[k]
  <2>1. 1 \in Int /\ p - 1 \in Int /\ \A i \in 1..(p - 1) : s[i] \in Desc
    BY <1>1
  <2>2. /\ a \in Seq(Desc) /\ Len(a) = IF 1 <= p - 1 THEN (p - 1) - 1 + 1 ELSE 0
        /\ \A i \in 1..((p - 1) - 1 + 1) : a[i] = s[1 + i - 1]
    BY <2>1, SubSeqProperties
  <2> HIDE DEF a
  <2>3. QED
    BY <1>1, <2>2
<1> HIDE DEF a
<1>4. /\ b \in Seq(Desc) /\ Len(b) = Len(s) - p
      /\ \A k \in 1..(Len(s) - p) : b[k] = s[p + k]
  <2>1. p + 1 \in Int /\ Len(s) \in Int /\ \A i \in (p + 1)..Len(s) : s[i] \in Desc
    BY <1>1
  <2>2. /\ b \in Seq(Desc)
        /\ Len(b) = IF p + 1 <= Len(s) THEN Len(s) - (p + 1) + 1 ELSE 0
        /\ \A i \in 1..(Len(s) - (p + 1) + 1) : b[i] = s[(p + 1) + i - 1]
    BY <2>1, SubSeqProperties
  <2> HIDE DEF b
  <2>3. Len(b) = Len(s) - p
    <3>1. p \in Int /\ Len(s) \in Int /\ p <= Len(s)
      BY <1>1
    <3>2. Len(b) = IF p + 1 <= Len(s) THEN Len(s) - (p + 1) + 1 ELSE 0
      BY <2>2
    <3>3. QED
      BY <3>1, <3>2
  <2>4. \A k \in 1..(Len(s) - p) :
            k \in 1..(Len(s) - (p + 1) + 1) /\ (p + 1) + k - 1 = p + k
    BY <1>1
  <2>5. QED
    BY <2>2, <2>3, <2>4
<1> HIDE DEF b
<1>5. /\ t \in Seq(Desc) /\ Len(t) = Len(s) - 1 /\ DOMAIN t = 1..(Len(s) - 1)
      /\ \A k \in 1..(Len(s) - 1) : t[k] = IF k <= p - 1 THEN a[k] ELSE b[k - (p - 1)]
  <2>1. t = a \o b
    BY <1>2 DEF a, b
  <2>2. /\ a \o b \in Seq(Desc) /\ Len(a \o b) = Len(a) + Len(b)
        /\ \A k \in 1..(Len(a) + Len(b)) :
             (a \o b)[k] = IF k <= Len(a) THEN a[k] ELSE b[k - Len(a)]
    BY <1>3, <1>4, ConcatProperties
  <2>3. Len(a) + Len(b) = Len(s) - 1
    BY <1>1, <1>3, <1>4
  <2>4. QED
    BY <1>3, <2>1, <2>2, <2>3
<1>6. \A k \in 1..(Len(s) - 1) : t[k] = s[Old(k)]
  <2> TAKE k \in 1..(Len(s) - 1)
  <2>1. CASE k < p
    BY <1>1, <1>3, <1>5, <2>1
  <2>2. CASE ~(k < p)
    <3>1. k - (p - 1) \in 1..(Len(s) - p) /\ p + (k - (p - 1)) = k + 1 /\ ~(k <= p - 1)
      BY <1>1, <2>2
    <3>2. t[k] = b[k - (p - 1)]
      BY <1>5, <3>1
    <3>3. QED
      BY <1>4, <2>2, <3>1, <3>2
  <2>3. QED
    BY <2>1, <2>2
<1>7. \A k \in 1..(Len(s) - 1) : Old(k) \in 1..Len(s) /\ Old(k) # p
  BY <1>1
<1>8. \A i \in 1..Len(s) : i # p => New(i) \in 1..(Len(s) - 1) /\ Old(New(i)) = i
  BY <1>1
<1>9. \A i, j \in 1..Len(s) : s[i] = s[j] => i = j
  BY OnePlace DEF s
<1>10. IsInjective(t)
  <2>1. ASSUME NEW k \in 1..(Len(s) - 1), NEW l \in 1..(Len(s) - 1), t[k] = t[l]
        PROVE  k = l
    <3>1. Old(k) = Old(l)
      BY <1>6, <1>7, <1>9, <2>1
    <3>2. QED
      BY <1>1, <3>1
  <2>2. QED
    BY <1>5, <2>1 DEF IsInjective
<1>11. ToSet(t) = ToSet(s) \ {d}
  <2>1. \A k \in 1..(Len(s) - 1) : t[k] \in ToSet(s) \ {d}
    BY <1>1, <1>6, <1>7, <1>9 DEF ToSet
  <2>2. \A i \in 1..Len(s) : s[i] # d => s[i] \in ToSet(t)
    <3> TAKE i \in 1..Len(s)
    <3> HAVE s[i] # d
    <3>1. i # p /\ New(i) \in 1..(Len(s) - 1) /\ t[New(i)] = s[i]
      BY <1>1, <1>6, <1>8
    <3>2. QED
      BY <1>5, <3>1 DEF ToSet
  <2>3. QED
    BY <1>1, <1>5, <2>1, <2>2 DEF ToSet
<1>12. ASSUME NEW i \in 1..Len(s), NEW j \in 1..Len(s), i <= j, s[i] # d, s[j] # d
       PROVE  \E k, l \in 1..(Len(s) - 1) : k <= l /\ t[k] = s[i] /\ t[l] = s[j]
  <2>1. /\ i # p /\ New(i) \in 1..(Len(s) - 1) /\ t[New(i)] = s[i]
        /\ j # p /\ New(j) \in 1..(Len(s) - 1) /\ t[New(j)] = s[j]
    BY <1>1, <1>6, <1>8, <1>12
  <2>2. New(i) <= New(j)
    BY <1>1, <1>12, <2>1
  <2>3. QED
    BY <2>1, <2>2
<1>13. ListInv'
  BY <1>5, <1>10 DEF ListInv, t
<1>14. Open' = Open \ {d}
  BY <1>11 DEF Open, s, t
<1>15. \A i, j \in 1..Len(s) : i <= j /\ s[i] # d /\ s[j] # d =>
         \E k, l \in 1..Len(t) : k <= l /\ t[k] = s[i] /\ t[l] = s[j]
  BY <1>5, <1>12
<1>16. QED
  BY <1>13, <1>14, <1>15 DEF s, t

-----------------------------------------------------------------------------
(* The walk.  Behind d, what is ahead of it is ahead of its successor.     *)
LEMMA BehindIsAhead ==
  ASSUME ListInv, WalkInv, NEW d, Reached(d), NEW e \in unserved, e # d
  PROVE  /\ d \in Open /\ After(d) \in Open /\ After(d) # NULL
         /\ \E i, j \in 1..Len(descriptor_list) :
              /\ i <= j /\ i = Place(d) + 1
              /\ descriptor_list[i] = After(d) /\ descriptor_list[j] = e
<1>1. d \in Open /\ d = d_next
  BY DEF Reached, WalkInv
<1>2. PICK i, j \in 1..Len(descriptor_list) :
         i <= j /\ descriptor_list[i] = d /\ descriptor_list[j] = e
  BY <1>1 DEF WalkInv, Ahead
<1>3. i = Place(d) /\ Len(descriptor_list) \in Nat
  BY <1>1, <1>2, PlaceOf, OnePlace DEF ListInv
<1>4. i # j
  BY <1>2
<1>5. Place(d) + 1 \in 1..Len(descriptor_list) /\ Place(d) + 1 <= j
  BY <1>2, <1>3, <1>4
<1>6. Place(d) # Len(descriptor_list)
  BY <1>3, <1>5
<1>7. After(d) = descriptor_list[Place(d) + 1] /\ After(d) \in Open
  BY <1>1, <1>6, AfterIs
<1>8. After(d) # NULL
  BY <1>7, PlaceOf, SessionAssumption
<1>9. QED
  BY <1>1, <1>2, <1>5, <1>7, <1>8

LEMMA GoOnOpen ==
  ASSUME ListInv, WalkInv, NEW d, Reached(d), GoOn(d, NULL),
         UNCHANGED descriptor_list
  PROVE  WalkInv'
<1>1. d \in Open /\ d # NULL /\ at \in {"input", "output"}
  BY DEF Reached, WalkInv
<1>2. NULL \notin Open
  BY PlaceOf, SessionAssumption
<1>3. d_next' = After(d) /\ unserved' = unserved \ {d, NULL} /\ at' = at
  BY DEF GoOn, Onward
<1>4. Open' = Open
  BY DEF Open
<1>5. d_next' # NULL => d_next' \in Open'
  BY <1>1, <1>3, <1>4, AfterIs
<1>6. Ahead'
  <2>1. SUFFICES ASSUME NEW e \in unserved'
                 PROVE  \E i, j \in 1..Len(descriptor_list) :
                          i <= j /\ descriptor_list[i] = d_next' /\ descriptor_list[j] = e
    BY DEF Ahead
  <2>2. QED
    BY <1>3, <2>1, BehindIsAhead
<1>7. QED
  BY <1>1, <1>3, <1>5, <1>6 DEF WalkInv

(* close_socket moves d_next on when it closes the saved successor.        *)
LEMMA GoOnClosed ==
  ASSUME ListInv, WalkInv, NEW d, Reached(d), NEW c \in Open, GoOn(d, c),
         descriptor_list' = Without(c)
  PROVE  WalkInv'
<1>1. d \in Open /\ d # NULL /\ at \in {"input", "output"}
  BY DEF Reached, WalkInv
<1>2. NULL \notin Open
  BY PlaceOf, SessionAssumption
<1>3. unserved' = unserved \ {d, c} /\ at' = at
  BY DEF GoOn
<1>4. Open' = Open \ {c}
  BY Unlinking
<1>5. d_next' = IF After(d) = c THEN After(c) ELSE After(d)
  BY <1>2 DEF GoOn, Onward
<1>6. After(c) # c
  <2>1. Place(c) \in 1..Len(descriptor_list) /\ descriptor_list[Place(c)] = c
    BY PlaceOf
  <2>2. CASE After(c) = NULL
    BY <1>2, <2>2
  <2>3. CASE /\ Place(c) + 1 \in 1..Len(descriptor_list)
             /\ After(c) = descriptor_list[Place(c) + 1]
    <3>1. Place(c) + 1 # Place(c)
      BY <2>1
    <3>2. QED
      BY <2>1, <2>3, <3>1, OnePlace
  <2>4. QED
    BY <2>2, <2>3, AfterIs
<1>7. d_next' # NULL => d_next' \in Open'
  <2>1. CASE After(d) = c
    BY <1>4, <1>5, <1>6, <2>1, AfterIs
  <2>2. CASE After(d) # c
    BY <1>1, <1>4, <1>5, <2>2, AfterIs
  <2>3. QED
    BY <2>1, <2>2
<1>8. ASSUME NEW e \in unserved'
      PROVE  \E i, j \in 1..Len(descriptor_list) :
               i <= j /\ descriptor_list[i] = d_next' /\ descriptor_list[j] = e
  <2>1. e \in unserved /\ e # d /\ e # c
    BY <1>3, <1>8
  <2>2. PICK i, j \in 1..Len(descriptor_list) :
          /\ i <= j /\ i = Place(d) + 1
          /\ descriptor_list[i] = After(d) /\ descriptor_list[j] = e
    BY <2>1, BehindIsAhead
  <2>3. CASE After(d) # c
    BY <1>5, <2>2, <2>3
  <2>4. CASE After(d) = c
    <3>1. i = Place(c) /\ i # j /\ Len(descriptor_list) \in Nat
      BY <2>1, <2>2, <2>4, PlaceOf, OnePlace DEF ListInv
    <3>2. i + 1 \in 1..Len(descriptor_list) /\ i + 1 <= j /\ i # Len(descriptor_list)
      BY <2>2, <3>1
    <3>3. After(c) = descriptor_list[i + 1]
      BY <3>1, <3>2, AfterIs
    <3>4. QED
      BY <1>5, <2>2, <2>4, <3>2, <3>3
  <2>5. QED
    BY <2>3, <2>4
<1>9. Ahead'
  <2>1. SUFFICES ASSUME NEW e \in unserved'
                 PROVE  \E k, l \in 1..Len(descriptor_list') :
                          /\ k <= l
                          /\ descriptor_list'[k] = d_next' /\ descriptor_list'[l] = e
    BY DEF Ahead
  <2>2. PICK i, j \in 1..Len(descriptor_list) :
          i <= j /\ descriptor_list[i] = d_next' /\ descriptor_list[j] = e
    BY <1>8
  <2>3. d_next' # c /\ e # c
    <3>1. d_next' \in Open
      BY <2>2, OpenAt
    <3>2. QED
      BY <1>2, <1>3, <1>4, <1>7, <2>1, <3>1
  <2>4. QED
    BY <2>2, <2>3, Unlinking
<1>10. QED
  BY <1>1, <1>3, <1>7, <1>9 DEF WalkInv

LEMMA WalkSame ==
  ASSUME WalkInv, UNCHANGED <<descriptor_list, at, d_next, unserved>>
  PROVE  WalkInv'
  BY DEF WalkInv, Ahead, Open

(* Between the walks, descriptors may come and go.                         *)
LEMMA PollSame ==
  ASSUME WalkInv, at = "poll", UNCHANGED <<at, d_next, unserved>>
  PROVE  WalkInv'
  BY DEF WalkInv, Ahead

LEMMA WalkBegins ==
  ASSUME ListInv, WalkInv, Walk
  PROVE  WalkInv'
<1>1. /\ at' \in {"input", "output"} /\ unserved' = Open
      /\ d_next' = IF descriptor_list = <<>> THEN NULL ELSE descriptor_list[1]
      /\ UNCHANGED descriptor_list
  BY DEF Walk, world
<1>2. Open' = Open /\ Open \subseteq Desc
  BY <1>1, PlaceOf DEF Open
<1>3. CASE descriptor_list = <<>>
  <2>1. Open = {}
    BY <1>3 DEF Open, ToSet
  <2>2. QED
    BY <1>1, <1>3, <2>1 DEF WalkInv, Ahead
<1>4. CASE descriptor_list # <<>>
  <2>1. 1 \in 1..Len(descriptor_list)
    BY <1>4 DEF ListInv
  <2>2. d_next' \in Open
    BY <1>1, <1>4, <2>1, OpenAt
  <2>3. \A e \in Open : \E j \in 1..Len(descriptor_list) :
            1 <= j /\ descriptor_list[j] = e
    BY PlaceOf
  <2>4. Ahead'
    BY <1>1, <1>4, <2>1, <2>3 DEF Ahead
  <2>5. QED
    BY <1>1, <1>2, <2>2, <2>4 DEF WalkInv
<1>5. QED
  BY <1>3, <1>4

LEMMA WalkEnds ==
  ASSUME WalkInv, EndWalk
  PROVE  WalkInv'
  BY DEF WalkInv, EndWalk, Ahead

-----------------------------------------------------------------------------
(* What each step does to descriptors and bodies.                          *)
LEMMA CloseSocketKeeps ==
  ASSUME WorldInv, ListInv, NEW d \in Open, CloseSocket(d)
  PROVE  WorldInv'
<1> USE SessionAssumption DEF WorldInv, WorldTypes, Login, InGame
<1>1. /\ d \in Desc /\ Open' = Open \ {d}
      /\ connected' = [connected EXCEPT ![d] = "free"]
      /\ character' = [character EXCEPT ![d] = NULL]
      /\ original' = [original EXCEPT ![d] = NULL]
      /\ desc' = [c \in DOMAIN desc |-> IF c = character[d] THEN NULL ELSE desc[c]]
      /\ name' = [c \in Bodies |-> IF c = character[d] /\ connected[d] \in Login
                                   THEN NULL ELSE name[c]]
      /\ switched' = switched \ {original[d]} /\ blank' = blank \ {character[d]}
      /\ char_list' = char_list
  BY PlaceOf, Unlinking DEF CloseSocket
<1>2. WorldTypes'
  BY <1>1 DEF StateFits, DescAgrees
<1>3. FreeUnused'
  BY <1>1 DEF FreeUnused, LeftBehind, DescAgrees
<1>4. StateFits'
  BY <1>1 DEF FreeUnused, StateFits, DescAgrees, LoginUnlisted, FreeBodies, LeftBehind, InGameListed
<1>5. LeftBehind'
  BY <1>1 DEF FreeUnused, StateFits, DescAgrees, LoginUnlisted, FreeBodies, LeftBehind, BodyToReturnTo
<1>6. DescAgrees'
  BY <1>1 DEF FreeUnused, StateFits, DescAgrees, LoginUnlisted, FreeBodies, LeftBehind
<1>7. LoginUnlisted'
  BY <1>1 DEF FreeUnused, StateFits, DescAgrees, LoginUnlisted, FreeBodies, LeftBehind, InGameListed
<1>8. ListedOrLogin'
  BY <1>1 DEF FreeUnused, StateFits, DescAgrees, LoginUnlisted, FreeBodies, LeftBehind, ListedOrLogin
<1>9. InGameListed'
  BY <1>1 DEF FreeUnused, StateFits, DescAgrees, LoginUnlisted, FreeBodies, LeftBehind, InGameListed, BodyToReturnTo
<1>10. BodyToReturnTo'
  BY <1>1 DEF FreeUnused, StateFits, DescAgrees, LoginUnlisted, FreeBodies, LeftBehind, InGameListed, BodyToReturnTo
<1>11. FreeBodies'
  BY <1>1 DEF FreeUnused, StateFits, DescAgrees, LoginUnlisted, FreeBodies, LeftBehind, BodyToReturnTo
<1>12. OnlyImmortals'
  BY <1>1 DEF OnlyImmortals, DescAgrees, FreeBodies, StateFits, FilesInv
<1>13. QED
  BY <1>2, <1>3, <1>4, <1>5, <1>6, <1>7, <1>8, <1>9, <1>10, <1>11, <1>12

LEMMA QuitKeeps ==
  ASSUME WorldInv, ListInv, NEW c \in Bodies \cap char_list, QuitGame(c),
         \A d \in Desc : original[d] # c
  PROVE  WorldInv'
<1> USE SessionAssumption DEF WorldInv, WorldTypes, Login, InGame
<1>1. /\ Open' = IF desc[c] \in Open THEN Open \ {desc[c]} ELSE Open
      /\ connected' = [e \in Desc |-> IF e = desc[c] THEN "free" ELSE connected[e]]
      /\ character' = [e \in Desc |-> IF e = desc[c] THEN NULL ELSE character[e]]
      /\ desc' = [desc EXCEPT ![c] = NULL]
      /\ name' = [name EXCEPT ![c] = NULL]
      /\ char_list' = char_list \ {c} /\ switched' = switched \ {c}
      /\ original' = original /\ blank' = blank
  BY Unlinking DEF QuitGame, Without, Open
<1>2. WorldTypes'
  BY <1>1 DEF StateFits, DescAgrees
<1>3. FreeUnused'
  BY <1>1 DEF FreeUnused, LeftBehind, DescAgrees
<1>4. StateFits'
  BY <1>1 DEF FreeUnused, StateFits, DescAgrees, LoginUnlisted, FreeBodies, LeftBehind, InGameListed
<1>5. LeftBehind'
  BY <1>1 DEF FreeUnused, StateFits, DescAgrees, LoginUnlisted, FreeBodies, LeftBehind, BodyToReturnTo
<1>6. DescAgrees'
  BY <1>1 DEF FreeUnused, StateFits, DescAgrees, LoginUnlisted, FreeBodies, LeftBehind
<1>7. LoginUnlisted'
  BY <1>1 DEF FreeUnused, StateFits, DescAgrees, LoginUnlisted, FreeBodies, LeftBehind, InGameListed
<1>8. ListedOrLogin'
  BY <1>1 DEF FreeUnused, StateFits, DescAgrees, LoginUnlisted, FreeBodies, LeftBehind, ListedOrLogin
<1>9. InGameListed'
  BY <1>1 DEF FreeUnused, StateFits, DescAgrees, LoginUnlisted, FreeBodies, LeftBehind, InGameListed, BodyToReturnTo
<1>10. BodyToReturnTo'
  BY <1>1 DEF FreeUnused, StateFits, DescAgrees, LoginUnlisted, FreeBodies, LeftBehind, InGameListed, BodyToReturnTo
<1>11. FreeBodies'
  BY <1>1 DEF FreeUnused, StateFits, DescAgrees, LoginUnlisted, FreeBodies, LeftBehind, BodyToReturnTo
<1>12. OnlyImmortals'
  BY <1>1 DEF OnlyImmortals, DescAgrees, FreeBodies, StateFits, FilesInv
<1>13. QED
  BY <1>2, <1>3, <1>4, <1>5, <1>6, <1>7, <1>8, <1>9, <1>10, <1>11, <1>12

LEMMA NewDescriptorList ==
  ASSUME ListInv, NEW d \in Desc \ Open, descriptor_list' = <<d>> \o descriptor_list
  PROVE  ListInv' /\ Open' = Open \cup {d}
<1>1. /\ descriptor_list' \in Seq(Desc) /\ Len(descriptor_list') = Len(descriptor_list) + 1
      /\ descriptor_list'[1] = d
      /\ \A i \in 2..Len(descriptor_list') : /\ descriptor_list'[i] = descriptor_list[i - 1]
                                             /\ i - 1 \in 1..Len(descriptor_list)
      /\ \A i \in 1..Len(descriptor_list) : /\ descriptor_list'[i + 1] = descriptor_list[i]
                                            /\ i + 1 \in 1..Len(descriptor_list')
  BY DEF ListInv
<1>2. /\ DOMAIN descriptor_list = 1..Len(descriptor_list) /\ Len(descriptor_list) \in Nat
      /\ DOMAIN descriptor_list' = 1..Len(descriptor_list')
  BY <1>1 DEF ListInv
<1>3. IsInjective(descriptor_list')
  <2>1. ASSUME NEW i \in 1..Len(descriptor_list'), NEW j \in 1..Len(descriptor_list'),
               descriptor_list'[i] = descriptor_list'[j]
        PROVE  i = j
    <3>1. CASE i = 1 \/ j = 1
      BY <1>1, <1>2, <2>1, <3>1, OpenAt
    <3>2. CASE i # 1 /\ j # 1
      <4>1. descriptor_list[i - 1] = descriptor_list[j - 1]
        BY <1>1, <2>1, <3>2
      <4>2. i - 1 = j - 1
        BY <1>1, <3>2, <4>1, OnePlace
      <4>3. QED
        BY <4>2
    <3>3. QED
      BY <3>1, <3>2
  <2>2. QED
    BY <1>2, <2>1 DEF IsInjective
<1>4. Open' = Open \cup {d}
  <2>1. \A i \in 1..Len(descriptor_list') : descriptor_list'[i] \in Open \cup {d}
    BY <1>1, OpenAt
  <2>2. \A e \in Open : \E i \in 1..Len(descriptor_list') : descriptor_list'[i] = e
    BY <1>1, PlaceOf
  <2>3. 1 \in 1..Len(descriptor_list')
    BY <1>1, <1>2
  <2>4. Open' = {descriptor_list'[i] : i \in 1..Len(descriptor_list')}
    BY <1>2 DEF Open, ToSet
  <2>5. QED
    BY <1>1, <2>1, <2>2, <2>3, <2>4
<1>5. QED
  BY <1>1, <1>3, <1>4 DEF ListInv

LEMMA NewDescriptorKeeps ==
  ASSUME WorldInv, ListInv, NEW d \in Desc, NewDescriptor(d)
  PROVE  WorldInv'
<1> USE SessionAssumption DEF WorldInv, WorldTypes, Login, InGame
<1>1. /\ connected[d] = "free" /\ connected' = [connected EXCEPT ![d] = "get_name"]
      /\ Open' = Open \cup {d}
      /\ UNCHANGED <<character, original, desc, name, char_list, switched, blank>>
  BY NewDescriptorList DEF NewDescriptor, links, FreeUnused
<1>2. WorldTypes'
  BY <1>1 DEF StateFits, DescAgrees
<1>3. FreeUnused'
  BY <1>1 DEF FreeUnused, LeftBehind, DescAgrees
<1>4. StateFits'
  BY <1>1 DEF FreeUnused, StateFits, DescAgrees, LoginUnlisted, FreeBodies, LeftBehind, InGameListed
<1>5. LeftBehind'
  BY <1>1 DEF FreeUnused, StateFits, DescAgrees, LoginUnlisted, FreeBodies, LeftBehind, BodyToReturnTo
<1>6. DescAgrees'
  BY <1>1 DEF FreeUnused, StateFits, DescAgrees, LoginUnlisted, FreeBodies, LeftBehind
<1>7. LoginUnlisted'
  BY <1>1 DEF FreeUnused, StateFits, DescAgrees, LoginUnlisted, FreeBodies, LeftBehind, InGameListed
<1>8. ListedOrLogin'
  BY <1>1 DEF FreeUnused, StateFits, DescAgrees, LoginUnlisted, FreeBodies, LeftBehind, ListedOrLogin
<1>9. InGameListed'
  BY <1>1 DEF FreeUnused, StateFits, DescAgrees, LoginUnlisted, FreeBodies, LeftBehind, InGameListed, BodyToReturnTo
<1>10. BodyToReturnTo'
  BY <1>1 DEF FreeUnused, StateFits, DescAgrees, LoginUnlisted, FreeBodies, LeftBehind, InGameListed, BodyToReturnTo
<1>11. FreeBodies'
  BY <1>1 DEF FreeUnused, StateFits, DescAgrees, LoginUnlisted, FreeBodies, LeftBehind, BodyToReturnTo
<1>12. OnlyImmortals'
  BY <1>1 DEF OnlyImmortals, DescAgrees, FreeBodies, StateFits, FilesInv
<1>13. QED
  BY <1>2, <1>3, <1>4, <1>5, <1>6, <1>7, <1>8, <1>9, <1>10, <1>11, <1>12

LEMMA GetNameKeeps ==
  ASSUME WorldInv, NEW d \in Desc, NEW n \in Names, GetName(d, n)
  PROVE  WorldInv'
<1> USE SessionAssumption DEF WorldInv, WorldTypes, Login, InGame
<1>1. /\ connected[d] = "get_name" /\ Open' = Open
      /\ \E c \in Bodies :
           /\ name[c] = NULL /\ name' = [name EXCEPT ![c] = n]
           /\ desc' = [desc EXCEPT ![c] = d]
           /\ character' = [character EXCEPT ![d] = c]
           /\ switched' = switched \ {c} /\ blank' \subseteq blank \cup {c}
      /\ \E state \in {"new", "old_password"} :
           connected' = [connected EXCEPT ![d] = state]
      /\ UNCHANGED <<original, char_list>>
  BY DEF GetName, Input, Served, Open
<1>2. WorldTypes'
  BY <1>1 DEF StateFits, DescAgrees
<1>3. FreeUnused'
  BY <1>1 DEF FreeUnused, LeftBehind, DescAgrees
<1>4. StateFits'
  BY <1>1 DEF FreeUnused, StateFits, DescAgrees, LoginUnlisted, FreeBodies, LeftBehind, InGameListed
<1>5. LeftBehind'
  BY <1>1 DEF FreeUnused, StateFits, DescAgrees, LoginUnlisted, FreeBodies, LeftBehind, BodyToReturnTo
<1>6. DescAgrees'
  BY <1>1 DEF FreeUnused, StateFits, DescAgrees, LoginUnlisted, FreeBodies, LeftBehind
<1>7. LoginUnlisted'
  BY <1>1 DEF FreeUnused, StateFits, DescAgrees, LoginUnlisted, FreeBodies, LeftBehind, InGameListed
<1>8. ListedOrLogin'
  BY <1>1 DEF FreeUnused, StateFits, DescAgrees, LoginUnlisted, FreeBodies, LeftBehind, ListedOrLogin
<1>9. InGameListed'
  BY <1>1 DEF FreeUnused, StateFits, DescAgrees, LoginUnlisted, FreeBodies, LeftBehind, InGameListed, BodyToReturnTo
<1>10. BodyToReturnTo'
  BY <1>1 DEF FreeUnused, StateFits, DescAgrees, LoginUnlisted, FreeBodies, LeftBehind, InGameListed, BodyToReturnTo
<1>11. FreeBodies'
  BY <1>1 DEF FreeUnused, StateFits, DescAgrees, LoginUnlisted, FreeBodies, LeftBehind, BodyToReturnTo
<1>12. OnlyImmortals'
  BY <1>1 DEF OnlyImmortals, DescAgrees, FreeBodies, StateFits, FilesInv
<1>13. QED
  BY <1>2, <1>3, <1>4, <1>5, <1>6, <1>7, <1>8, <1>9, <1>10, <1>11, <1>12

LEMMA ReconnectKeeps ==
  ASSUME WorldInv, NEW d \in Desc, Reconnect(d)
  PROVE  WorldInv'
<1> USE SessionAssumption DEF WorldInv, WorldTypes, Login, InGame
<1>1. /\ connected[d] = "old_password" /\ Open' = Open
      /\ connected' = [connected EXCEPT ![d] = "playing"]
      /\ \E c \in (char_list \cap Bodies) \ switched :
           /\ desc[c] = NULL /\ name[c] # NULL
           /\ character' = [character EXCEPT ![d] = c]
           /\ desc' = [desc EXCEPT ![character[d]] = NULL, ![c] = d]
      /\ name' = [name EXCEPT ![character[d]] = NULL]
      /\ blank' = blank \ {character[d]}
      /\ UNCHANGED <<original, char_list, switched>>
  BY DEF Reconnect, Input, Served, Open, LinkDead, Playing, FreeBodies
<1>2. WorldTypes'
  BY <1>1 DEF StateFits, DescAgrees
<1>3. FreeUnused'
  BY <1>1 DEF FreeUnused, LeftBehind, DescAgrees
<1>4. StateFits'
  BY <1>1 DEF FreeUnused, StateFits, DescAgrees, LoginUnlisted, FreeBodies, LeftBehind, InGameListed
<1>5. LeftBehind'
  BY <1>1 DEF FreeUnused, StateFits, DescAgrees, LoginUnlisted, FreeBodies, LeftBehind, BodyToReturnTo
<1>6. DescAgrees'
  BY <1>1 DEF FreeUnused, StateFits, DescAgrees, LoginUnlisted, FreeBodies, LeftBehind
<1>7. LoginUnlisted'
  BY <1>1 DEF FreeUnused, StateFits, DescAgrees, LoginUnlisted, FreeBodies, LeftBehind, InGameListed
<1>8. ListedOrLogin'
  BY <1>1 DEF FreeUnused, StateFits, DescAgrees, LoginUnlisted, FreeBodies, LeftBehind, ListedOrLogin
<1>9. InGameListed'
  BY <1>1 DEF FreeUnused, StateFits, DescAgrees, LoginUnlisted, FreeBodies, LeftBehind, InGameListed, BodyToReturnTo
<1>10. BodyToReturnTo'
  BY <1>1 DEF FreeUnused, StateFits, DescAgrees, LoginUnlisted, FreeBodies, LeftBehind, InGameListed, BodyToReturnTo
<1>11. FreeBodies'
  BY <1>1 DEF FreeUnused, StateFits, DescAgrees, LoginUnlisted, FreeBodies, LeftBehind, BodyToReturnTo
<1>12. OnlyImmortals'
  BY <1>1 DEF OnlyImmortals, DescAgrees, FreeBodies, StateFits, FilesInv
<1>13. QED
  BY <1>2, <1>3, <1>4, <1>5, <1>6, <1>7, <1>8, <1>9, <1>10, <1>11, <1>12

TakeOverFrom(d, e) ==
  /\ connected[d] = "old_password"
  /\ e \in InUse(d)
  /\ connected' = [connected EXCEPT ![d] = connected[e], ![e] = "free"]
  /\ character' = [character EXCEPT ![d] = character[e], ![e] = NULL]
  /\ original' = [original EXCEPT ![e] = NULL]
  /\ desc' = [desc EXCEPT ![character[d]] = NULL, ![character[e]] = d]
  /\ descriptor_list' = Without(e)
  /\ name' = [name EXCEPT ![character[d]] = NULL]
  /\ blank' = blank \ {character[d]}
  /\ UNCHANGED <<char_list, switched>>

LEMMA TakeOverKeeps ==
  ASSUME WorldInv, ListInv, NEW d \in Desc, NEW e \in Open, TakeOverFrom(d, e)
  PROVE  WorldInv'
<1> USE SessionAssumption DEF WorldInv, WorldTypes, Login, InGame
<1>1. /\ connected[d] = "old_password" /\ e \in Desc /\ e # d /\ character[e] # NULL
      /\ connected[e] \notin {"get_name", "old_password"}
      /\ Open' = Open \ {e}
      /\ connected' = [connected EXCEPT ![d] = connected[e], ![e] = "free"]
      /\ character' = [character EXCEPT ![d] = character[e], ![e] = NULL]
      /\ original' = [original EXCEPT ![e] = NULL]
      /\ desc' = [desc EXCEPT ![character[d]] = NULL, ![character[e]] = d]
      /\ name' = [name EXCEPT ![character[d]] = NULL]
      /\ blank' = blank \ {character[d]}
      /\ UNCHANGED <<char_list, switched>>
  BY PlaceOf, Unlinking DEF TakeOverFrom, InUse, InUseBy
<1>2. WorldTypes'
  BY <1>1 DEF StateFits, DescAgrees
<1>3. FreeUnused'
  BY <1>1 DEF FreeUnused, LeftBehind, DescAgrees
<1>4. StateFits'
  BY <1>1 DEF FreeUnused, StateFits, DescAgrees, LoginUnlisted, FreeBodies, LeftBehind, InGameListed
<1>5. LeftBehind'
  BY <1>1 DEF FreeUnused, StateFits, DescAgrees, LoginUnlisted, FreeBodies, LeftBehind, BodyToReturnTo
<1>6. DescAgrees'
  BY <1>1 DEF FreeUnused, StateFits, DescAgrees, LoginUnlisted, FreeBodies, LeftBehind
<1>7. LoginUnlisted'
  BY <1>1 DEF FreeUnused, StateFits, DescAgrees, LoginUnlisted, FreeBodies, LeftBehind, InGameListed
<1>8. ListedOrLogin'
  BY <1>1 DEF FreeUnused, StateFits, DescAgrees, LoginUnlisted, FreeBodies, LeftBehind, ListedOrLogin
<1>9. InGameListed'
  BY <1>1 DEF FreeUnused, StateFits, DescAgrees, LoginUnlisted, FreeBodies, LeftBehind, InGameListed, BodyToReturnTo
<1>10. BodyToReturnTo'
  BY <1>1 DEF FreeUnused, StateFits, DescAgrees, LoginUnlisted, FreeBodies, LeftBehind, InGameListed, BodyToReturnTo
<1>11. FreeBodies'
  BY <1>1 DEF FreeUnused, StateFits, DescAgrees, LoginUnlisted, FreeBodies, LeftBehind, BodyToReturnTo
<1>12. OnlyImmortals'
  BY <1>1 DEF OnlyImmortals, DescAgrees, FreeBodies, StateFits, FilesInv
<1>13. QED
  BY <1>2, <1>3, <1>4, <1>5, <1>6, <1>7, <1>8, <1>9, <1>10, <1>11, <1>12

LEMMA PasswordOkKeeps ==
  ASSUME WorldInv, FilesInv, NEW d \in Desc, PasswordOk(d)
  PROVE  WorldInv'
<1> USE SessionAssumption DEF WorldInv, WorldTypes, Login, InGame
<1>1. /\ connected[d] = "old_password" /\ Open' = Open
      /\ connected' = [connected EXCEPT ![d] = "motd"]
      /\ \/ switched' = switched
         \/ switched' = switched \cup {character[d]} /\ name[character[d]] \in flagged
      /\ UNCHANGED <<character, original, desc, name, char_list, blank>>
  BY DEF PasswordOk, Input, Served, Open, links
<1>2. WorldTypes'
  BY <1>1 DEF StateFits, DescAgrees
<1>3. FreeUnused'
  BY <1>1 DEF FreeUnused, LeftBehind, DescAgrees
<1>4. StateFits'
  BY <1>1 DEF FreeUnused, StateFits, DescAgrees, LoginUnlisted, FreeBodies, LeftBehind, InGameListed
<1>5. LeftBehind'
  BY <1>1 DEF FreeUnused, StateFits, DescAgrees, LoginUnlisted, FreeBodies, LeftBehind, BodyToReturnTo
<1>6. DescAgrees'
  BY <1>1 DEF FreeUnused, StateFits, DescAgrees, LoginUnlisted, FreeBodies, LeftBehind
<1>7. LoginUnlisted'
  BY <1>1 DEF FreeUnused, StateFits, DescAgrees, LoginUnlisted, FreeBodies, LeftBehind, InGameListed
<1>8. ListedOrLogin'
  BY <1>1 DEF FreeUnused, StateFits, DescAgrees, LoginUnlisted, FreeBodies, LeftBehind, ListedOrLogin
<1>9. InGameListed'
  BY <1>1 DEF FreeUnused, StateFits, DescAgrees, LoginUnlisted, FreeBodies, LeftBehind, InGameListed, BodyToReturnTo
<1>10. BodyToReturnTo'
  BY <1>1 DEF FreeUnused, StateFits, DescAgrees, LoginUnlisted, FreeBodies, LeftBehind, InGameListed, BodyToReturnTo
<1>11. FreeBodies'
  BY <1>1 DEF FreeUnused, StateFits, DescAgrees, LoginUnlisted, FreeBodies, LeftBehind, BodyToReturnTo
<1>12. OnlyImmortals'
  BY <1>1 DEF OnlyImmortals, DescAgrees, FreeBodies, StateFits, FilesInv
<1>13. QED
  BY <1>2, <1>3, <1>4, <1>5, <1>6, <1>7, <1>8, <1>9, <1>10, <1>11, <1>12

LEMMA NewPlayerKeeps ==
  ASSUME WorldInv, NEW d \in Desc, NewPlayer(d)
  PROVE  WorldInv'
<1> USE SessionAssumption DEF WorldInv, WorldTypes, Login, InGame
<1>1. /\ connected[d] = "new" /\ Open' = Open
      /\ \/ /\ connected' = [connected EXCEPT ![d] = "motd"]
            /\ UNCHANGED <<name, character, desc, blank>>
         \/ /\ connected' = [connected EXCEPT ![d] = "get_name"]
            /\ name' = [name EXCEPT ![character[d]] = NULL]
            /\ desc' = [desc EXCEPT ![character[d]] = NULL]
            /\ character' = [character EXCEPT ![d] = NULL]
            /\ blank' = blank \ {character[d]}
      /\ UNCHANGED <<original, char_list, switched>>
  BY DEF NewPlayer, Input, Served, Open, links
<1>2. WorldTypes'
  BY <1>1 DEF StateFits, DescAgrees
<1>3. FreeUnused'
  BY <1>1 DEF FreeUnused, LeftBehind, DescAgrees
<1>4. StateFits'
  BY <1>1 DEF FreeUnused, StateFits, DescAgrees, LoginUnlisted, FreeBodies, LeftBehind, InGameListed
<1>5. LeftBehind'
  BY <1>1 DEF FreeUnused, StateFits, DescAgrees, LoginUnlisted, FreeBodies, LeftBehind, BodyToReturnTo
<1>6. DescAgrees'
  BY <1>1 DEF FreeUnused, StateFits, DescAgrees, LoginUnlisted, FreeBodies, LeftBehind
<1>7. LoginUnlisted'
  BY <1>1 DEF FreeUnused, StateFits, DescAgrees, LoginUnlisted, FreeBodies, LeftBehind, InGameListed
<1>8. ListedOrLogin'
  BY <1>1 DEF FreeUnused, StateFits, DescAgrees, LoginUnlisted, FreeBodies, LeftBehind, ListedOrLogin
<1>9. InGameListed'
  BY <1>1 DEF FreeUnused, StateFits, DescAgrees, LoginUnlisted, FreeBodies, LeftBehind, InGameListed, BodyToReturnTo
<1>10. BodyToReturnTo'
  BY <1>1 DEF FreeUnused, StateFits, DescAgrees, LoginUnlisted, FreeBodies, LeftBehind, InGameListed, BodyToReturnTo
<1>11. FreeBodies'
  BY <1>1 DEF FreeUnused, StateFits, DescAgrees, LoginUnlisted, FreeBodies, LeftBehind, BodyToReturnTo
<1>12. OnlyImmortals'
  BY <1>1 DEF OnlyImmortals, DescAgrees, FreeBodies, StateFits, FilesInv
<1>13. QED
  BY <1>2, <1>3, <1>4, <1>5, <1>6, <1>7, <1>8, <1>9, <1>10, <1>11, <1>12

LEMMA ReadMotdKeeps ==
  ASSUME WorldInv, NEW d \in Desc, ReadMotd(d)
  PROVE  WorldInv'
<1> USE SessionAssumption DEF WorldInv, WorldTypes, Login, InGame
<1>1. /\ connected[d] = "motd" /\ Open' = Open
      /\ connected' = [connected EXCEPT ![d] = "playing"]
      /\ char_list' = char_list \cup {character[d]}
      /\ blank' = blank \ {character[d]}
      /\ UNCHANGED <<character, original, desc, name, switched>>
  BY DEF ReadMotd, Input, Served, Open, links
<1>2. WorldTypes'
  BY <1>1 DEF StateFits, DescAgrees
<1>3. FreeUnused'
  BY <1>1 DEF FreeUnused, LeftBehind, DescAgrees
<1>4. StateFits'
  BY <1>1 DEF FreeUnused, StateFits, DescAgrees, LoginUnlisted, FreeBodies, LeftBehind, InGameListed
<1>5. LeftBehind'
  BY <1>1 DEF FreeUnused, StateFits, DescAgrees, LoginUnlisted, FreeBodies, LeftBehind, BodyToReturnTo
<1>6. DescAgrees'
  BY <1>1 DEF FreeUnused, StateFits, DescAgrees, LoginUnlisted, FreeBodies, LeftBehind
<1>7. LoginUnlisted'
  BY <1>1 DEF FreeUnused, StateFits, DescAgrees, LoginUnlisted, FreeBodies, LeftBehind, InGameListed
<1>8. ListedOrLogin'
  BY <1>1 DEF FreeUnused, StateFits, DescAgrees, LoginUnlisted, FreeBodies, LeftBehind, ListedOrLogin
<1>9. InGameListed'
  BY <1>1 DEF FreeUnused, StateFits, DescAgrees, LoginUnlisted, FreeBodies, LeftBehind, InGameListed, BodyToReturnTo
<1>10. BodyToReturnTo'
  BY <1>1 DEF FreeUnused, StateFits, DescAgrees, LoginUnlisted, FreeBodies, LeftBehind, InGameListed, BodyToReturnTo
<1>11. FreeBodies'
  BY <1>1 DEF FreeUnused, StateFits, DescAgrees, LoginUnlisted, FreeBodies, LeftBehind, BodyToReturnTo
<1>12. OnlyImmortals'
  BY <1>1 DEF OnlyImmortals, DescAgrees, FreeBodies, StateFits, FilesInv
<1>13. QED
  BY <1>2, <1>3, <1>4, <1>5, <1>6, <1>7, <1>8, <1>9, <1>10, <1>11, <1>12

LEMMA EditKeeps ==
  ASSUME WorldInv, NEW d \in Desc, Edit(d)
  PROVE  WorldInv'
<1> USE SessionAssumption DEF WorldInv, WorldTypes, Login, InGame
<1>1. /\ connected[d] \in InGame /\ character[d] \in Bodies /\ Open' = Open
      /\ \E state \in InGame : connected' = [connected EXCEPT ![d] = state]
      /\ UNCHANGED <<character, original, desc, name, char_list, switched, blank>>
  BY DEF Edit, Input, Served, Open, links
<1>2. WorldTypes'
  BY <1>1 DEF StateFits, DescAgrees
<1>3. FreeUnused'
  BY <1>1 DEF FreeUnused, LeftBehind, DescAgrees
<1>4. StateFits'
  BY <1>1 DEF FreeUnused, StateFits, DescAgrees, LoginUnlisted, FreeBodies, LeftBehind, InGameListed
<1>5. LeftBehind'
  BY <1>1 DEF FreeUnused, StateFits, DescAgrees, LoginUnlisted, FreeBodies, LeftBehind, BodyToReturnTo
<1>6. DescAgrees'
  BY <1>1 DEF FreeUnused, StateFits, DescAgrees, LoginUnlisted, FreeBodies, LeftBehind
<1>7. LoginUnlisted'
  BY <1>1 DEF FreeUnused, StateFits, DescAgrees, LoginUnlisted, FreeBodies, LeftBehind, InGameListed
<1>8. ListedOrLogin'
  BY <1>1 DEF FreeUnused, StateFits, DescAgrees, LoginUnlisted, FreeBodies, LeftBehind, ListedOrLogin
<1>9. InGameListed'
  BY <1>1 DEF FreeUnused, StateFits, DescAgrees, LoginUnlisted, FreeBodies, LeftBehind, InGameListed, BodyToReturnTo
<1>10. BodyToReturnTo'
  BY <1>1 DEF FreeUnused, StateFits, DescAgrees, LoginUnlisted, FreeBodies, LeftBehind, InGameListed, BodyToReturnTo
<1>11. FreeBodies'
  BY <1>1 DEF FreeUnused, StateFits, DescAgrees, LoginUnlisted, FreeBodies, LeftBehind, BodyToReturnTo
<1>12. OnlyImmortals'
  BY <1>1 DEF OnlyImmortals, DescAgrees, FreeBodies, StateFits, FilesInv
<1>13. QED
  BY <1>2, <1>3, <1>4, <1>5, <1>6, <1>7, <1>8, <1>9, <1>10, <1>11, <1>12

LEMMA SwitchKeeps ==
  ASSUME WorldInv, NEW d \in Desc, NEW m \in Mobs, Switch(d, m)
  PROVE  WorldInv'
<1> USE SessionAssumption DEF WorldInv, WorldTypes, Login, InGame
<1>1. /\ connected[d] = "playing" /\ Open' = Open
      /\ character[d] \in Bodies /\ name[character[d]] \in Immortals
      /\ original[d] = NULL /\ m \in char_list /\ desc[m] = NULL
      /\ switched' = switched \cup {character[d]}
      /\ character' = [character EXCEPT ![d] = m]
      /\ original' = [original EXCEPT ![d] = character[d]]
      /\ desc' = [desc EXCEPT ![m] = d, ![character[d]] = NULL]
      /\ UNCHANGED <<connected, name, char_list, blank>>
  BY DEF Switch, Input, Served, Open
<1>2. WorldTypes'
  BY <1>1 DEF StateFits, DescAgrees
<1>3. FreeUnused'
  BY <1>1 DEF FreeUnused, LeftBehind, DescAgrees
<1>4. StateFits'
  BY <1>1 DEF FreeUnused, StateFits, DescAgrees, LoginUnlisted, FreeBodies, LeftBehind, InGameListed
<1>5. LeftBehind'
  BY <1>1 DEF FreeUnused, StateFits, DescAgrees, LoginUnlisted, FreeBodies, LeftBehind, BodyToReturnTo
<1>6. DescAgrees'
  BY <1>1 DEF FreeUnused, StateFits, DescAgrees, LoginUnlisted, FreeBodies, LeftBehind
<1>7. LoginUnlisted'
  BY <1>1 DEF FreeUnused, StateFits, DescAgrees, LoginUnlisted, FreeBodies, LeftBehind, InGameListed
<1>8. ListedOrLogin'
  BY <1>1 DEF FreeUnused, StateFits, DescAgrees, LoginUnlisted, FreeBodies, LeftBehind, ListedOrLogin
<1>9. InGameListed'
  BY <1>1 DEF FreeUnused, StateFits, DescAgrees, LoginUnlisted, FreeBodies, LeftBehind, InGameListed, BodyToReturnTo
<1>10. BodyToReturnTo'
  BY <1>1 DEF FreeUnused, StateFits, DescAgrees, LoginUnlisted, FreeBodies, LeftBehind, InGameListed, BodyToReturnTo
<1>11. FreeBodies'
  BY <1>1 DEF FreeUnused, StateFits, DescAgrees, LoginUnlisted, FreeBodies, LeftBehind, BodyToReturnTo
<1>12. OnlyImmortals'
  BY <1>1 DEF OnlyImmortals, DescAgrees, FreeBodies, StateFits, FilesInv
<1>13. QED
  BY <1>2, <1>3, <1>4, <1>5, <1>6, <1>7, <1>8, <1>9, <1>10, <1>11, <1>12

LEMMA ReturnKeeps ==
  ASSUME WorldInv, NEW c \in Mobs, desc[c] # NULL, original[desc[c]] # NULL, Returned(c),
         char_list' \in {char_list, char_list \ {c}}, Open' = Open,
         UNCHANGED <<connected, name, blank>>
  PROVE  WorldInv'
<1> USE SessionAssumption DEF WorldInv, WorldTypes, Login, InGame
<1>1. /\ Open' = Open /\ desc[c] \in Desc /\ original[desc[c]] \in Bodies
      /\ switched' = switched \ {original[desc[c]]}
      /\ character' = [character EXCEPT ![desc[c]] = original[desc[c]]]
      /\ desc' = [desc EXCEPT ![original[desc[c]]] = desc[c], ![c] = NULL]
      /\ original' = [original EXCEPT ![desc[c]] = NULL]
  BY DEF Returned
<1>2. WorldTypes'
  BY <1>1 DEF StateFits, DescAgrees
<1>3. FreeUnused'
  BY <1>1 DEF FreeUnused, LeftBehind, DescAgrees
<1>4. StateFits'
  BY <1>1 DEF FreeUnused, StateFits, DescAgrees, LoginUnlisted, FreeBodies, LeftBehind, InGameListed
<1>5. LeftBehind'
  BY <1>1 DEF FreeUnused, StateFits, DescAgrees, LoginUnlisted, FreeBodies, LeftBehind, BodyToReturnTo
<1>6. DescAgrees'
  BY <1>1 DEF FreeUnused, StateFits, DescAgrees, LoginUnlisted, FreeBodies, LeftBehind
<1>7. LoginUnlisted'
  BY <1>1 DEF FreeUnused, StateFits, DescAgrees, LoginUnlisted, FreeBodies, LeftBehind, InGameListed
<1>8. ListedOrLogin'
  BY <1>1 DEF FreeUnused, StateFits, DescAgrees, LoginUnlisted, FreeBodies, LeftBehind, ListedOrLogin
<1>9. InGameListed'
  BY <1>1 DEF FreeUnused, StateFits, DescAgrees, LoginUnlisted, FreeBodies, LeftBehind, InGameListed, BodyToReturnTo
<1>10. BodyToReturnTo'
  BY <1>1 DEF FreeUnused, StateFits, DescAgrees, LoginUnlisted, FreeBodies, LeftBehind, InGameListed, BodyToReturnTo
<1>11. FreeBodies'
  BY <1>1 DEF FreeUnused, StateFits, DescAgrees, LoginUnlisted, FreeBodies, LeftBehind, BodyToReturnTo
<1>12. OnlyImmortals'
  BY <1>1 DEF OnlyImmortals, DescAgrees, FreeBodies, StateFits, FilesInv
<1>13. QED
  BY <1>2, <1>3, <1>4, <1>5, <1>6, <1>7, <1>8, <1>9, <1>10, <1>11, <1>12

LEMMA LeaveKeeps ==
  ASSUME WorldInv, NEW c \in Mobs, Open' = Open,
         char_list' = char_list \ {c},
         \/ desc[c] = NULL /\ UNCHANGED <<character, desc, original, switched>>
         \/ /\ desc[c] # NULL /\ original[desc[c]] = NULL
            /\ character' = [character EXCEPT ![desc[c]] = NULL]
            /\ desc' = [desc EXCEPT ![c] = NULL]
            /\ UNCHANGED <<original, switched>>,
         UNCHANGED <<connected, name, blank>>
  PROVE  WorldInv'
<1> USE SessionAssumption DEF WorldInv, WorldTypes, Login, InGame
<1>1. Open' = Open
  OBVIOUS
<1>2. WorldTypes'
  BY <1>1 DEF StateFits, DescAgrees
<1>3. FreeUnused'
  BY <1>1 DEF FreeUnused, LeftBehind, DescAgrees
<1>4. StateFits'
  BY <1>1 DEF FreeUnused, StateFits, DescAgrees, LoginUnlisted, FreeBodies, LeftBehind, InGameListed
<1>5. LeftBehind'
  BY <1>1 DEF FreeUnused, StateFits, DescAgrees, LoginUnlisted, FreeBodies, LeftBehind, BodyToReturnTo
<1>6. DescAgrees'
  BY <1>1 DEF FreeUnused, StateFits, DescAgrees, LoginUnlisted, FreeBodies, LeftBehind
<1>7. LoginUnlisted'
  BY <1>1 DEF FreeUnused, StateFits, DescAgrees, LoginUnlisted, FreeBodies, LeftBehind, InGameListed
<1>8. ListedOrLogin'
  BY <1>1 DEF FreeUnused, StateFits, DescAgrees, LoginUnlisted, FreeBodies, LeftBehind, ListedOrLogin
<1>9. InGameListed'
  BY <1>1 DEF FreeUnused, StateFits, DescAgrees, LoginUnlisted, FreeBodies, LeftBehind, InGameListed, BodyToReturnTo
<1>10. BodyToReturnTo'
  BY <1>1 DEF FreeUnused, StateFits, DescAgrees, LoginUnlisted, FreeBodies, LeftBehind, InGameListed, BodyToReturnTo
<1>11. FreeBodies'
  BY <1>1 DEF FreeUnused, StateFits, DescAgrees, LoginUnlisted, FreeBodies, LeftBehind, BodyToReturnTo
<1>12. OnlyImmortals'
  BY <1>1 DEF OnlyImmortals, DescAgrees, FreeBodies, StateFits, FilesInv
<1>13. QED
  BY <1>2, <1>3, <1>4, <1>5, <1>6, <1>7, <1>8, <1>9, <1>10, <1>11, <1>12

LEMMA MobAppearsKeeps ==
  ASSUME WorldInv, NEW m \in Mobs, MobAppears(m)
  PROVE  WorldInv'
<1> USE SessionAssumption DEF WorldInv, WorldTypes, Login, InGame
<1>1. /\ Open' = Open /\ char_list' = char_list \cup {m}
      /\ UNCHANGED <<connected, character, original, desc, name, switched, blank>>
  BY DEF MobAppears, Open, links
<1>2. WorldTypes'
  BY <1>1 DEF StateFits, DescAgrees
<1>3. FreeUnused'
  BY <1>1 DEF FreeUnused, LeftBehind, DescAgrees
<1>4. StateFits'
  BY <1>1 DEF FreeUnused, StateFits, DescAgrees, LoginUnlisted, FreeBodies, LeftBehind, InGameListed
<1>5. LeftBehind'
  BY <1>1 DEF FreeUnused, StateFits, DescAgrees, LoginUnlisted, FreeBodies, LeftBehind, BodyToReturnTo
<1>6. DescAgrees'
  BY <1>1 DEF FreeUnused, StateFits, DescAgrees, LoginUnlisted, FreeBodies, LeftBehind
<1>7. LoginUnlisted'
  BY <1>1 DEF FreeUnused, StateFits, DescAgrees, LoginUnlisted, FreeBodies, LeftBehind, InGameListed
<1>8. ListedOrLogin'
  BY <1>1 DEF FreeUnused, StateFits, DescAgrees, LoginUnlisted, FreeBodies, LeftBehind, ListedOrLogin
<1>9. InGameListed'
  BY <1>1 DEF FreeUnused, StateFits, DescAgrees, LoginUnlisted, FreeBodies, LeftBehind, InGameListed, BodyToReturnTo
<1>10. BodyToReturnTo'
  BY <1>1 DEF FreeUnused, StateFits, DescAgrees, LoginUnlisted, FreeBodies, LeftBehind, InGameListed, BodyToReturnTo
<1>11. FreeBodies'
  BY <1>1 DEF FreeUnused, StateFits, DescAgrees, LoginUnlisted, FreeBodies, LeftBehind, BodyToReturnTo
<1>12. OnlyImmortals'
  BY <1>1 DEF OnlyImmortals, DescAgrees, FreeBodies, StateFits, FilesInv
<1>13. QED
  BY <1>2, <1>3, <1>4, <1>5, <1>6, <1>7, <1>8, <1>9, <1>10, <1>11, <1>12

LEMMA WorldSame ==
  ASSUME WorldInv, UNCHANGED world
  PROVE  WorldInv'
<1> USE SessionAssumption DEF WorldInv, WorldTypes, Login, InGame
<1>1. /\ Open' = Open
      /\ UNCHANGED <<connected, character, original, desc, name, char_list, switched, blank>>
  BY DEF world, links, Open
<1>2. WorldTypes'
  BY <1>1 DEF StateFits, DescAgrees
<1>3. FreeUnused'
  BY <1>1 DEF FreeUnused, LeftBehind, DescAgrees
<1>4. StateFits'
  BY <1>1 DEF FreeUnused, StateFits, DescAgrees, LoginUnlisted, FreeBodies, LeftBehind, InGameListed
<1>5. LeftBehind'
  BY <1>1 DEF FreeUnused, StateFits, DescAgrees, LoginUnlisted, FreeBodies, LeftBehind, BodyToReturnTo
<1>6. DescAgrees'
  BY <1>1 DEF FreeUnused, StateFits, DescAgrees, LoginUnlisted, FreeBodies, LeftBehind
<1>7. LoginUnlisted'
  BY <1>1 DEF FreeUnused, StateFits, DescAgrees, LoginUnlisted, FreeBodies, LeftBehind, InGameListed
<1>8. ListedOrLogin'
  BY <1>1 DEF FreeUnused, StateFits, DescAgrees, LoginUnlisted, FreeBodies, LeftBehind, ListedOrLogin
<1>9. InGameListed'
  BY <1>1 DEF FreeUnused, StateFits, DescAgrees, LoginUnlisted, FreeBodies, LeftBehind, InGameListed, BodyToReturnTo
<1>10. BodyToReturnTo'
  BY <1>1 DEF FreeUnused, StateFits, DescAgrees, LoginUnlisted, FreeBodies, LeftBehind, InGameListed, BodyToReturnTo
<1>11. FreeBodies'
  BY <1>1 DEF FreeUnused, StateFits, DescAgrees, LoginUnlisted, FreeBodies, LeftBehind, BodyToReturnTo
<1>12. OnlyImmortals'
  BY <1>1 DEF OnlyImmortals, DescAgrees, FreeBodies, StateFits, FilesInv
<1>13. QED
  BY <1>2, <1>3, <1>4, <1>5, <1>6, <1>7, <1>8, <1>9, <1>10, <1>11, <1>12

LEMMA RebootKeeps ==
  ASSUME WorldInv, Reboot
  PROVE  WorldInv'
<1> USE SessionAssumption DEF WorldInv, WorldTypes, Login, InGame
<1>1. /\ Open' = {}
      /\ connected' = [d \in Desc |-> "free"]
      /\ character' = [d \in Desc |-> NULL] /\ original' = [d \in Desc |-> NULL]
      /\ desc' = [c \in Bodies \cup Mobs |-> NULL]
      /\ name' = [c \in Bodies |-> NULL]
      /\ char_list' = Mobs /\ switched' = {} /\ blank' = {}
  BY DEF Reboot, Open, ToSet
<1>2. WorldTypes'
  BY <1>1 DEF StateFits, DescAgrees
<1>3. FreeUnused'
  BY <1>1 DEF FreeUnused, LeftBehind, DescAgrees
<1>4. StateFits'
  BY <1>1 DEF FreeUnused, StateFits, DescAgrees, LoginUnlisted, FreeBodies, LeftBehind, InGameListed
<1>5. LeftBehind'
  BY <1>1 DEF FreeUnused, StateFits, DescAgrees, LoginUnlisted, FreeBodies, LeftBehind, BodyToReturnTo
<1>6. DescAgrees'
  BY <1>1 DEF FreeUnused, StateFits, DescAgrees, LoginUnlisted, FreeBodies, LeftBehind
<1>7. LoginUnlisted'
  BY <1>1 DEF FreeUnused, StateFits, DescAgrees, LoginUnlisted, FreeBodies, LeftBehind, InGameListed
<1>8. ListedOrLogin'
  BY <1>1 DEF FreeUnused, StateFits, DescAgrees, LoginUnlisted, FreeBodies, LeftBehind, ListedOrLogin
<1>9. InGameListed'
  BY <1>1 DEF FreeUnused, StateFits, DescAgrees, LoginUnlisted, FreeBodies, LeftBehind, InGameListed, BodyToReturnTo
<1>10. BodyToReturnTo'
  BY <1>1 DEF FreeUnused, StateFits, DescAgrees, LoginUnlisted, FreeBodies, LeftBehind, InGameListed, BodyToReturnTo
<1>11. FreeBodies'
  BY <1>1 DEF FreeUnused, StateFits, DescAgrees, LoginUnlisted, FreeBodies, LeftBehind, BodyToReturnTo
<1>12. OnlyImmortals'
  BY <1>1 DEF OnlyImmortals, DescAgrees, FreeBodies, StateFits, FilesInv
<1>13. QED
  BY <1>2, <1>3, <1>4, <1>5, <1>6, <1>7, <1>8, <1>9, <1>10, <1>11, <1>12

-----------------------------------------------------------------------------
(* Player files.                                                           *)
LEMMA NamedBody ==
  ASSUME WorldInv, NEW d \in Desc, character[d] \in Bodies
  PROVE  name[character[d]] \in Names
<1>1. desc[character[d]] = d /\ d # NULL
  BY SessionAssumption DEF WorldInv, DescAgrees
<1>2. QED
  BY <1>1 DEF WorldInv, WorldTypes, FreeBodies

LEMMA AutosaveKeeps ==
  ASSUME WorldInv, FilesInv, NEW c, c \in Bodies => name[c] \in Names, Autosave(c)
  PROVE  FilesInv'
<1>1. CASE UNCHANGED files
  BY <1>1 DEF files, FilesInv
<1>2. CASE /\ c \in Bodies /\ pfiles' = pfiles \cup {name[c]}
           /\ flagged' = IF c \in switched THEN flagged \cup {name[c]}
                         ELSE flagged \ {name[c]}
  <2>1. c \in switched => name[c] \in Immortals
    BY <1>2, SessionAssumption DEF WorldInv, OnlyImmortals
  <2>2. QED
    BY <1>2, <2>1 DEF FilesInv
<1>3. QED
  BY <1>1, <1>2 DEF Autosave

LEMMA RebootFiles ==
  ASSUME WorldInv, FilesInv, Reboot
  PROVE  FilesInv'
<1>1. /\ flagged' \subseteq pfiles /\ pfiles' = pfiles
      /\ \A n \in flagged' : n \in flagged \/ \E c \in switched : name[c] = n
  BY DEF Reboot
<1>2. \A n \in pfiles : n # NULL
  BY SessionAssumption DEF FilesInv
<1>3. QED
  BY <1>1, <1>2 DEF FilesInv, WorldInv, OnlyImmortals

-----------------------------------------------------------------------------
(* Every step.  Those that serve a descriptor and close none:              *)
LEMMA ServedKeeps ==
  ASSUME IInv, NEW d \in Desc, Served(d), WorldInv', UNCHANGED files
  PROVE  IInv'
<1>1. ListInv'
  BY DEF Served, IInv, ListInv
<1>2. WalkInv'
  BY GoOnOpen DEF IInv, Served
<1>3. FilesInv'
  BY DEF IInv, FilesInv, files
<1>4. QED
  BY <1>1, <1>2, <1>3 DEF IInv

LEMMA DialogueKeeps ==
  ASSUME IInv, NEW d \in Desc,
         \/ Nothing(d) \/ \E n \in Names : GetName(d, n)
         \/ Reconnect(d) \/ PasswordOk(d) \/ NewPlayer(d) \/ ReadMotd(d)
  PROVE  IInv'
<1>1. WorldInv /\ FilesInv
  BY DEF IInv
<1>2. CASE Nothing(d)
  BY <1>1, <1>2, ServedKeeps, WorldSame DEF Nothing
<1>3. ASSUME NEW n \in Names, GetName(d, n) PROVE IInv'
  BY <1>1, <1>3, ServedKeeps, GetNameKeeps DEF GetName, Input, files
<1>4. CASE Reconnect(d)
  BY <1>1, <1>4, ServedKeeps, ReconnectKeeps DEF Reconnect, Input, files
<1>5. CASE PasswordOk(d)
  BY <1>1, <1>5, ServedKeeps, PasswordOkKeeps DEF PasswordOk, Input, files
<1>6. CASE NewPlayer(d)
  BY <1>1, <1>6, ServedKeeps, NewPlayerKeeps DEF NewPlayer, Input, files
<1>7. CASE ReadMotd(d)
  BY <1>1, <1>7, ServedKeeps, ReadMotdKeeps DEF ReadMotd, Input, files
<1>8. QED
  BY <1>2, <1>3, <1>4, <1>5, <1>6, <1>7

LEMMA ExtractMobKeeps ==
  ASSUME WorldInv, NEW m \in Mobs, ExtractMob(m), Open' = Open
  PROVE  WorldInv'
<1>1. char_list' = char_list \ {m} /\ UNCHANGED <<connected, name, blank>>
  BY DEF ExtractMob
<1>2. CASE desc[m] = NULL
  BY <1>1, <1>2, LeaveKeeps DEF ExtractMob, links
<1>3. CASE desc[m] # NULL /\ original[desc[m]] # NULL
  BY <1>1, <1>3, ReturnKeeps DEF ExtractMob
<1>4. CASE desc[m] # NULL /\ original[desc[m]] = NULL
  BY <1>1, <1>4, LeaveKeeps DEF ExtractMob
<1>5. QED
  BY <1>2, <1>3, <1>4

LEMMA BodiesKeep ==
  ASSUME IInv, NEW d \in Desc,
         \/ Edit(d) \/ Return(d) \/ QuitAsMob(d)
         \/ \E m \in Mobs : Switch(d, m)
  PROVE  IInv'
<1>1. WorldInv /\ FilesInv
  BY DEF IInv
<1>2. CASE Edit(d)
  BY <1>1, <1>2, ServedKeeps, EditKeeps DEF Edit, Input, files
<1>3. CASE Return(d)
  <2>1. /\ Served(d) /\ original[d] # NULL /\ Returned(character[d]) /\ Open' = Open
        /\ UNCHANGED <<connected, name, char_list, blank, files>>
    BY <1>3 DEF Return, Input, Served, Open
  <2>2. character[d] \in Mobs /\ desc[character[d]] = d /\ d # NULL
    BY <1>1, <2>1, SessionAssumption DEF WorldInv, LeftBehind, DescAgrees
  <2>3. QED
    BY <1>1, <2>1, <2>2, ReturnKeeps, ServedKeeps
<1>4. CASE QuitAsMob(d)
  <2>1. Served(d) /\ character[d] \in Mobs /\ ExtractMob(character[d]) /\ Open' = Open
    BY <1>4 DEF QuitAsMob, Input, Served, Open
  <2>2. QED
    BY <1>1, <1>4, <2>1, ExtractMobKeeps, ServedKeeps DEF QuitAsMob
<1>5. ASSUME NEW m \in Mobs, Switch(d, m) PROVE IInv'
  BY <1>1, <1>5, ServedKeeps, SwitchKeeps DEF Switch, Input, files
<1>6. QED
  BY <1>2, <1>3, <1>4, <1>5

(* Those that close one:                                                   *)
LEMMA ClosedKeeps ==
  ASSUME IInv, NEW d \in Desc, Reached(d), NEW c \in Open, GoOn(d, c),
         descriptor_list' = Without(c), WorldInv', FilesInv'
  PROVE  IInv'
  BY GoOnClosed, Unlinking DEF IInv

LEMMA ClosesKeep ==
  ASSUME IInv, NEW d \in Desc,
         \/ LinkLost(d) \/ TurnedAway(d) \/ TakeOver(d) \/ Quit(d)
         \/ \E e \in Desc : Disconnect(d, e)
  PROVE  IInv'
<1>1. WorldInv /\ FilesInv /\ ListInv /\ WalkInv /\ Reached(d)
  BY DEF IInv, LinkLost, TurnedAway, TakeOver, Quit, Disconnect
<1>2. d \in Open
  BY <1>1 DEF Reached, WalkInv
<1>3. CASE LinkLost(d)
  <2>1. CloseSocket(d) /\ GoOn(d, d)
    BY <1>3 DEF LinkLost
  <2>2. FilesInv'
    <3>1. CASE UNCHANGED files
      BY <1>1, <3>1 DEF files, FilesInv
    <3>2. CASE Autosave(character[d])
      BY <1>1, <3>2, NamedBody, AutosaveKeeps
    <3>3. QED
      BY <1>3, <3>1, <3>2 DEF LinkLost
  <2>3. QED
    BY <1>1, <1>2, <2>1, <2>2, CloseSocketKeeps, ClosedKeeps DEF CloseSocket
<1>4. CASE TurnedAway(d)
  <2>1. CloseSocket(d) /\ GoOn(d, d) /\ FilesInv'
    BY <1>1, <1>4 DEF TurnedAway, files, FilesInv
  <2>2. QED
    BY <1>1, <1>2, <2>1, CloseSocketKeeps, ClosedKeeps DEF CloseSocket
<1>5. CASE TakeOver(d)
  <2>1. PICK e \in InUse(d) : TakeOverFrom(d, e) /\ GoOn(d, e)
    BY <1>5 DEF TakeOver, TakeOverFrom
  <2>2. e \in Open /\ FilesInv'
    BY <1>1, <1>5, <2>1 DEF InUse, TakeOver, files, FilesInv
  <2>3. descriptor_list' = Without(e)
    BY <2>1 DEF TakeOverFrom
  <2>4. QED
    BY <1>1, <2>1, <2>2, <2>3, TakeOverKeeps, ClosedKeeps
<1>6. CASE Quit(d)
  <2>1. /\ character[d] \in Bodies /\ connected[d] = "playing"
        /\ QuitGame(character[d]) /\ GoOn(d, d)
    BY <1>6 DEF Quit
  <2>2. desc[character[d]] = d /\ d # NULL
    BY <1>1, <2>1, SessionAssumption DEF WorldInv, DescAgrees
  <2>3. character[d] \in char_list /\ \A e \in Desc : original[e] # character[d]
    BY <1>1, <2>1, <2>2, SessionAssumption DEF WorldInv, InGameListed, InGame, LeftBehind
  <2>4. FilesInv'
    BY <1>1, <2>1, NamedBody, AutosaveKeeps DEF QuitGame
  <2>5. QED
    BY <1>1, <1>2, <2>1, <2>2, <2>3, <2>4, QuitKeeps, ClosedKeeps DEF QuitGame
<1>7. ASSUME NEW e \in Desc, Disconnect(d, e) PROVE IInv'
  <2>1. e \in Open /\ CloseSocket(e) /\ GoOn(d, e) /\ FilesInv'
    BY <1>1, <1>7 DEF Disconnect, files, FilesInv
  <2>2. QED
    BY <1>1, <2>1, CloseSocketKeeps, ClosedKeeps DEF CloseSocket
<1>8. QED
  BY <1>3, <1>4, <1>5, <1>6, <1>7

(* And those between the walks.                                            *)
LEMMA PollKeeps ==
  ASSUME IInv,
         \/ \E d \in Desc : NewDescriptor(d)
         \/ \E m \in Mobs : MobDies(m) \/ MobAppears(m)
         \/ \E c \in Bodies : IdleQuit(c) \/ Save(c)
         \/ Walk \/ EndWalk \/ Reboot \/ UNCHANGED vars
  PROVE  IInv'
<1>1. WorldInv /\ FilesInv /\ ListInv /\ WalkInv
  BY DEF IInv
<1>2. ASSUME NEW d \in Desc, NewDescriptor(d) PROVE IInv'
  <2>1. d \in Desc \ Open
    BY <1>1, <1>2 DEF NewDescriptor, WorldInv, FreeUnused
  <2>2. WalkInv' /\ FilesInv'
    BY <1>1, <1>2, PollSame DEF NewDescriptor, loop, files, FilesInv
  <2>3. QED
    BY <1>1, <1>2, <2>1, <2>2, NewDescriptorList, NewDescriptorKeeps DEF NewDescriptor, IInv
<1>3. ASSUME NEW m \in Mobs, MobDies(m) PROVE IInv'
  <2>1. ListInv' /\ Open' = Open /\ WalkInv' /\ FilesInv'
    BY <1>1, <1>3, PollSame DEF MobDies, loop, files, FilesInv, ListInv, Open
  <2>2. QED
    BY <1>1, <1>3, <2>1, ExtractMobKeeps DEF MobDies, IInv
<1>4. ASSUME NEW m \in Mobs, MobAppears(m) PROVE IInv'
  <2>1. ListInv' /\ WalkInv' /\ FilesInv'
    BY <1>1, <1>4, PollSame DEF MobAppears, loop, files, FilesInv, ListInv
  <2>2. QED
    BY <1>1, <1>4, <2>1, MobAppearsKeeps DEF IInv
<1>5. ASSUME NEW c \in Bodies, IdleQuit(c) PROVE IInv'
  <2>1. /\ c \in char_list /\ name[c] \notin Immortals /\ QuitGame(c)
        /\ at = "poll" /\ UNCHANGED loop
    BY <1>5 DEF IdleQuit
  <2>2. name[c] # NULL
    BY <1>1, <2>1 DEF WorldInv, FreeBodies
  <2>3. \A e \in Desc : original[e] # c
    BY <1>1, <2>1, <2>2, SessionAssumption DEF WorldInv, BodyToReturnTo, OnlyImmortals
  <2>4. WorldInv'
    BY <1>1, <2>1, <2>3, QuitKeeps
  <2>5. FilesInv'
    BY <1>1, <2>1, <2>2, AutosaveKeeps DEF QuitGame, WorldInv, WorldTypes
  <2>6. ListInv'
    <3>1. CASE desc[c] \in Open
      BY <1>1, <2>1, <3>1, Unlinking DEF QuitGame
    <3>2. CASE desc[c] \notin Open
      BY <1>1, <2>1, <3>2 DEF QuitGame, Without, ListInv
    <3>3. QED
      BY <3>1, <3>2
  <2>7. WalkInv'
    BY <1>1, <2>1, PollSame DEF loop
  <2>8. QED
    BY <2>4, <2>5, <2>6, <2>7 DEF IInv
<1>6. ASSUME NEW c \in Bodies, Save(c) PROVE IInv'
  <2>1. Autosave(c) /\ c \in char_list /\ UNCHANGED world /\ UNCHANGED loop
    BY <1>6 DEF Save
  <2>2. name[c] \in Names
    BY <1>1, <2>1 DEF WorldInv, WorldTypes, FreeBodies
  <2>3. FilesInv' /\ WorldInv'
    BY <1>1, <2>1, <2>2, AutosaveKeeps, WorldSame
  <2>4. ListInv' /\ WalkInv'
    BY <1>1, <2>1, WalkSame DEF world, loop, ListInv
  <2>5. QED
    BY <2>3, <2>4 DEF IInv
<1>7. CASE Walk
  BY <1>1, <1>7, WalkBegins, WorldSame DEF Walk, world, files, FilesInv, ListInv, IInv
<1>8. CASE EndWalk
  BY <1>1, <1>8, WalkEnds, WorldSame DEF EndWalk, world, files, FilesInv, ListInv, IInv
<1>9. CASE Reboot
  <2>1. /\ descriptor_list' = <<>> /\ at' = "poll" /\ d_next' = NULL /\ unserved' = {}
    BY <1>9 DEF Reboot
  <2>2. ListInv' /\ WalkInv'
    BY <2>1 DEF ListInv, IsInjective, WalkInv, Ahead
  <2>3. QED
    BY <1>1, <1>9, <2>2, RebootKeeps, RebootFiles DEF IInv
<1>10. CASE UNCHANGED vars
  <2>1. UNCHANGED world /\ UNCHANGED files /\ UNCHANGED loop
    BY <1>10 DEF vars
  <2>2. QED
    BY <1>1, <2>1, WalkSame, WorldSame DEF world, loop, files, FilesInv, ListInv, IInv
<1>11. QED
  BY <1>2, <1>3, <1>4, <1>5, <1>6, <1>7, <1>8, <1>9, <1>10

LEMMA Starts == Init => IInv
<1> SUFFICES ASSUME Init PROVE IInv
  OBVIOUS
<1>1. Open = {} /\ ListInv
  BY DEF Init, Open, ToSet, ListInv, IsInjective
<1>2. WalkInv
  BY DEF Init, WalkInv, Ahead
<1>3. FilesInv
  BY SessionAssumption DEF Init, FilesInv
<1>4. WorldInv
  BY <1>1, SessionAssumption
  DEF Init, WorldInv, WorldTypes, FreeUnused, StateFits, LeftBehind, DescAgrees,
      LoginUnlisted, ListedOrLogin, InGameListed, BodyToReturnTo, FreeBodies,
      OnlyImmortals, Login, InGame
<1>5. QED
  BY <1>1, <1>2, <1>3, <1>4 DEF IInv

(* The inductive invariant.                                                *)
THEOREM Invariant == Spec => []IInv
<1>1. IInv /\ [Next]_vars => IInv'
  <2> SUFFICES ASSUME IInv, [Next]_vars PROVE IInv'
    OBVIOUS
  <2>1. CASE \E d \in Desc :
               \/ Nothing(d) \/ (\E n \in Names : GetName(d, n))
               \/ Reconnect(d) \/ PasswordOk(d) \/ NewPlayer(d) \/ ReadMotd(d)
    BY <2>1, DialogueKeeps
  <2>2. CASE \E d \in Desc :
               \/ Edit(d) \/ Return(d) \/ QuitAsMob(d)
               \/ \E m \in Mobs : Switch(d, m)
    BY <2>2, BodiesKeep
  <2>3. CASE \E d \in Desc :
               \/ LinkLost(d) \/ TurnedAway(d) \/ TakeOver(d) \/ Quit(d)
               \/ \E e \in Desc : Disconnect(d, e)
    BY <2>3, ClosesKeep
  <2>4. QED
    BY <2>1, <2>2, <2>3, PollKeeps DEF Next
<1>2. QED
  BY <1>1, Starts, PTL DEF Spec

(* Every structure and pointer of comm.c keeps its type.                   *)
THEOREM TypeCorrect == Spec => []TypeOK
<1>1. IInv => TypeOK
  <2>1. ListInv => IsInjective(descriptor_list) /\ Open \subseteq Desc
    BY PlaceOf DEF ListInv
  <2>2. ListInv /\ WalkInv => d_next \in Desc \cup {NULL}
    BY PlaceOf DEF WalkInv
  <2>3. QED
    BY <2>1, <2>2 DEF IInv, TypeOK, WorldInv, WorldTypes, FilesInv, WalkInv
<1>2. QED
  BY <1>1, Invariant, PTL

(* The walks of game_loop_unix reach every descriptor that is open and no  *)
(* descriptor that is not, whichever of them each one's input closes: the  *)
(* saved successor d_next and its correction in close_socket are enough.   *)
THEOREM WalksAlwaysComplete == Spec => []WalkComplete
<1>1. IInv => WalkSafe
  BY DEF IInv, WalkInv, WalkSafe
<1>2. IInv => EveryoneServed
  <2> SUFFICES ASSUME IInv, d_next = NULL PROVE unserved = {}
    BY DEF EveryoneServed
  <2>1. \A i \in 1..Len(descriptor_list) : descriptor_list[i] # NULL
    BY OpenAt, PlaceOf, SessionAssumption DEF IInv
  <2>2. QED
    BY <2>1 DEF IInv, WalkInv, Ahead
<1>3. QED
  BY <1>1, <1>2, Invariant, PTL DEF WalkComplete

(* Descriptors and bodies point at each other, and every body is in the    *)
(* game or logging in, through any sequence of logins, reconnections,      *)
(* takeovers, switches, deaths, lost links and restarts.                   *)
THEOREM LinksAlwaysAgree == Spec => []LinksAgree
<1>1. IInv => DescAgrees
  BY DEF IInv, WorldInv
<1>2. IInv => BodiesAccounted
  <2> SUFFICES ASSUME WorldInv, ListInv PROVE BodiesAccounted
    BY DEF IInv
  <2>1. Open \subseteq Desc /\ NULL \notin Desc
    BY PlaceOf, SessionAssumption
  <2>2. \A c \in Bodies : name[c] # NULL =>
           c \in char_list <=> ~\E d \in Open : connected[d] \in Login /\ character[d] = c
    <3> TAKE c \in Bodies
    <3> HAVE name[c] # NULL
    <3>1. ASSUME c \notin char_list
          PROVE  \E d \in Open : connected[d] \in Login /\ character[d] = c
      BY <3>1 DEF WorldInv, ListedOrLogin, DescAgrees, WorldTypes
    <3>2. ASSUME NEW d \in Open, connected[d] \in Login, character[d] = c
          PROVE  c \notin char_list
      BY <2>1, <3>2 DEF WorldInv, LoginUnlisted
    <3>3. QED
      BY <3>1, <3>2
  <2>3. QED
    BY <2>1, <2>2
    DEF WorldInv, InGameListed, BodyToReturnTo, FreeBodies, BodiesAccounted
<1>3. QED
  BY <1>1, <1>2, Invariant, PTL DEF LinksAgree
=============================================================================
