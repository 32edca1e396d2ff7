------------------------------- MODULE Objects -------------------------------
(***************************************************************************)
(* Things (handler.c, act_obj.c): structures OBJ_DATA that lie in the room,*)
(* are carried, or are inside one another, in lists threaded by            *)
(* next_content; all that exist are also in object_list, and what has been *)
(* extracted is on obj_free, threaded by the same next as object_list.     *)
(* A character keeps the number and the weight of what it carries, counted *)
(* up and down as things come and go.                                      *)
(*                                                                         *)
(* A structure is a number: the n-th one that was ever allocated.  There   *)
(* is one room; rooms differ in nothing that matters here.                 *)
(*                                                                         *)
(* Commands happen between two runs of obj_update, whose walk over         *)
(* object_list is modelled one object per action.  "get all", "put all"    *)
(* and "drop all" are their singular forms repeated.                       *)
(*                                                                         *)
(* Definitions named Slip... are bugs the code could plausibly have had;   *)
(* nothing uses them except the runs that show a property notices them.    *)
(***************************************************************************)
EXTENDS SequencesExt, FiniteSetsExt, Integers, Lists

CONSTANTS
    Chars, Players,
    Room,
    NULL,
    MaxObjs,       \* bound: structures ever allocated
    CarryN,        \* can_carry_n: how many things one can carry
    CarryW,        \* can_carry_w: how much
    Purse,         \* Purse[c]: the gold c starts with
    Amounts,       \* bound: the amounts of gold that are dropped or given
    CoinCost       \* obj->cost of a thing of level 0: number_fuzzy(10)

ASSUME ObjectsAssumption ==
    /\ Players \subseteq Chars /\ NULL \notin Chars \cup {Room} /\ Room \notin Chars
    /\ IsFiniteSet(Chars)
    /\ (Chars \cup {Room, NULL}) \cap (1..MaxObjs) = {}
    /\ MaxObjs \in Nat /\ CarryN \in Nat /\ CarryW \in Nat
    /\ Amounts \subseteq Nat \ {0}
    /\ Purse \in [Chars -> Nat] /\ CoinCost \subseteq 9..11

VARIABLES
    heap,          \* everything about the structures, see HeapType
    gold,          \* ch->gold
    here,          \* the characters in the game
    drift,         \* history: what Preservation took off a carry_weight too much
    obj            \* obj_update's loop variable; 0 when it is not running

vars == <<heap, gold, here, drift, obj>>

Objs == 1..MaxObjs
Places == {Room} \cup Chars \cup Objs
Kinds == {"item", "bag", "corpse", "pc corpse", "coin", "coins"}

(* The lists, the pointers back (in_room, carried_by, in_obj: at most one  *)
(* is set), and the characters' sums.                                      *)
HeapType == [
    made          : 0..MaxObjs,
    object_list   : Seq(Objs),
    obj_free      : Seq(Objs),
    contents      : [Places -> Seq(Objs)],
    place         : [Objs -> Places \cup {NULL}],
    kind          : [Objs -> Kinds],
    value         : [Objs -> Nat],
    weight        : [Objs -> Nat],
    carry_number  : [Chars -> Int],
    carry_weight  : [Chars -> Int] ]

TypeOK ==
    /\ heap \in HeapType
    /\ gold \in [Chars -> Nat]
    /\ here \subseteq Chars
    /\ drift \in [Chars -> Int]
    /\ obj \in Objs \cup {0}

Init ==
    /\ heap = [
           made         |-> 0,
           object_list  |-> << >>,
           obj_free     |-> << >>,
           contents     |-> [p \in Places |-> << >>],
           place        |-> [o \in Objs |-> NULL],
           kind         |-> [o \in Objs |-> "item"],
           value        |-> [o \in Objs |-> 0],
           weight       |-> [o \in Objs |-> 0],
           carry_number |-> [c \in Chars |-> 0],
           carry_weight |-> [c \in Chars |-> 0] ]
    /\ gold = Purse
    /\ here = Chars
    /\ drift = [c \in Chars |-> 0]
    /\ obj = 0

-----------------------------------------------------------------------------
(* Below, h is a heap, and each operator returns the heap it leaves.        *)

Live(h) == ToSet(h.object_list)

(* The sequences that f gives for the elements of s, one after the other.  *)
Joined(f, s) ==
    LET j[k \in 0..Len(s)] == IF k = 0 THEN << >> ELSE j[k - 1] \o f[s[k]]
    IN  j[Len(s)]

(* What is inside o, at any depth, innermost first, and then o itself: the *)
(* order in which extract_obj frees them.                                  *)
Doomed(h, o) ==
    LET f[x \in Objs] == Joined(f, h.contents[x]) \o <<x>>
    IN  f[o]

(* The sum of w over the structures in S.                                  *)
Total(w, S) ==
    LET t[n \in 0..MaxObjs] == IF n = 0 THEN 0 ELSE t[n - 1] + IF n \in S THEN w[n] ELSE 0
    IN  t[MaxObjs]

(* get_obj_weight.                                                          *)
Weight(h, o) == Total(h.weight, ToSet(Doomed(h, o)))

(* All that c carries; and who carries o, or something it is in, and so    *)
(* feels its weight.                                                       *)
Carried(h, c) == UNION {ToSet(Doomed(h, x)) : x \in ToSet(h.contents[c])}
Bearers(h, o) == {c \in Chars : o \in Carried(h, c)}

SlipOuterForgotten(h, o, n) ==       \* the weight of nested things is not felt
    [h EXCEPT !.carry_weight = [c \in Chars |->
        IF h.place[o] = c THEN @[c] + n ELSE @[c]]]

(* The weight of o is added to whoever bears it (n = 1), or taken off.      *)
Borne(h, o, n) ==
    [h EXCEPT !.carry_weight = [c \in Chars |->
        IF c \in Bearers(h, o) THEN @[c] + n * Weight(h, o) ELSE @[c]]]

Counted(h, p, n) ==
    IF p \in Chars THEN [h EXCEPT !.carry_number[p] = @ + n] ELSE h

(* obj_to_room, obj_to_char, obj_to_obj.                                    *)
To(h, o, p) ==
    Borne(Counted([h EXCEPT !.contents[p] = <<o>> \o @, !.place[o] = p], p, 1), o, 1)

(* obj_from_room, obj_from_char, obj_from_obj.                              *)
From(h, o) ==
    IF h.place[o] = NULL THEN h
    ELSE [Counted(Borne(h, o, -1), h.place[o], -1) EXCEPT
             !.contents[h.place[o]] = Without(@, {o}), !.place[o] = NULL]

Moved(h, o, p) == To(From(h, o), o, p)

(* create_object, of a level that leaves the cost of money at n.            *)
CanCreate(h, n) == Len(h.obj_free) + MaxObjs - h.made >= n
Fresh(h) == IF h.obj_free = << >> THEN h.made + 1 ELSE Head(h.obj_free)

Created(h, k, n) ==
    LET o == Fresh(h)
    IN  [h EXCEPT
            !.made = IF h.obj_free = << >> THEN @ + 1 ELSE @,
            !.obj_free = IF @ = << >> THEN @ ELSE Tail(@),
            !.object_list = <<o>> \o @,
            !.kind[o] = k,
            !.value[o] = n,
            !.weight[o] = IF k \in {"item", "corpse"} THEN 2 ELSE 1]

(* create_money(amount), created in p.  A single coin keeps the value it   *)
(* got from create_object, its cost.                                       *)
MoneyIn(h, amount, p) ==
    {To(m, Fresh(h), p) : m \in
        IF amount = 1 THEN {Created(h, "coin", n) : n \in CoinCost}
        ELSE {Created(h, "coins", amount)}}

Freed(h, o) ==
    LET gone == ToSet(Doomed(h, o))
    IN  [From(h, o) EXCEPT
            !.contents = [p \in Places |-> IF p \in gone THEN << >> ELSE @[p]],
            !.place = [x \in Objs |-> IF x \in gone THEN NULL ELSE @[x]],
            !.object_list = Without(@, gone),
            !.obj_free = Reverse(Doomed(h, o)) \o @]

SlipNoSearch(h, o) == Freed(h, o)    \* freed again, though not in object_list

(* extract_obj: out of where it is, and freed with all it contains.  What  *)
(* is not in object_list is left alone.                                    *)
Extracted(h, o) == IF o \in Live(h) THEN Freed(h, o) ELSE h

ExtractedAll(h, s) ==
    LET g[k \in 0..Len(s)] == IF k = 0 THEN h ELSE Extracted(g[k - 1], s[k])
    IN  g[Len(s)]

-----------------------------------------------------------------------------
(* Commands; obj_update is not running.                                     *)
Idle == obj = 0
Quiet == Idle /\ UNCHANGED obj
Hands(c) == Quiet /\ c \in here /\ UNCHANGED <<here, drift>>

CanCarry(c, o) ==
    /\ heap.carry_number[c] + 1 <= CarryN
    /\ heap.carry_weight[c] + Weight(heap, o) <= CarryW

(* get_obj: money goes into the purse, and the thing itself is extracted.  *)
GetObj(c, o) ==
    /\ heap.kind[o] # "pc corpse"
    /\ CanCarry(c, o)
    /\ IF heap.kind[o] \in {"coin", "coins"}
       THEN /\ gold' = [gold EXCEPT ![c] = @ + heap.value[o]]
            /\ heap' = Extracted(From(heap, o), o)
       ELSE /\ heap' = Moved(heap, o, c)
            /\ UNCHANGED gold

Get(c, o) ==
    /\ Hands(c)
    /\ heap.place[o] = Room
    /\ GetObj(c, o)

GetFrom(c, o, container) ==
    /\ Hands(c)
    /\ heap.place[container] \in {Room, c} /\ heap.place[o] = container
    /\ heap.kind[container] = "pc corpse" => c \in Players
    /\ GetObj(c, o)

Put(c, o, bag) ==
    /\ Hands(c)
    /\ heap.place[o] = c /\ heap.place[bag] \in {Room, c}
    /\ heap.kind[bag] = "bag" /\ o # bag
    /\ heap' = Moved(heap, o, bag)
    /\ UNCHANGED gold

Drop(c, o) ==
    /\ Hands(c)
    /\ heap.place[o] = c
    /\ heap' = Moved(heap, o, Room)
    /\ UNCHANGED gold

SlipHeapStays(c, n) ==               \* the old heap is counted, and stays
    /\ Hands(c) /\ n <= gold[c] /\ CanCreate(heap, 1)
    /\ gold' = [gold EXCEPT ![c] = @ - n]
    /\ heap' \in MoneyIn(heap, MapThenSumSet(LAMBDA o : heap.value[o],
                                            ToSet(heap.contents[Room])) + n, Room)

(* Money that lies about becomes one heap with what is dropped; a single   *)
(* coin counts as one.                                                     *)
DropCoins(c, n) ==
    LET things == {o \in Objs : heap.kind[o] \notin {"coin", "coins"}}
        lying == Without(heap.contents[Room], things)
        worth == [o \in Objs |-> IF heap.kind[o] = "coin" THEN 1 ELSE heap.value[o]]
        bare == ExtractedAll(heap, lying)
    IN  /\ Hands(c)
        /\ n <= gold[c]
        /\ CanCreate(bare, 1)
        /\ gold' = [gold EXCEPT ![c] = @ - n]
        /\ heap' \in MoneyIn(bare, n + Total(worth, ToSet(lying)), Room)

Give(c, v, o) ==
    /\ Hands(c) /\ v \in here
    /\ heap.place[o] = c
    /\ CanCarry(v, o)
    /\ heap' = Moved(heap, o, v)
    /\ UNCHANGED gold

SlipOwes(c, v, n) ==                 \* gives what it does not have
    /\ Hands(c) /\ v \in here /\ v # c
    /\ gold' = [gold EXCEPT ![c] = @ - n, ![v] = @ + n]
    /\ UNCHANGED heap

GiveCoins(c, v, n) ==
    /\ Hands(c) /\ v \in here /\ v # c
    /\ n <= gold[c]
    /\ gold' = [gold EXCEPT ![c] = @ - n, ![v] = @ + n]
    /\ UNCHANGED heap

Sacrifice(c, o) ==
    /\ Hands(c)
    /\ heap.place[o] = Room /\ heap.kind[o] \in {"item", "bag", "corpse"}
    /\ heap' = Extracted(heap, o)
    /\ UNCHANGED gold

(* do_preservation, of food or the corpse of a mobile: it loses half its   *)
(* weight, and c is relieved of that, wherever it lies.                    *)
Preserve(c, o) ==
    /\ Quiet /\ c \in here \cap Players
    /\ heap.place[o] \in {Room, c}
    /\ heap.kind[o] \in {"item", "corpse"}
    /\ LET less == IF heap.weight[o] > 1 THEN heap.weight[o] - heap.weight[o] \div 2 ELSE 0
       IN  /\ heap' = [heap EXCEPT !.weight[o] = @ - less, !.carry_weight[c] = @ - less]
           /\ drift' = [drift EXCEPT ![c] = IF heap.place[o] = c THEN @ ELSE @ + less]
    /\ UNCHANGED <<gold, here>>

(* A reset, a shop, or an immortal's oload: a new thing.                    *)
Load(p, k) ==
    /\ Quiet /\ p \in here \cup {Room}
    /\ CanCreate(heap, 1)
    /\ heap' = To(Created(heap, k, 0), Fresh(heap), p)
    /\ UNCHANGED <<gold, here, drift>>

-----------------------------------------------------------------------------
(* The sums of a character start again at 0.                                *)
Emptied(h, c) == [h EXCEPT !.carry_number[c] = 0, !.carry_weight[c] = 0]

(* The loop of make_corpse over what is carried.                            *)
Buried(h, s, corpse, vanishing) ==
    LET g[k \in 0..Len(s)] ==
            IF k = 0 THEN h
            ELSE IF s[k] \in vanishing THEN Extracted(g[k - 1], s[k])
            ELSE Moved(g[k - 1], s[k], corpse)
    IN  g[Len(s)]

(* make_corpse: the gold, and then all that is carried, except what        *)
(* vanishes, goes into a new corpse, and the corpse into the room.         *)
CorpseOf(c, vanishing) ==
    LET corpse == Fresh(heap)
        body == Created(heap, IF c \in Players THEN "pc corpse" ELSE "corpse", 0)
    IN  {To(Buried(h, heap.contents[c], corpse, vanishing), corpse, Room) :
            h \in IF gold[c] = 0 THEN {body} ELSE MoneyIn(body, gold[c], corpse)}

(* raw_kill.  A player comes back empty-handed; a mobile is gone.           *)
Kill(c) ==
    /\ Quiet /\ c \in here
    /\ CanCreate(heap, 2)
    /\ \E vanishing \in SUBSET ToSet(heap.contents[c]) :
           \E h \in CorpseOf(c, vanishing) : heap' = Emptied(h, c)
    /\ gold' = [gold EXCEPT ![c] = 0]
    /\ drift' = [drift EXCEPT ![c] = 0]
    /\ here' = IF c \in Players THEN here ELSE here \ {c}

(* extract_char(c, TRUE): do_quit, or a mobile that fades away without a   *)
(* corpse.  A player's gold is in its file.                                *)
Leave(c) ==
    /\ Quiet /\ c \in here
    /\ heap' = Emptied(ExtractedAll(heap, heap.contents[c]), c)
    /\ here' = here \ {c}
    /\ gold' = IF c \in Players THEN gold ELSE [gold EXCEPT ![c] = 0]
    /\ drift' = [drift EXCEPT ![c] = 0]

(* A player is back, or a mobile is reset, empty-handed; Load gives it what*)
(* its file, or its reset, has.                                            *)
Enter(c) ==
    /\ Quiet /\ c \notin here
    /\ here' = here \cup {c}
    /\ UNCHANGED <<heap, gold, drift>>

-----------------------------------------------------------------------------
(* The element after o, of whichever of object_list and obj_free it is on. *)
NextOf(h, o) ==
    LET s == IF o \in Live(h) THEN h.object_list ELSE h.obj_free
        i == CHOOSE j \in DOMAIN s : s[j] = o
    IN  IF i = Len(s) THEN 0 ELSE s[i + 1]

ObjUpdate ==
    /\ Idle
    /\ heap.object_list # << >>
    /\ obj' = Head(heap.object_list)
    /\ UNCHANGED <<heap, gold, here, drift>>

(* One iteration: the successor is read first; then the timer of obj may   *)
(* run out.                                                                *)
Update ==
    /\ obj # 0
    /\ \/ UNCHANGED heap
       \/ heap' = Extracted(heap, obj)
    /\ obj' = NextOf(heap, obj)
    /\ UNCHANGED <<gold, here, drift>>

-----------------------------------------------------------------------------
Next ==
    \/ \E c \in Chars, o \in Objs :
           \/ Get(c, o) \/ Drop(c, o) \/ Sacrifice(c, o) \/ Preserve(c, o)
           \/ \E x \in Objs : GetFrom(c, o, x) \/ Put(c, o, x)
           \/ \E v \in Chars : Give(c, v, o)
    \/ \E c \in Chars :
           \/ \E n \in Amounts : DropCoins(c, n) \/ \E v \in Chars : GiveCoins(c, v, n)
           \/ Kill(c) \/ Leave(c) \/ Enter(c)
    \/ \E p \in {Room} \cup Chars, k \in {"item", "bag"} : Load(p, k)
    \/ ObjUpdate \/ Update

Spec == Init /\ [][Next]_vars

-----------------------------------------------------------------------------
(* Every structure is where its pointer says, in that list once and in no  *)
(* other one, nothing is inside itself, and what has been freed is nowhere,*)
(* whatever has been put into what, killed, or extracted with its contents *)
(* in the middle of a walk; a structure that is freed twice would be handed*)
(* out twice.                                                              *)
EachInItsPlace ==
    /\ \A p \in Places : IsInjective(heap.contents[p])
    /\ \A p \in Places, o \in Objs : Contains(heap.contents[p], o) <=> heap.place[o] = p
    /\ IsInjective(heap.object_list \o heap.obj_free)
    /\ Live(heap) \cup ToSet(heap.obj_free) = 1..heap.made
    /\ \A p \in {Room} \cup here : \A o \in ToSet(heap.contents[p]) : o \in Live(heap)
    /\ Live(heap) = UNION {ToSet(Doomed(heap, o)) : o \in
                              UNION {ToSet(heap.contents[p]) : p \in {Room} \cup here}}

(* carry_number and carry_weight are what a count of all that is carried,  *)
(* inside bags too, would give; but for the weight that Preservation takes *)
(* off for things that are not carried.                                    *)
SumsRight ==
    \A c \in Chars :
        /\ heap.carry_number[c] = Len(heap.contents[c])
        /\ heap.carry_weight[c] + drift[c] = Total(heap.weight, Carried(heap, c))

(* Gold in purses, and in what could be picked up, is never more than it   *)
(* was, whatever is dropped, given, left in a corpse or taken again; but   *)
(* for single coins, which come into being with a price of their own.      *)
Worth(h, g) ==
    MapThenSumSet(LAMBDA c : g[c], Chars) +
    MapThenSumSet(LAMBDA o : h.value[o], Live(h))

Minted ==
    MapThenSumSet(LAMBDA o : heap'.value[o] - 1,
                  {o \in Live(heap') \ Live(heap) : heap'.kind[o] = "coin"})

GoldOnlyByCoins == [][Worth(heap', gold') <= Worth(heap, gold) + Minted]_vars
=============================================================================
