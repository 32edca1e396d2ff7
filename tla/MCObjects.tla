----------------------------- MODULE MCObjects ------------------------------
(* An instance of Objects small enough for TLC.                             *)
EXTENDS Objects

CONSTANTS pat, mob

MCPurse == [c \in Chars |-> IF c = pat THEN 2 ELSE 0]

(* Structures are told apart by their places in object_list, and free ones *)
(* not at all: renaming them makes no difference to what can happen, or to *)
(* whether a property holds.  Of a walk on obj_free, only how far it still  *)
(* goes counts; of what must agree with the rest, only whether it does.    *)
PlaceOf(s, o) == CHOOSE i \in DOMAIN s : s[i] = o

Seen ==
    LET list == heap.object_list
        things(p) == [i \in DOMAIN heap.contents[p] |-> PlaceOf(list, heap.contents[p][i])]
    IN  <<[i \in DOMAIN list |->
              <<things(list[i]), heap.kind[list[i]], heap.value[list[i]], heap.weight[list[i]]>>],
          [p \in {Room} \cup Chars |-> things(p)],
          heap.carry_number, heap.carry_weight, gold, here, drift,
          heap.made - Len(list) - Len(heap.obj_free),
          \A p \in Places : \A o \in ToSet(heap.contents[p]) : heap.place[o] = p,
          IF obj = 0 THEN <<0>>
          ELSE IF obj \in Live(heap) THEN <<PlaceOf(list, obj)>>
          ELSE <<"free", Len(heap.obj_free) - PlaceOf(heap.obj_free, obj)>> >>

(* The bounds: gold in the purses, and one use of Preservation on something*)
(* that is not carried.  The last line bounds nothing: the comparison makes*)
(* TLC work out all the lists before it stores a state.                    *)
ObjectsBound ==
    /\ MapThenSumSet(LAMBDA c : gold[c], Chars) <= 2
    /\ \A c \in Chars : drift[c] <= 1
    /\ heap.contents = heap.contents
=============================================================================
