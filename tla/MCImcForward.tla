---------------------------- MODULE MCImcForward ----------------------------
(* Small networks for ImcForward.                                          *)
EXTENDS ImcForward, TLC
CONSTANTS a, b, c, d

Triangle == {{a, b}, {b, d}, {a, d}}
Kite == Triangle \cup {{a, c}}
Ring == {{a, b}, {b, c}, {c, d}, {d, a}}

\* Swapping b and d maps each of the three networks to itself.
SwapBD == Permutations({b, d})

SmallNetworks ==
  {[links |-> Triangle, packets |-> 3, changes |-> 0],
   [links |-> Triangle, packets |-> 2, changes |-> 1],
   [links |-> Kite, packets |-> 2, changes |-> 0],
   [links |-> Ring, packets |-> 2, changes |-> 0]}
OneFlooded == {<<a, c>>}
=============================================================================
