------------------------------ MODULE MCImcLink ------------------------------
(* Two muds for ImcLink: one calls and the other waits, or both call.      *)
EXTENDS ImcLink
CONSTANTS a, b
Flag(ab, ba) == [x \in Muds \X Muds |-> IF x = <<a, b>> THEN ab ELSE IF x = <<b, a>> THEN ba ELSE {}]
Pairings == {Flag({"RECONNECT"}, {"CLIENT"}), Flag({"RECONNECT"}, {"RECONNECT", "NOAUTO"})}
Both == {<<a, b>>, <<b, a>>}
=============================================================================
