CONSTANTS
    NULL = NULL
    Desc = {d1, d2, d3}
    Bodies = {b1, b2, b3}
    Mobs = {m1}
    Names = {god, pat}
    Immortals = {god}
SPECIFICATION Spec
INVARIANT OneBody
