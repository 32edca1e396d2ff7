SPECIFICATION Spec
CONSTANTS
  a = a
  b = b
  c = c
  d = d
  Muds = {a, b, c, d}
  Flooded <- OneFlooded
  Networks <- SmallNetworks
  IMC_MEMORY = 2
  IMC_PACKET_LIFETIME = 0
INVARIANTS TypeOK AtMostOnce RefusedForAReason PacketsArrive
SYMMETRY SwapBD
CHECK_DEADLOCK FALSE
