SPECIFICATION Spec
CONSTANTS
  a = a
  b = b
  Muds = {a, b}
  Sockets = {s1, s2}
  Settings <- Pairings
  Trusted <- Both
  MaxPending = 2
  MaxTrouble = 2
INVARIANTS TypeOK ConnectionAgrees NeverForgotten
PROPERTIES ComesTogether
CHECK_DEADLOCK FALSE
