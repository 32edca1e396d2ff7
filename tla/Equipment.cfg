SPECIFICATION Spec
CONSTANTS
  pat = pat
  mel = mel
  o1 = o1
  o2 = o2
  o3 = o3
  Chars = {pat, mel}
  Rooms = {Altar, Field, Limbo}
  Altar = Altar
  Limbo = Limbo
  Objs = {o1, o2, o3}
  None = None
  PermStr = 3
  MinStr = 1
  MaxStr = 5
  MaxPoison = 3
  Scenes <- MCScenes
CONSTRAINT OnCourse
INVARIANTS
  TypeOK
  EffectsAddUp
  LightsAgree
PROPERTIES
  StraysAfterWeaponsOnly
