SPECIFICATION Spec
CONSTANTS
  Chars = {c1, c2, c3, c4}
  Players = {ann, bob}
  Mob = Mob
  Free = Free
  None = None
  MaxFollowers = 2
  Topics <- Pairings
  Crowd <- Gathering
SYMMETRY Everyone
VIEW WhatIsRead
INVARIANTS
  TypeOK
  BondsHold
  GroupsFollow
  ServantsCounted
  OnlyTheSpiritKeepsTheBody
  OnlyStrayCharmTangles
