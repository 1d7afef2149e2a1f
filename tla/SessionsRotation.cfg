SPECIFICATION FairSpec
CONSTANTS
  u1 = u1
  u2 = u2
  j1 = j1
  j2 = j2
  j3 = j3
  s1 = s1
  s2 = s2
  Users <- OneUser
  NoUser = NoUser
  Jtis <- ThreeJtis
  NoJti = NoJti
  Slots <- TwoSlots
  Inactive <- Banned
  MaxVersion = 1
  Faults = FALSE
INVARIANTS SpentOnce
PROPERTIES OneShotTokens RotationCompletes
