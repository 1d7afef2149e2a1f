SPECIFICATION Spec
CONSTANTS
  u1 = u1
  u2 = u2
  j1 = j1
  j2 = j2
  j3 = j3
  s1 = s1
  s2 = s2
  Users <- TwoUsers
  NoUser = NoUser
  Jtis <- ThreeJtis
  NoJti = NoJti
  Slots <- TwoSlots
  Inactive <- NoStatus
  MaxVersion = 1
  Faults = TRUE
SYMMETRY RolesSymmetry
INVARIANTS TypeOK ClaimNeverExceedsRole RotationKeepsSession
PROPERTIES StaleForever LastAdminByRace
