SPECIFICATION Spec
CONSTANTS
  u1 = u1
  u2 = u2
  s1 = s1
  s2 = s2
  NoUser = NoUser
  Users <- TwoUsers
  Slots <- TwoSlots
  Statuses <- OneStatus
  CATEGORY_TO_SUBCATEGORIES <- TwoCategories
  CreateDtos <- MCCreateDtos
  UpdateDtos <- MCUpdateDtos
  MaxFiles = 1
  MaxProducts = 2
  PoolMax = 2
SYMMETRY Symmetry
INVARIANTS TypeOK MediaIsUploaded PairsAreValid NoGridlock
PROPERTY DeletedIsFrozen
CHECK_DEADLOCK FALSE
