SPECIFICATION FairSpec
CONSTANTS
  p1 = p1
  p2 = p2
  s1 = s1
  s2 = s2
  MaxOtps = 2
  MaxPending = 2
  MaxAttempts = 1
  Passwords <- TwoPasswords
  NoPassword = NoPassword
  Purposes <- Both
  Slots <- TwoSlots
  Failing <- SomeFailing
INVARIANTS TypeOK LimitIsBeingCleared
PROPERTIES RegistrationKeepsAccount ValidCodeStaysValid RevivedOnlyAfterUse CleanupCompletes
