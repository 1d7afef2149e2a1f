SPECIFICATION Spec
CONSTANTS
  p1 = p1
  p2 = p2
  s1 = s1
  s2 = s2
  MaxOtps = 2
  MaxPending = 1
  MaxAttempts = 2
  Passwords <- TwoPasswords
  NoPassword = NoPassword
  Purposes <- Reset
  Slots <- TwoSlots
  Failing <- NoFailing
SYMMETRY Symmetry
PROPERTIES OneTimePassword
