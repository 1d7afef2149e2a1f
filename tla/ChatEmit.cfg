SPECIFICATION FairSpec
CONSTANTS
  u1 = u1
  u2 = u2
  u3 = u3
  k1 = k1
  k2 = k2
  p1 = p1
  s1 = s1
  s2 = s2
  NoUser = NoUser
  NoSocket = NoSocket
  NoProduct = NoProduct
  Users <- TwoUsers
  Pairs <- OnePair
  Sockets <- OneSocket
  Products <- OneProduct
  Owner <- OfU1
  Slots <- TwoSlots
  MaxMsgs = 2
  Faults = FALSE
INVARIANTS LastMessageOfConversation
PROPERTIES StoredIsEmitted
