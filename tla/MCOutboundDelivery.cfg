\* Two messages of one conversation, no lost locks: the abstract promise.
SPECIFICATION Spec
CONSTANTS
  Messages = {m1, m2}
  Workers = {w1, w2}
  theConversation = c1
  Conversations <- MCConversations
  ConvOf <- MCConvOf
  MaxAttempts = 2
  MaxStalls = 1
  DbMayFail = TRUE
  LocksMayBeLost = FALSE
  None = None
SYMMETRY Symmetry
PROPERTIES
  ImplementsDelivery
