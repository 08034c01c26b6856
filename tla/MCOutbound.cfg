\* Every fault at once, for one message: crashes, lost locks, failing
\* transactions, lost answers, refused tokens, early echoes.
SPECIFICATION FairSpec
CONSTANTS
  Messages = {m1}
  Workers = {w1, w2}
  theConversation = c1
  Conversations <- MCConversations
  ConvOf <- MCConvOf
  MaxAttempts = 3
  MaxStalls = 1
  DbMayFail = TRUE
  LocksMayBeLost = TRUE
  None = None
INVARIANTS
  SentWasAccepted
  EchoIsNotDoubled
  HandOffsAreBounded
PROPERTIES
  JobsEnd
