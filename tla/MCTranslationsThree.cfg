SPECIFICATION Spec
CONSTANTS
  c1 = c1
  c2 = c2
  k1 = k1
  m1 = m1
  m2 = m2
  x = x
  Clients = {c1, c2}
  Chats = {k1}
  Shouts = {m1, m2}
  LiveIds = {x}
  ChatOf <- MCChatOf
  Origin <- MCOrigin
  Langs = {"en", "fr"}
  Displayed <- MCHiding
  MaxRequests = 3
  CacheSize = 2
  MaxOutages = 1
CHECK_DEADLOCK FALSE
INVARIANT TypeOK
INVARIANT ForeignWordingKept
INVARIANT FullAnswersComplete
PROPERTY ImplementsRequestReply
