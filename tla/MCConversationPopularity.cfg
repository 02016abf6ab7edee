SPECIFICATION Spec
CONSTANTS
  m1 = m1
  m2 = m2
  m3 = m3
  m4 = m4
  m5 = m5
  u1 = u1
  u2 = u2
  k1 = k1
  k2 = k2
  p1 = p1
  o1 = o1
  o2 = o2
  Messages = {m1, m2, m3, m4, m5}
  Users = {u1, u2}
  Chats = {k1, k2}
  Prompts = {p1}
  NoPrompt = NoPrompt
  NoMessage = NoMessage
  Author <- MCAuthor
  ChatOf <- MCChatOf
  PromptOf <- MCPromptOf
  StateOf <- MCStateOf
  Outcomes = {o1, o2}
  NoOutcome = NoOutcome
  Contexts <- MCContexts
  MaxOutages = 2
INVARIANT PopularityIsLength
CHECK_DEADLOCK FALSE
