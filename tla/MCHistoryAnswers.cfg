SPECIFICATION HistorySpec
CONSTANTS
  m1 = m1
  m2 = m2
  m3 = m3
  p1 = p1
  l1 = l1
  l2 = l2
  Messages = {m1, m2, m3}
  Prompts = {p1}
  NoPrompt = NoPrompt
  PromptOf <- MCPromptOf
  Skins = {"prompts"}
  FirstPage = 1
  OlderPage <- MCOlderPage
  Loads = {l1, l2}
  MaxCreated = 3
  MaxOpens = 2
INVARIANT PromptAnswers
CHECK_DEADLOCK FALSE
