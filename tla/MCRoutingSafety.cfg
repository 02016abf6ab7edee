SPECIFICATION LiveSpec
CONSTANTS
  m1 = m1
  m2 = m2
  m3 = m3
  s1 = s1
  s2 = s2
  Messages = {m1, m2, m3}
  Traffic <- MCTraffic
  Question <- MCQuestion
  Bots <- MCBots
  FullName <- MCFullName
  Services = {s1, s2}
  NoService = NoService
  NoMessage = NoMessage
  NeonDetection = TRUE
  MaxOutages = 2
INVARIANT NoMisquote
INVARIANT SearchDecides
CHECK_DEADLOCK FALSE
PROPERTY NothingStuck
