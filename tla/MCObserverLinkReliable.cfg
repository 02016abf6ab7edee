SPECIFICATION FairSpec
CONSTANTS
  w1 = w1  w2 = w2  t1 = t1  t2 = t2  e1 = e1  e2 = e2
  Workers = {w1}
  TimerThreads = {t1}
  Main = main
  Events = {e1}
  NoEvent = NoEvent
  QueueCap = 2
  MaxFaults = 1
  MaxLogins = 0
PROPERTY Reliable
\* An observer with no event left to emit is quiescent, not stuck.
CHECK_DEADLOCK FALSE
