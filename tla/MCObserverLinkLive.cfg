SPECIFICATION FairSpec
CONSTANTS
  w1 = w1  w2 = w2  t1 = t1  t2 = t2  e1 = e1  e2 = e2
  Workers = {w1, w2}
  TimerThreads = {t1, t2}
  Main = main
  Events = {e1, e2}
  NoEvent = NoEvent
  QueueCap = 2
  MaxFaults = 2
  MaxLogins = 0
PROPERTY Persistent
\* An observer with no event left to emit is quiescent, not stuck.
CHECK_DEADLOCK FALSE
