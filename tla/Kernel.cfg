SPECIFICATION FairSpec
CONSTANTS
  t1 = t1
  t2 = t2
  m1 = m1
  e1 = e1
  e2 = e2
  timeout1 = timeout1
  timeout2 = timeout2
  change = change
  None = None
  delta = delta
  Thread = {t1, t2}
  Method = {m1}
  UserEvent = {e1, e2}
  timeout <- Timeouts
  Sensitive <- Sensitivity
  Delay = {0, 1, 2}
  Slices = {1, 2}
  MaxTime = 2
  Budget = 1
INVARIANTS TypeOK OnePlace NotificationInPlace
PROPERTIES ImplementsScheduler EveryoneRuns
CHECK_DEADLOCK FALSE
