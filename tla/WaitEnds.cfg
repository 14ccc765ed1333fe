SPECIFICATION FairSpec
CONSTANTS
  c1 = c1  c2 = c2  c3 = c3  w1 = w1  w2 = w2
  Crs = {c1, c2}
  Workers = {w1, w2}
  Threads = {}
  Qos <- MCQos
  Boot <- MCBoot
  NoCr = NoCr
  NoWorker = NoWorker
  Nobody = Nobody
  EarlyHandles = {"cancel"}
  Budgets <- Ends
PROPERTIES DecidedWaitReturns InterruptEndsWait ResumeEndsSuspend
\* The system may stop: every coroutine done, or parked with nobody to wake it.
CHECK_DEADLOCK FALSE
