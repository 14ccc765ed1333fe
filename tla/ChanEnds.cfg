SPECIFICATION FairSpec
CONSTANTS
  a = a  b = b  c = c  buffered = buffered  rendezvous = rendezvous
  Crs = {a, b}
  Threads = {}
  Chans = {buffered, rendezvous}
  Cap <- MCCap
  SelectOps <- OneSelect
  Budgets <- CancelCalls
PROPERTIES CancelKeptUntilReported SelectSettles CancelEndsCall
\* The system may stop: all calls made, or everyone blocked.
CHECK_DEADLOCK FALSE
