SPECIFICATION Spec
CONSTANTS
  a = a  b = b  c = c  buffered = buffered  rendezvous = rendezvous
  Crs = {a, b}
  Threads = {"main"}
  Chans = {buffered, rendezvous}
  Cap <- MCCap
  SelectOps <- Selects
  Budgets <- SafetyCalls
SYMMETRY CrsAlike
INVARIANTS ParkedMeansBlocked NoMissedMatch NoDanglingNode TakesEffectOnce
PROPERTY ChannelsAreFifo
\* The system may stop: all calls made, or everyone blocked.
CHECK_DEADLOCK FALSE
