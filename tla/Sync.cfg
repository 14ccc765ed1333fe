CONSTANTS
    Crs = {low, mid, high}
    low = low
    mid = mid
    high = high
    None = None
    Qos <- Urgency
    CallSets <- Primitives
    Targets = {high}
    MaxCount = 2
SPECIFICATION FairSpec
INVARIANTS OwnershipIsReported NobodyWaitsForFree
PROPERTIES NobodyBarges LockersAreServed CondWaitReturns
CHECK_DEADLOCK FALSE
