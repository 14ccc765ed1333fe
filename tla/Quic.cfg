SPECIFICATION Spec
CONSTANTS
    Window = 2
    StreamMax = 2
    FlowLimit = 3
    Scenarios <- Mixed
INVARIANTS StreamInOrder AckMeansDelivered HandshakeOutcome
