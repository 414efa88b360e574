CONSTANTS
    Calls = {a, b, c}
    Retryable = {a}
    MaxSlots = 2
    Nobody = Nobody
    MaxExpiries = 2
    Faults = {"lost", "cancel"}
SPECIFICATION FairMcpSpec
CHECK_DEADLOCK FALSE
INVARIANT SingleFlight
INVARIANT NeverReplayed
INVARIANT HandshakeExclusive
PROPERTY CallsReturn
