CONSTANTS
    Calls = {a, b}
    Retryable = {a}
    MaxSlots = 1
    Nobody = Nobody
    MaxExpiries = 1
    Faults = {}
SPECIFICATION McpSpec
CHECK_DEADLOCK FALSE
INVARIANT ExpiryIsRecovered
