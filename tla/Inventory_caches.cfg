CONSTANTS
    Loads = {a, b}
    Modes = {{"ollama", "mcp"}, {"ollama"}}
    Ttl = 1
    StaleTtl = 2
    Flight = 1
    None = None
SPECIFICATION FairInvSpec
INVARIANT AgeBounded
PROPERTY NoSilentLoss
INVARIANT OneRefresh
PROPERTY LoadsReturn
