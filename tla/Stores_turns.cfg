CONSTANTS
    Sessions = {s1, s2, s3}
    Runs = {r1, r2, r3}
    Writers = {w1, w2}
    Backends = {"memory", "redis", "postgres"}
    MaxMessages = 3
    MaxSessions = 2
    Ttl = 2
    None = None
SPECIFICATION StoreSpec
SYMMETRY Symmetry
INVARIANT WindowIsLatest
INVARIANT NoTurnTwice
INVARIANT MemoryIsBounded
PROPERTY ImplementsTurnLog
