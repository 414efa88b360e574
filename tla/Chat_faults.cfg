CONSTANTS
    q1 = q1
    q2 = q2
    q3 = q3
    r1 = r1
    r2 = r2
    c1 = c1
    c2 = c2
    s1 = s1
    s2 = s2
    h1 = h1
    h2 = h2
    p1 = p1
    p2 = p2
    Requests = {q1, q2, q3}
    Owners = {q1, q2, q3}
    Runs = {r1, r2}
    Convs = {c1, c2}
    Hashes = {h1, h2}
    Payloads = {p1, p2}
    None = None
    TTL = 1
    Backend = "postgres"
    MaxToken = 3
    MaxVersion = 2
    Procs = {s1, s2}
    Deployments <- SingleOrTurns
SYMMETRY Symmetry
SPECIFICATION Spec
CHECK_DEADLOCK FALSE
INVARIANT ReplyIsDurable
INVARIANT HistoryFaithful
INVARIANT GateExclusive
PROPERTY ResumesOnlyUnfinished
PROPERTY OutcomeChangesExplained
