CONSTANTS
    q1 = q1
    q2 = q2
    q3 = q3
    r1 = r1
    r2 = r2
    c1 = c1
    c2 = c2
    s1 = s1
    s2 = s2
    h1 = h1
    h2 = h2
    p1 = p1
    p2 = p2
    Requests = {q1}
    Owners = {q1}
    Runs = {r1}
    Convs = {c1}
    Hashes = {h1}
    Payloads = {p1}
    None = None
    TTL = 1
    Backend = "postgres"
    MaxToken = 3
    MaxVersion = 1
    Procs = {s1}
    Deployments <- OnlyCancelled
SPECIFICATION Spec
CHECK_DEADLOCK FALSE
PROPERTY TerminalStable
