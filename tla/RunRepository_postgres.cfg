CONSTANTS
    Runs = {r1, r2}
    Convs = {c1}
    Owners = {o1, o2}
    Hashes = {h1}
    Payloads = {p1}
    None = None
    TTL = 2
    Backend = "postgres"
    MaxToken = 3
    MaxVersion = 2
SPECIFICATION RepoSpec
SYMMETRY Symmetry
INVARIANT RepoTypeOK
INVARIANT LeaseRecordAgreement
INVARIANT TokensNameOneOwner
PROPERTY SupersededRunFrozen
PROPERTY ExclusiveGrant
PROPERTY ImplementsFencedRuns
