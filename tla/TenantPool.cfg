SPECIFICATION FairSpec
CONSTANTS
    Requests = {r1, r2, r3}
    Names = {n1, n2}
    Slugs = {s1, s2}
    Emails = {e1}
    Codes = {c1}
    PoolSize = 3
    MaxRestarts = 1
INVARIANTS
    WaitsEnd
    CreatedTenantIsAudited
PROPERTIES
    KeepsContract
    EveryCreationEnds
CHECK_DEADLOCK FALSE
