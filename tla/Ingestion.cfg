SPECIFICATION IngestionSpec
CONSTANTS
    Uploads = {u1, u2}
    Tenants = {t1, t2}
    DocumentIds = {d1}
    MaxChunks = 2
    MaxRestarts = 1
    Absent = Absent
    Chunkers <- MCChunkers
    Lengths <- MCLengths
INVARIANTS
    HitsAreOfOwnTenant
    RejectedIsNotFound
    AuditedIsStoredOrRefused
    IndexedIsFound
    ChunksCoverTheText
    NeighboursOverlap
CHECK_DEADLOCK FALSE
