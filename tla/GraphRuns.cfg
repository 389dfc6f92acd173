SPECIFICATION OneOfEachKindSpec
CONSTANTS
    r1 = r1
    r2 = r2
    t1 = t1
    Runs = {r1, r2}
    Threads = {t1, t2}
    Conversations = {c1, c2}
    NoConversation = NoConversation
    ReadTurns = 1
    c1 = c1
    NoUsage = NoUsage
    MAX_TOOL_ROUNDS = 2
INVARIANTS
    ThreadsAreIsolated
    OnlyFinishedRunsAreKept
PROPERTIES
    KeepsContract
    EveryRunIsAnswered
CHECK_DEADLOCK FALSE
