SPECIFICATION FairSpec
CONSTANTS
    Requests = {r1, r2}
    Users = {u1, u2}
    Conversations = {c1}
    NoConversation = NoConversation
    Agents = {a1}
    Vias = {"direct", "supervisor"}
    RunIds = {k1}
    NoUsage = NoUsage
    MAX_TOOL_ROUNDS = 2
    MaxCalls = 2
    KeepTurns = 2
    ReadTurns = 1
    MaxCrashes = 1
INVARIANTS
    NoTurnLost
    FinalRowHasOwnUsage
    HistoryOfOwnConversation
    RefusedLeavesNoTurn
PROPERTIES
    KeepsContract
    EveryRequestEnds
CHECK_DEADLOCK FALSE
