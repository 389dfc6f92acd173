SPECIFICATION Spec
CONSTANTS
    Runs = {r1}
    Threads = {t1}
    Conversations = {c1}
    NoConversation = NoConversation
    ReadTurns = 1
    NoUsage = NoUsage
    MAX_TOOL_ROUNDS = 2
INVARIANT OrdersRunOnce
SYMMETRY Symmetry
CHECK_DEADLOCK FALSE
