SPECIFICATION FairSpec
CONSTANTS
    Unreliable = {"openai", "anthropic", "ollama", "mock"}
    MaxAttempts = 3
INVARIANTS
    AttemptsAreBounded
    UsageIsOfTheAnswer
    DegradesAfterAllAttempts
PROPERTY EveryCallIsAnswered
CHECK_DEADLOCK FALSE
