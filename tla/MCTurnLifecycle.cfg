SPECIFICATION Spec
CONSTANTS
    Null = Null
    MAX_THREAD_MESSAGES = 9
    MAX_THREAD_CHECKPOINTS = 9
    MAX_THREAD_PLANS = 9
    MAX_THREAD_ACTIVITIES = 9
    T = T
    Turns <- TwoTurns
    RuntimeModes <- TwoModes
    MAX_BUFFERED_ASSISTANT_CHARS = 1
    Adapter = "codex"
    MaxChunks = 2
    MaxCommands = 3
    MaxFaults = 1
INVARIANTS
    SettledThreadAgrees
    TextIsComplete
    NoTurnStartIsLost
    StopAllStopsEverySession
CHECK_DEADLOCK FALSE
