SPECIFICATION Spec
CONSTANTS
    Null = Null
    x = x
    y = y
    c1 = c1
    c2 = c2
    Terminals <- XY
    ThreadOf <- OneThread
    Configs = {c1, c2}
    HISTORY_LIMIT = 1
    MAX_RETAINED_INACTIVE_SESSIONS = 1
    Refusals <- SecondRefuses
    MaxCalls = 3
    MaxProcesses = 2
    MaxOutputs = 1
INVARIANTS
    TranscriptIsSaved
    OneProcessPerTerminal
PROPERTIES
    StoppedProcessesDie
CHECK_DEADLOCK FALSE
