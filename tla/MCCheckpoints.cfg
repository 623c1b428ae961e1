SPECIFICATION Spec
CONSTANTS
    Null = Null
    MAX_THREAD_MESSAGES = 9
    MAX_THREAD_CHECKPOINTS = 9
    MAX_THREAD_PLANS = 9
    MAX_THREAD_ACTIVITIES = 9
    MaxTurns = 2
    MaxEdits = 3
    EndStates = {"completed", "interrupted", "failed"}
    MaxReverts = 1
    MaxFailures = 1
    MaxBacklog = 1
INVARIANTS
    RevertsAreAnswered
    CheckpointsHaveRefs
    CheckpointsFollowConversation
    CheckpointsHoldTheirTurns
CHECK_DEADLOCK FALSE
