SPECIFICATION Spec
CONSTANTS
    Null = Null
    MAX_THREAD_MESSAGES = 9
    MAX_THREAD_CHECKPOINTS = 9
    MAX_THREAD_PLANS = 9
    MAX_THREAD_ACTIVITIES = 9
    p1 = p1
    t1 = t1
    turn1 = turn1
    turn2 = turn2
    m1 = m1
    m2 = m2
    a1 = a1
    a2 = a2
    r1 = r1
    plan1 = plan1
    cmd = cmd
    Commands <- AttachmentCommands
    InitiallyInstalled <- Everything
    READ_LIMIT = 8
    MaxEvents = 8
    RollbackMayHappen = FALSE
    UploadsInterleave = TRUE
INVARIANTS
    FilesOutliveRows
CHECK_DEADLOCK FALSE
