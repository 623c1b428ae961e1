SPECIFICATION Spec
CONSTANTS
    Null = Null
    MAX_THREAD_MESSAGES = 4
    MAX_THREAD_CHECKPOINTS = 4
    MAX_THREAD_PLANS = 4
    MAX_THREAD_ACTIVITIES = 4
    p1 = p1
    t1 = t1
    m1 = m1
    c1 = c1
    c2 = c2
    c3 = c3
    c4 = c4
    s1 = s1
    Calls = {c1, c2, c3}
    CommandOf <- CreateTwice
    Subscribers = {s1}
    Faults <- AllFaults
INVARIANTS
    ExactlyOnce
    AnswersMatchReceipts
    DeliveredIsVisible
PROPERTIES
    ImplementsCommandLog
