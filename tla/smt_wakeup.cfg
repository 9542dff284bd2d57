CONSTANTS
    Threads = {t1, t2}
    HighThreads = {t2}
    SignalThreads = {t1}
    OSThreads = {o1}
    Senders = {c1, c2}
    Stoppers = {}
    Timers = {c2}
    Nobody = Nobody
    Birth <- MCBirth
    MaxCalls = 2
    MaxSignals = 1
    MaxBlocks = 1
SPECIFICATION Spec
INVARIANTS TypeOK NoLostThread NoLostWakeup CountExact MethodsOrdered
PROPERTIES Served
CHECK_DEADLOCK FALSE
