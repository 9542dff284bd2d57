CONSTANTS
    Threads = {t1, t2}
    HighThreads = {}
    SignalThreads = {t1}
    OSThreads = {o1}
    Senders = {c1}
    Stoppers = {c2}
    Timers = {}
    Nobody = Nobody
    Birth <- MCBirth
    MaxCalls = 1
    MaxSignals = 1
    MaxBlocks = 0
SPECIFICATION Spec
INVARIANTS NoLostWakeup QuietAtZero
PROPERTIES Stops
CHECK_DEADLOCK FALSE
