CONSTANTS
    Threads = {n1, n2, h}
    HighThreads = {h}
    SignalThreads = {}
    OSThreads = {o1}
    Senders = {c1}
    Stoppers = {}
    Timers = {}
    Nobody = Nobody
    Birth <- MCBirth
    MaxCalls = 4
    MaxSignals = 0
    MaxBlocks = 1
SPECIFICATION Spec
INVARIANTS EntryListed
CHECK_DEADLOCK FALSE
