CONSTANTS
    news = news
    Keys = {news}
    MaxForwards = 2
    MaxBinds = 2
    MaxStarts = 2
    MaxStops = 1
    MaxBreaks = 1
    MaxThreads = 2
    MaxMailbox = 1
SPECIFICATION FairSpec
INVARIANTS TypeOK BindingsAgree OnePlace ReceivedInOrder DropsNeedBreak
PROPERTIES Recovers
CHECK_DEADLOCK FALSE
