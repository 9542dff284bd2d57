CONSTANTS
    ch1 = ch1  ch2 = ch2
    c1 = c1  c2 = c2
    Channels = {ch1, ch2}
    Consumers = {c1, c2}
    ChannelOf <- Apart
    Nobody = Nobody
    NoAck = {}
    NoLocal = {}
    ExclusiveConsumers = {c2}
    Exclusive = TRUE
    Owner = ch1
    AutoDelete = TRUE
    QueueTimeout = TRUE
    DropLimit = 2
    TrimLimit = 0
    KillLimit = 1
    Window = 1
    Requests = {"publish", "cancel", "delete", "close"}
    MaxPublish = 3
    MaxMailbox = 2
SPECIFICATION FairSpec
INVARIANTS LimitsHold
PROPERTIES CancelCompletes SelfDestructCompletes
CHECK_DEADLOCK FALSE
