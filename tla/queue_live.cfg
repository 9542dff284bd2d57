CONSTANTS
    ch1 = ch1  ch2 = ch2
    c1 = c1  c2 = c2
    Channels = {ch1, ch2}
    Consumers = {c1, c2}
    ChannelOf <- Apart
    Nobody = Nobody
    NoAck = {c2}
    NoLocal = {c1}
    ExclusiveConsumers = {}
    Exclusive = FALSE
    Owner = Nobody
    AutoDelete = FALSE
    QueueTimeout = FALSE
    DropLimit = 0
    TrimLimit = 0
    KillLimit = 0
    Window = 1
    Requests = {"publish", "immediate", "flow", "ack", "cancel"}
    MaxPublish = 2
    MaxMailbox = 1
SPECIFICATION FairSpec
INVARIANTS NoLostWakeup
PROPERTIES CancelCompletes NoStarvation
CHECK_DEADLOCK FALSE
