CONSTANTS
    ch1 = ch1  ch2 = ch2
    c1 = c1  c2 = c2
    Channels = {ch1}
    Consumers = {c1, c2}
    ChannelOf <- Together
    Nobody = Nobody
    NoAck = {}
    NoLocal = {}
    ExclusiveConsumers = {}
    Exclusive = FALSE
    Owner = Nobody
    AutoDelete = FALSE
    QueueTimeout = FALSE
    DropLimit = 0
    TrimLimit = 1
    KillLimit = 0
    Window = 1
    Requests = {"publish", "cancel", "purge", "get"}
    MaxPublish = 3
    MaxMailbox = 2
SPECIFICATION Spec
INVARIANTS SpendCovered StrictOrder LimitsHold
CHECK_DEADLOCK FALSE
