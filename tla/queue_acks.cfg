CONSTANTS
    ch1 = ch1  ch2 = ch2
    c1 = c1  c2 = c2
    Channels = {ch1, ch2}
    Consumers = {c1, c2}
    ChannelOf <- Apart
    Nobody = Nobody
    NoAck = {}
    NoLocal = {}
    ExclusiveConsumers = {}
    Exclusive = FALSE
    Owner = Nobody
    AutoDelete = FALSE
    QueueTimeout = FALSE
    DropLimit = 0
    TrimLimit = 0
    KillLimit = 0
    Window = 1
    Requests = {"publish", "ack", "cancel", "close"}
    MaxPublish = 3
    MaxMailbox = 2
SPECIFICATION Spec
INVARIANTS TypeOK OneHome UnsentKept StrictOrder NoLostWakeup
CHECK_DEADLOCK FALSE
