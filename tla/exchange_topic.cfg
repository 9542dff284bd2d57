CONSTANTS
    q1 = q1
    q2 = q2
    t1 = t1
    NoQueue = NoQueue
    Kinds <- TopicOnly
    Threads = {t1}
    Queues = {q1, q2}
    NameOf <- OwnNames
    Exclusive = {q1}
    BindPairs <- MCBindPairs
    Messages <- MCMessages
    IndexKeys <- MCIndexKeys
    PcreMatches <- MCPcreMatches
    MaxBindings = 3
    MaxPosts <- MCMaxPosts
    MaxDeletes = 0
    MaxMailbox = 1
SPECIFICATION Spec
PROPERTIES RoutesAll
CHECK_DEADLOCK FALSE
