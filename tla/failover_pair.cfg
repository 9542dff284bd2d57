CONSTANTS
    primary = primary  backup = backup
    Peers = {primary, backup}
    Primary = primary
    Reliable = FALSE
    MaxStarts = 2
    MaxInbox = 2
SPECIFICATION FairSpec
INVARIANTS TypeOK NoDualSlaves
PROPERTIES Converges TakesOver
CHECK_DEADLOCK FALSE
