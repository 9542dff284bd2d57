CONSTANTS
    primary = primary  backup = backup
    Peers = {primary, backup}
    Primary = primary
    Reliable = TRUE
    MaxStarts = 2
    MaxInbox = 2
SPECIFICATION Spec
INVARIANTS NoDualMasters
CHECK_DEADLOCK FALSE
