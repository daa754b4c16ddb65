SPECIFICATION StandingSpec
CONSTANTS
    None = None
    m1 = m1
    m2 = m2
    j1 = j1
    Machines = {m1}
    Jobs = {j1}
    Pinned = {j1}
    Owner <- MCOwner
    Resumable = {}
    Capacity = 1
    MaxAttempts = 1
    Threshold = 1
    MaxSockets = 3
    MaxFaults = 2
    Watched = {m1}
PROPERTIES
    CooldownStands
    LiveEntryStays
    Rejoins
CHECK_DEADLOCK FALSE
