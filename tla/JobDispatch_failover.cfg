SPECIFICATION RequestSpec
CONSTANTS
    None = None
    m1 = m1
    m2 = m2
    j1 = j1
    Machines = {m1, m2}
    Jobs = {j1}
    Pinned = {}
    Owner <- MCOwner
    Resumable = {m1}
    Capacity = 1
    MaxAttempts = 2
    Threshold = 1
    MaxSockets = 3
    MaxFaults = 1
    Watched = {}
INVARIANTS
    TypeOK
    OutputOfAttempt
    BlamedOnce
PROPERTIES
    PromptInCustody
    EveryRequestEnds
CHECK_DEADLOCK FALSE
