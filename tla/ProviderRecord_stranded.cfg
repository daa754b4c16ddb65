SPECIFICATION Spec
CONSTANTS
    None = None
    k1 = k1
    k2 = k2
    k3 = k3
    Rkeys = {k1, k2, k3}
    OwnerKeys = {"active", "tier"}
    Settings = {"on", "off"}
    Txns = {1}
    Kinds = {"console"}
    Edits <- MCActiveOnly
    InitialPds <- MCRotatedOnly
    ConsoleAttempts = 2
    CliAttempts = 2
    AgentAttempts = 2
    MaxPublishes = 1
    MaxTime = 1
    MaxBreaks = 0
INVARIANTS
    IntentCarriedForward
CHECK_DEADLOCK FALSE
