SPECIFICATION FairSpec
CONSTANTS
    None = None
    k1 = k1
    k2 = k2
    k3 = k3
    Rkeys = {k1, k2, k3}
    OwnerKeys = {"active", "tier"}
    Settings = {"on", "off"}
    Txns = {1, 2}
    Kinds = {"console", "cli", "remove"}
    Edits <- MCActiveOnly
    InitialPds <- MCInitialPds
    ConsoleAttempts = 2
    CliAttempts = 2
    AgentAttempts = 2
    MaxPublishes = 1
    MaxTime = 1
    MaxBreaks = 1
INVARIANTS
    TypeOK
    OwnerSettingKept
    HandledIsIndexed
PROPERTIES
    SiblingUntouched
    NewestCommitIndexed
CHECK_DEADLOCK FALSE
