SPECIFICATION FairSpec
CONSTANTS
    NULL = NULL
    UmountFails = TRUE
    MaxSignals <- MCMaxSignals
INVARIANTS
    TypeOK
    SecretOnlyOnRamfs
    NothingLeft
    OnlySecretsAdded
    SuccessMeansAdded
PROPERTIES
    ScriptEnds
