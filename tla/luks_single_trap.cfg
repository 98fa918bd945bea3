SPECIFICATION Spec
CONSTANTS
    NULL = NULL
    UmountFails = TRUE
    MaxSignals <- MCMaxSignals
INVARIANTS
    SecretNeverOnDisk
