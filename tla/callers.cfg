SPECIFICATION FairSpec
CONSTANTS
    NULL = NULL
    c = c  d = d  k = k  l = l
    Caller <- MCCaller
    SshKey <- MCSshKey
INVARIANTS
    SecretsApart
    SuccessMeansAnswered
PROPERTIES
    CallersEnd
