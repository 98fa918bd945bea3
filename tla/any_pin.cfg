SPECIFICATION Spec
CONSTANTS
    NULL = NULL
    Byte = {NL, a, b}
    NL = NL
    x = x  a = a  b = b
    Word = {"help", "version", "enrol", "generate", "enumerate", "other", NULL}
    Option <- MCOption
    FirstLetter <- MCFirstLetter
    Input <- Typed
    Terminal = {"pipe"}
    TerminalFails = FALSE
    Memory = {512, 513, 2048, 2049}
    crypto_pwhash_MEMLIMIT_MODERATE = 256
    crypto_pwhash_MEMLIMIT_SENSITIVE = 1024
    LONGEST_VALID_PASSPHRASE = 4
    LONGEST_VALID_PIN = 3
    MaxOptions = 4
    MaxPins = 0
INVARIANTS
    PinProhibitedElsewhere
