SPECIFICATION Spec
CONSTANTS
    NULL = NULL
    Byte = {NL, a, b}
    NL = NL
    x = x  a = a  b = b
    Word = {"enrol", "generate"}
    Option <- MCOption
    FirstLetter <- MCFirstLetter
    Input <- Typed
    Terminal = {"tty", "pipe", "closed"}
    TerminalFails = TRUE
    Memory = {512}
    crypto_pwhash_MEMLIMIT_MODERATE = 256
    crypto_pwhash_MEMLIMIT_SENSITIVE = 1024
    LONGEST_VALID_PASSPHRASE = 4
    LONGEST_VALID_PIN = 3
    MaxOptions = 3
    MaxPins = 2
INVARIANTS
    FirstBytesUsed
