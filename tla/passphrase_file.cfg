SPECIFICATION Spec
CONSTANTS
    MaxDevices <- MCMaxDevices
    MaxOptions <- MCMaxOptions
INVARIANTS
    PassphraseFileIsZeroed
