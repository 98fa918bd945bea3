SPECIFICATION Spec
CONSTANTS
    MaxDevices <- MCMaxDevices
    MaxOptions <- MCMaxOptions
INVARIANTS
    NoMemoryFault
    EnrolForgetsPassphraseAndPin
    GenerateForgetsKeyAndPassphrase
