SPECIFICATION FairSpec
CONSTANTS
    NULL = NULL
    EmptyPin = EmptyPin
    full = full  bare = bare  u2f = u2f
    make1 = make1  make2 = make2  none = none
    Proc = {p}
    File = {}
    Unwritable = {}
    Port = {a, b, c}
    Device = {full, bare, u2f}
    Fido2 = {full, bare}
    HmacSecret = {full}
    Aaguid <- MCAaguid
    DevicePin <- MCDevicePin
    CredentialSize <- MCCredentialSize
    TypedPin = {}
    Plugged <- MCPlugged
    CommandLine <- MCCommandLine
    DiskMayFill = FALSE
    DeviceErrors = TRUE
    MaxDamages = 0
    MaxHotplugs = 2
    MaxPinRetries = 1
    MAX_DEVICES_TO_LIST = 64
    LARGEST_VALID_PAYLOAD_SIZE_BYTES = 10485760
INVARIANTS
    OneLineEach
    LinesAreTrue
PROPERTIES
    EnumerateEnds
