SPECIFICATION Spec
CONSTANTS
    NULL = NULL
    EmptyPin = EmptyPin
    e1 = e1  e2 = e2  g1 = g1  g2 = g2
    k1 = k1  k2 = k2
    a = a  b = b  c = c
    pinned = pinned  pinless = pinless  other = other  u2f = u2f
    s1 = s1  s2 = s2
    right = right  wrong = wrong
    m1 = m1
    make1 = make1  make2 = make2
    Proc = {e1, g1}
    File = {k1}
    Unwritable = {}
    Port = {a, b}
    Device = {pinned, pinless, other, u2f}
    Fido2 = {pinned, pinless, other}
    HmacSecret = {pinned, pinless}
    Aaguid <- MCAaguid
    DevicePin <- MCDevicePin
    CredentialSize <- MCCredentialSize
    TypedPin = {right}
    Plugged <- RacePlugged
    CommandLine <- DivergeCommandLine
    DiskMayFill = FALSE
    DeviceErrors = FALSE
    MaxDamages = 1
    MaxHotplugs = 0
    MaxPinRetries = 2
    MAX_DEVICES_TO_LIST = 64
    LARGEST_VALID_PAYLOAD_SIZE_BYTES = 10485760
INVARIANTS
    ModifiedNonceIsUseless
