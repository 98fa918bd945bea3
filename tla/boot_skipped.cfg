SPECIFICATION Spec
CONSTANTS
    NULL = NULL
    Empty = Empty
    k1 = k1  k2 = k2  broken = broken  dot = dot
    s1 = s1  s2 = s2  padded = padded  trimmed = trimmed
    Entries <- MCEntries
    Keyfile = {k1, broken, k2}
    PassphraseOf <- MCPassphraseOf
    Line = {s1, s2, padded, Empty}
    Stripped <- MCStripped
    KernelParameters <- MCKernelParameters
    MountPoint = {"absent", "empty", "full", "file"}
    MaxHotplugs = 0
INVARIANTS
    BootGoesOn
