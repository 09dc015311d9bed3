SPECIFICATION Spec
CONSTANTS
    Readers = {r1, r2}
    c1 = c1
    c2 = c2
    Cnids = {c1, c2}
    Nums = {1}
    LeafOf <- MCLeafOf
    MaxSize = 2
    Default = MacRoman
    Encodings = {MacRoman, Raw}
    Classic = TRUE
    Unicode = Unicode
    Idle = Idle
    Failed = Failed
    Absent = Absent
SYMMETRY Symmetry
INVARIANT CachesSound
PROPERTY Transparent
