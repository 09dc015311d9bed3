SPECIFICATION Spec
CONSTANTS
    Volumes <- MCVolumes
    Cnids <- Either
    MaxRecord = 2
    Width = 8
    Sector = 2
    MaxInt = 511
    DefaultAlloc = 8
    NodeSize = 3
    MaxLen = 3
    MaxOffset = 7
CHECK_DEADLOCK FALSE
INVARIANTS TypeOK SoundForkExact CoversTotal
           WrittenBytesReported VolumePlaced OpenErrorsTell
PROPERTY ReadsAFile
