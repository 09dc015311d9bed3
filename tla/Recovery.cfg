SPECIFICATION Spec
CONSTANTS
    Volumes <- MCVolumes
    Options <- MCOptions
    Width = 16
    BitsPerByte = 2
    BatchSize = 2
    NodeSize = 20
    DescSize = 2
    Bad = Bad
CHECK_DEADLOCK FALSE
INVARIANTS OnlyTheDead NothingMissed SameAsSequential CancelIsClean HighIsIntact CarvesExactlyFree
