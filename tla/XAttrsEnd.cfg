SPECIFICATION AllSpec
CONSTANTS
    Volumes <- MCVolumes
    Calls <- MCCalls
    Decmpfs = "cmp"
    MaxDepth = 3
    MaxFaults = 2
    ChunkSize = 2
    Conventional = 8
    Limit = 50
    Codecs = {"old", "new"}
    MaxChanges = 2
INVARIANT OpenEnds
