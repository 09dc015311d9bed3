SPECIFICATION LinkSpec
CONSTANTS
    c1 = c1
    c2 = c2
    Callers <- MCCallers
    Cnids <- MCCnids
    Links <- MCLinks
    LinkVolumes <- MCVolumes
    MaxReadFaults = 1
    Unlooked = Unlooked
    Absent = Absent
    NotFound = NotFound
    Nothing = Nothing
SYMMETRY Symmetry
INVARIANT HealthyOpenRight
