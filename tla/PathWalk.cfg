SPECIFICATION ReportSpec
CONSTANTS
    Cnids = {2, 3, 4, 5, 6, 9}
    Names = {0, 3, 4, 5, 6}
    Volumes <- MCVolumes
    Bounds = {1, 2, 8}
    MaxFaults = 1
    Root = 2
    NoName = 0
    NoPath = NoPath
    Nothing = Nothing
    Absent = Absent
    OptionsFor <- MCOptionsFor
    Plain = Plain
    DefaultMax = 3
    System = {4}
    Tracked = 2
    MaxNotes = 1
    NoReport = NoReport
CHECK_DEADLOCK FALSE
INVARIANTS NothingInvented AgreesWithPathForCNID ClimbBounded ChildrenFollowUnevicted
           ListsTheSweep OrphansAnnounced
