SPECIFICATION FairSpec
CONSTANTS
    MaxTasks = 3
    MaxWorkers = 3
    Pending = Pending
    Done = Done
    Canceled = Canceled
    None = None
CHECK_DEADLOCK FALSE
INVARIANTS NoPartialSuccess OneOwner Joined
PROPERTIES RefinesSpec Returns
