SPECIFICATION Spec
CONSTANTS
    p = p
    q = q
    NoProject = NoProject
    Gone = Gone
    Missing = Missing
    Broken = Broken
    NoTask = NoTask
    Idle = Idle
    Closed = Closed
    Projects = {p, q}
    Files <- TwoProjects
    Finds = {TRUE}
    Scanned <- OneBuildSystem
    MaxTasks = 2
    MaxRuns = 2
CHECK_DEADLOCK FALSE
INVARIANTS
    TypeOK
    BuildsAreAnnounced
    RunsKeepTheirPty
    TasksFollowTheFile
    ButtonIsBacked
    PtysAreReleased
