CONSTANTS
    None = None
    Missing = Missing
    Unresolved = Unresolved
    Calls = {c1, c2, c3}
    c1 = c1
    c2 = c2
    c3 = c3
    Processes <- MCProcesses
    Supports <- MCSupports
    JournalVersion = 3
    Starts <- MCStarts
    MaxFaults = 2
    MaxOpens = 4
    Roots <- MCRoots
    Places <- MCPlaces
    Requesters <- MCRequesters
    Files <- MCFiles
    OsFile = "os"
    Length <- MCLength
    Environments <- MCEnvironments
    Orders <- MCOrders
    Projects <- MCProjects
    Dirs <- MCDirs
    Parent <- MCParent
    Names <- MCNames
    Canonical <- MCCanonical
    Repo <- MCRepo
    Remotes <- MCRemotes
    Targets <- MCTargets
    Keys <- MCKeys
    Jobs <- MCJobs
    Scenes <- MCScenes
SPECIFICATION SetupSpec
SYMMETRY Symmetry
INVARIANTS CommittedIsWhole CommandsLoadOneInit OneRegistrantIsAccepted
    CapturesHeedRegistrations SessionsInferOneMoment
PROPERTY OpenedIsCurrent
CHECK_DEADLOCK FALSE
