CONSTANTS
    Paths <- MCPaths
    Live = "live"
    Collide <- MCCollide
    Old = Old
    Missing = Missing
    Claimed = Claimed
    None = None
    MaxGenerations = 3
    MaxCommits = 2
    Items <- MCItems
    Followed <- MCFollowed
    Limit = 1
    MaxHigh = 2
    MaxDrawn = 2
    MaxCrashes = 1
SPECIFICATION FilesSpec
INVARIANTS NothingLost VerifiedRestoreIsExact FollowerIsExact
PROPERTY CatchesUp
