CONSTANTS
    None = None
    Pages <- MCPages
    Singles <- MCSingles
    Budgets = {5, 6, 7, 8, 9, 10, 11, 12, 13, 14, 16, 20, 21}
    Maximum = 20
    PageRecords = 3
    MaxI64 = 3
    Needles = {"a", "A"}
    Fold <- MCFold
    Requesters = {1, 2}
    Projects = {1}
    Assignees = {1, 2}
    Priorities = {0}
    Times = {1, 2}
    Contents <- MCContents
    Requests <- MCRequests
    Backups <- MCBackups
    MaxSequence = 2
    MaxChanges = 2
    MaxGenerations = 2
    Scenes <- MCScenes
    Items = {"A", "B"}
    Missing = "C"
    Limits = {1, 2}
    MaxEvents = 2
    MaxRevision = 2
    MaxHistories = 2
SPECIFICATION ReadsSpec
INVARIANTS LongestPrefixSent MinimumIsEnough
    CursorIsHonouredInScope PagesAreAsInV1 ScanKeepsItsPromise HistoryIsGapless
PROPERTY EndsAtTheEnd
