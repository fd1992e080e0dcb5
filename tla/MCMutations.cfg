CONSTANTS
    None = None
    Priorities = {"P1"}
    Assignees = {"ana", "clear", "none"}
    Reasons = {"why"}
    Notes = {"n"}
    Contents = {"task"}
    MaxI64 = 7
    Keys = {"k1", "k2", "k3"}
    Mutations <- ItemMutations
    Lower <- MCLower
    AssigneeId <- MCAssigneeId
    Requests <- MCRequests
    Hosts <- AllHosts
    Scenes <- MCScenes
    Calls = {c1, c2, c3}
    c1 = c1
    c2 = c2
    c3 = c3
SPECIFICATION MutationsSpec
SYMMETRY Symmetry
INVARIANTS TrailReconstructsItem AgentStaysInScope OneEffectPerKey SurfacesAgree CountFitsUnlessOvertaken
PROPERTIES TerminalFrozen PrereadRefusesRightly
CHECK_DEADLOCK FALSE
