CONSTANTS
    None = None
    Priorities = {"P1"}
    Assignees = {"ana"}
    Reasons = {"why"}
    Notes = {"n"}
    Contents = {"task"}
    MaxI64 = 3
    Requesters = {"RA"}
    Projects = {"px"}
    Keys = {k1, k2, k3}
    Attributions = {"direct"}
    Mutations <- OneMutation
    Writers = {w1}
    MaxGenerations = 1
    MaxBackups = 0
    Watched <- MCWatched
    k1 = k1
    k2 = k2
    k3 = k3
    w1 = w1
SPECIFICATION Spec
SYMMETRY Symmetry
INVARIANT ReplayReturnsCurrentItem
