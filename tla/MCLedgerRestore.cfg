CONSTANTS
    None = None
    Priorities = {"P1"}
    Assignees = {"ana"}
    Reasons = {"why"}
    Notes = {"n"}
    Contents = {"task"}
    MaxI64 = 2
    Requesters = {"RA"}
    Projects = {"px"}
    Keys = {k1, k2}
    Attributions = {"direct"}
    Mutations <- OneMutation
    Writers = {w1, w2}
    MaxGenerations = 3
    MaxBackups = 3
    Watched <- MCWatched
    k1 = k1
    k2 = k2
    w1 = w1
    w2 = w2
SPECIFICATION Spec
SYMMETRY Symmetry
INVARIANTS GenerationNamesOneHistory AcknowledgedSurvives
