CONSTANTS
    None = None
    Priorities = {"P1"}
    Assignees = {"ana"}
    Reasons = {"why"}
    Notes = {"n"}
    Contents = {"task"}
    MaxI64 = 4
    Requesters = {"RA", "RB"}
    Projects = {"px"}
    Keys = {k1, k2, k3, k4, k5}
    Attributions = {"direct"}
    Mutations <- MCMutations
    Writers = {w1}
    MaxGenerations = 1
    MaxBackups = 0
    Watched <- MCWatched
    k1 = k1
    k2 = k2
    k3 = k3
    k4 = k4
    k5 = k5
    w1 = w1
SPECIFICATION Spec
SYMMETRY Symmetry
INVARIANTS AuditIsComplete JournalHasNoGaps EffectsCountedOnce ReplayIsSameRequest
PROPERTY ItemLivesItsLifecycle
