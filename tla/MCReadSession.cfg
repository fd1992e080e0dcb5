CONSTANTS
    None = None
    Legacy = Legacy
    Items = {a}
    Projections = {"summary", "work"}
    MaxFiles = 2
    MaxGenerations = 3
    MaxSchema = 2
    MaxRevision = 2
SPECIFICATION Spec
CONSTRAINT Bounded
INVARIANT RestartHasCause
PROPERTIES NotModifiedIsExact DeliveredIsCurrent ReportsNeverGoBack
