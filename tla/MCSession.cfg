SPECIFICATION FairSpec
CONSTANTS
    None = None
    Starts <- MCStarts
    Edits <- MCEdits
    Target = "prod"
    MaxActs = 1
    MaxAgain = 1
INVARIANTS
    InvocationInv
PROPERTIES
    TimeoutMeansUnseen
    CommandEnds
CHECK_DEADLOCK FALSE
