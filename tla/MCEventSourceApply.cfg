SPECIFICATION SourcesSpec
CONSTANTS
    Source = {"a", "b", "c"}
    CatchAll = "z"
    Manifests <- MCManifests
    Off = {"b"}
    Firsts <- MCFirsts
    Lives <- MCLives
    PageSize = 2
    MaxRuns = 2
    MaxOthers = 1
INVARIANTS
    EventSourceInv
    OrderIsVerified
PROPERTIES
    UnlistedKeepOrder
CHECK_DEADLOCK FALSE
