SPECIFICATION Spec
CONSTANTS
    d1 = d1
    d2 = d2
    d3 = d3
    user = user
    source = source
    graph = graph
    Doc = {d1, d2, d3}
    Kind = {user, source, graph}
    Unregistered = Unregistered
    Rank <- MCRank
    HaltInside = {graph}
SYMMETRY Symmetry
INVARIANTS
    TypeOK
    GateIsAllOrNothing
    HaltStopsLaterKinds
    RowsHideNoWrite
    ReportIsComplete
    SuccessMeansApplied
PROPERTY KeepsPromise
CHECK_DEADLOCK FALSE
