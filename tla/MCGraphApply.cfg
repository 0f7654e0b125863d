SPECIFICATION FairSpec
CONSTANTS
    g1 = g1
    g2 = g2
    Graph = {g1, g2}
    OtherBox = OtherBox
    Found <- MCFound
    Absent = Absent
    Nobody = Nobody
    MaxOthers = 1
INVARIANTS
    GraphInv
    SilentSuccessIsServed
PROPERTIES
    CreateNeverReplaces
    ApplyEnds
CHECK_DEADLOCK FALSE
