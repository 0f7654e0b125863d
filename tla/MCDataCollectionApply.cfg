SPECIFICATION Spec
CONSTANTS
    s1 = s1
    s2 = s2
    p1 = p1
    p2 = p2
    Source = {s1, s2}
    Profile = {p1, p2}
    Document <- MCDocument
    Absent = Absent
    MaxOthers = 1
SYMMETRY SourceSymmetry
INVARIANTS
    DataCollectionInv
    NeverOrphaned
CHECK_DEADLOCK FALSE
