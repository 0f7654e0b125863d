SPECIFICATION Spec
CONSTANTS
    g1 = g1
    g2 = g2
    p1 = p1
    Group = {g1, g2}
    Package = {p1}
    Absent = Absent
    MaxOthers = 1
SYMMETRY GroupSymmetry
INVARIANTS
    ThresholdingInv
    WrittenPackageIsBound
    UnforcedDeleteIsSafe
PROPERTIES
    NoLostUpdate
CHECK_DEADLOCK FALSE
