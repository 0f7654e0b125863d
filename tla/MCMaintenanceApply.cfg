SPECIFICATION Spec
CONSTANTS
    n1 = n1
    w1 = w1
    w2 = w2
    p1 = p1
    Window = {w1, w2}
    Node = {n1}
    Package = {p1}
    Notifd = Notifd
    Document <- MCDocument
    Absent = Absent
    MaxOthers = 1
SYMMETRY WindowSymmetry
INVARIANTS
    MaintenanceInv
PROPERTIES
    AttachFollowsDefinition
CHECK_DEADLOCK FALSE
