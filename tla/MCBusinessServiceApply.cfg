SPECIFICATION Spec
CONSTANTS
    a = a
    b = b
    c = c
    Service = {a, b, c}
    Declarable <- MCDeclarable
    Found <- MCFound
    Absent = Absent
    NoDoc = NoDoc
    MaxOthers = 1
INVARIANTS
    BusinessServiceInv
    WrittenIsActive
PROPERTIES
    WholeOrBare
CHECK_DEADLOCK FALSE
