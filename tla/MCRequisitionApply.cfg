SPECIFICATION Spec
CONSTANTS
    Doc <- MCDoc
    Found <- MCFound
    Absent = Absent
    NoFs = NoFs
    NotRead = NotRead
    MaxRuns = 2
    MaxOthers = 1
INVARIANTS
    RequisitionInv
    ReapplyIsUnchanged
PROPERTIES
    RescanSeesWholeDocument
CHECK_DEADLOCK FALSE
