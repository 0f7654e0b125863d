SPECIFICATION Spec
CONSTANTS
  Absent = Absent
  f1 = f1
  f2 = f2
  u1 = u1
  u2 = u2
  Fid <- Fids
  Uei <- Ueis
  Role <- Roles
  r1 = r1
  r2 = r2
SYMMETRY Symmetry
CHECK_DEADLOCK FALSE
INVARIANTS
  DocumentsInv
  AppliedIsServed
  ExportAppliesBack
