CONSTANTS
  p1 = p1
  p2 = p2
  Proc = {p1, p2}
  Release = {1, 2, 3, 4}
  FirstSigned = 2
  SigOf <- Signatures
  Size = 2
  Machines <- AnyMachine
  Overlap = FALSE
  MaxFaults = 2
  MaxKills = 1
  NoFile = NoFile
SPECIFICATION Spec
INVARIANTS TypeOK BinaryWhole
PROPERTY VerdictIsTrue
CHECK_DEADLOCK FALSE
SYMMETRY ProcSymmetry
