CONSTANTS
  p1 = p1
  p2 = p2
  Proc = {p1, p2}
  Release = {1, 2, 3, 4}
  FirstSigned = 2
  SigOf <- Signatures
  Size = 2
  Machines <- UnixMachine
  Overlap = TRUE
  MaxFaults = 0
  MaxKills = 0
  NoFile = NoFile
SPECIFICATION Spec
INVARIANT BinaryWhole
CHECK_DEADLOCK FALSE
SYMMETRY ProcSymmetry
