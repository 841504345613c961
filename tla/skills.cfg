CONSTANTS
  Run = {p, q}
  Skills <- MCSkills
  OldSkill = {"first"}
  Replaces <- MCReplaces
  Home <- MCHome
  Repo <- MCRepo
  Claude = "claude"
  File <- MCFile
  Outside <- MCOutside
  Links <- MCLinks
  Initial <- MCInitial
  Edit = {e}
  Jobs <- MCJobs
  MaxRetired = 2
SYMMETRY Symmetry
SPECIFICATION Spec
INVARIANTS TypeOK EditsSurvive StaysInside
PROPERTY NeverBoth
CHECK_DEADLOCK FALSE
