CONSTANTS
  claude = claude
  codex = codex
  claudeSkills = claudeSkills
  codexSkills = codexSkills
  Cmd = {c1, c2, c3}
  Agent <- Agents
  FolderOf <- Folders
  NoAgent = NoAgent
  Torn = Torn
  MinRuns = 2
  MaxDay = 1
  MaxLines = 1
  MaxFaults = 1
SYMMETRY Symmetry
SPECIFICATION FirstSpec
INVARIANTS TypeOK AskedOncePerMachine AnswersFollowQuestion OncePerDay
CHECK_DEADLOCK FALSE
