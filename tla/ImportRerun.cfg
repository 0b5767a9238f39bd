SPECIFICATION Spec
CONSTANTS
  None = None
  ValidEmails <- MCValidEmails
  HasDefaultZone = TRUE
  Files <- MCFiles
  Databases <- MCDatabases
  Elsewhere <- MCElsewhere
  Runs = {a}
  Kinds = {"full"}
  Trios = {}
  Before = {"empty"}
  Chunk = 2
  MaxAttempts = 2
  MaxFaults = 2
  MaxElsewhere = 0
CHECK_DEADLOCK FALSE
INVARIANT RerunFinishes
