SPECIFICATION Spec
CONSTANTS
  None = None
  ValidEmails <- MCValidEmails
  HasDefaultZone = TRUE
  Files <- MCFiles
  Databases <- MCDatabases
  Elsewhere <- MCElsewhere
  Runs = {a}
  Kinds = {"full", "byManagerCode", "renameByCode", "retireByCode",
           "retireByEmail", "secondCode", "recode", "reuse", "newcomer", "namesake",
           "branch", "branchLater", "unreadable", "noUniversity", "retireIan", "alias",
           "poach"}
  Trios = {"full", "newcomer", "namesake", "byManagerCode", "renameByCode"}
  Before = {"empty", "staffed", "uncoded"}
  Chunk = 2
  MaxAttempts = 2
  MaxFaults = 1
  MaxElsewhere = 1
CHECK_DEADLOCK FALSE
INVARIANTS CleanRunImports SecondImportChangesNothing EveryPlanIsCounted LeadsAreManagersHere
PROPERTIES NobodyLeaves OnlyTheNamedAreRetired
