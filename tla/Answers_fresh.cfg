SPECIFICATION Spec
CONSTANTS
  c1 = c1
  c2 = c2
  rooney = rooney
  bruno = bruno
  mateus = mateus
  fernandes = fernandes
  Nothing = Nothing
  All = All
  Malformed = Malformed
  Invalid = Invalid
  Gap = Gap
  NoRows = NoRows
  Fatal = Fatal
  Unreadable = Unreadable
  NotPublished = NotPublished
  Artifact <- MCArtifact
  Approved = {"city", "villa"}
  AiMode = "enabled"
  Calls = {c1, c2}
  Requests <- MCRequests
  Facts <- MCFacts
  ModelOutputs <- MCModelOutputs
  FastLimit = 1
  HardLimit = 1
  HistoryLimit = 1
  MaxDay = 1
  Sessions <- MCSessions
SYMMETRY Symmetry
INVARIANTS TypeOK BudgetHeld AnsweredAsAsked
CHECK_DEADLOCK FALSE
