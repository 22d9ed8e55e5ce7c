SPECIFICATION FairSpec
CONSTANTS
  Operations <- RiskyOperations
  Mode <- RiskyMode
  HasConfirm = {"order"}
  HasReconcile = {"order"}
  HasCompensate = {"mail", "order"}
  MaxReconcileAttempts = 2
  MaxReconciles = 3
  MaxCalls = 3
  MaxCrashes = 1
INVARIANTS
  NeverTwice
  RowTellsTruth
PROPERTIES
  NothingAfterCompensation
  HousekeepingSurvivesErrors
  CompensationShown
