SPECIFICATION FairSpec
CONSTANTS
  Operations <- RiskyOperations
  Mode <- RiskyMode
  HasConfirm = {"order"}
  HasReconcile = {"order"}
  HasCompensate = {"mail", "order"}
  MaxReconcileAttempts = 2
  MaxReconciles = 2
  MaxCalls = 2
  MaxCrashes = 1
PROPERTY HousekeepingGoesOn
