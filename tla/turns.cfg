SPECIFICATION FairSpec
CONSTANTS
  Turns <- TwoTurns
  Users <- TwoUsers
  Tool <- TwoTool
  Capacity = 1
  Revocable = {"t"}
  Forbidden = {"t"}
  ToolLimit = 2
  DayLimit = 3
  MaxRounds = 2
  MaxFailures = 1
  MaxWaits <- Waits
  MaxAttempts = 5
  Disturbed = {"s"}
  MaxFaults = 1
INVARIANTS
  ApprovedOnly
  ChargedOnce
  BilledByAttempt
  OverdrawnByOverlap
PROPERTIES
  PoolIsSemaphore
  TurnsMove
CHECK_DEADLOCK FALSE
