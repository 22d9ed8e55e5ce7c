SPECIFICATION FairSpec
CONSTANTS
  Monitors <- OneMonitor
  AutoGoals <- OneMonitor
  Concurrency = 2
  Messages <- TwoMessages
  TooLong <- TheRefused
  Deliveries <- OneDelivery
  Attempts = 2
  Schedules <- TwoSchedules
  Recurring <- TheRecurring
  MaxArrivals = 2
  MaxTroubles = 2
INVARIANTS
  OneEventPerMessage
  OutboxTellsTruth
  ChangesAreTold
  OneGoalPerSlot
PROPERTIES
  PerceptionCatchesUp
  ReactorServes
