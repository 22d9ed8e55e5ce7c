SPECIFICATION StoreSpec
CONSTANTS
  Tasks <- ChainTasks
  Goals <- ChainGoals
  GoalOf <- ChainGoalOf
  DependsOn <- ChainDependsOn
  MaxAttempts <- ChainMaxAttempts
  Events <- ChainEvents
  Keys = {"k"}
  KeyOf <- ChainKeyOf
  Audience <- ChainAudience
  MaxPc = 0
  Row <- ChainRow
  PauseIn = {"READY", "WAITING", "BLOCKED"}
  MaxClaims = 1
  MaxCrashes = 1
  NoKey = NoKey
  NoEvent = NoEvent
  NoGoal = NoGoal
INVARIANTS
  DependenciesFirst
  VerdictIsFinal
  ActiveGoalCanMove
  NoLostWakeup
PROPERTY TerminalIsFinal
