SPECIFICATION Spec
CONSTANTS
  Tasks <- PairTasks
  Goals <- PairGoals
  GoalOf <- PairGoalOf
  DependsOn <- PairDependsOn
  Row <- PairRow
  MaxAttempts <- PairMaxAttempts
  Events <- PairEvents
  Keys <- PairKeys
  KeyOf <- PairKeyOf
  Audience <- PairAudience
  NoKey = "nokey"
  NoEvent = "noevent"
  NoGoal = "nogoal"
  MaxPc = 5
  MaxClaims = 3
  MaxCrashes = 0
  PauseIn = {"READY", "RUNNING", "WAITING"}
  Workflow <- LongWorkflow
  DoneEvent <- PairDone
  External = {}
  Clash <- PairClash
  Refusable = {}
  Budgeted = {}
  Operator = {}
  MaxConcurrency = 2
  MaxSteps = 4
  MaxLapses = 0
  MaxControls = 0
  MaxStops = 0
INVARIANT ClaimsExclusive
