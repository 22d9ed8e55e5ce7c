SPECIFICATION Spec
CONSTANTS
  Tasks <- PairTasks
  Goals <- PairGoals
  GoalOf <- PairGoalOf
  DependsOn <- PairDependsOn
  Row <- PairRow
  MaxAttempts <- PairMaxAttempts
  Events <- PairEvents
  Keys <- PairKeys
  KeyOf <- PairKeyOf
  Audience <- PairAudience
  NoKey = "nokey"
  NoEvent = "noevent"
  NoGoal = "nogoal"
  MaxPc = 3
  MaxClaims = 3
  MaxCrashes = 0
  PauseIn = {"READY", "RUNNING", "WAITING"}
  Workflow <- TalkWorkflow
  DoneEvent <- PairDone
  External = {"ext"}
  Clash = {}
  Refusable = {}
  Budgeted = {}
  Operator = {}
  MaxConcurrency = 2
  MaxSteps = 2
  MaxLapses = 1
  MaxControls = 0
  MaxStops = 0
INVARIANTS
  UsedInOrder
