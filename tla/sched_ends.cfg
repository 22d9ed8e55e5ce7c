SPECIFICATION FairSpec
CONSTANTS
  Tasks <- FanTasks
  Goals <- FanGoals
  GoalOf <- FanGoalOf
  DependsOn <- FanDependsOn
  Row <- FanRow
  MaxAttempts <- FanMaxAttempts
  Events <- FanEvents
  Keys <- FanKeys
  KeyOf <- FanKeyOf
  Audience <- FanAudience
  NoKey = "nokey"
  NoEvent = "noevent"
  NoGoal = "nogoal"
  MaxPc = 2
  MaxClaims = 9
  MaxCrashes = 0
  PauseIn = {"READY", "RUNNING", "WAITING"}
  Workflow <- FanWorkflow
  DoneEvent <- FanDone
  External = {}
  Clash = {}
  Refusable = {}
  Budgeted = {}
  Operator = {"preempt"}
  MaxConcurrency = 1
  MaxSteps = 2
  MaxLapses = 0
  MaxControls = 1
  MaxStops = 1
INVARIANT WaitersAreWoken
PROPERTIES
  GoalsEnd
