SPECIFICATION Spec
CONSTANTS
  Tasks <- OneTask
  Goals <- OneGoal
  GoalOf <- OneGoalOf
  DependsOn <- OneDependsOn
  Row <- OneRow
  MaxAttempts <- OneMaxAttempts
  Events <- OneEvents
  Keys <- OneKeys
  KeyOf <- OneKeyOf
  Audience <- OneAudience
  NoKey = "nokey"
  NoEvent = "noevent"
  NoGoal = "nogoal"
  MaxPc = 2
  MaxClaims = 2
  MaxCrashes = 1
  PauseIn = {"READY", "RUNNING", "WAITING"}
  Workflow <- OneWorkflow
  DoneEvent <- OneDone
  External = {"ext"}
  Clash = {}
  Refusable = {"a"}
  Budgeted = {"a"}
  Operator = {"pause", "cancel", "preempt"}
  MaxConcurrency = 2
  MaxSteps = 2
  MaxLapses = 1
  MaxControls = 1
  MaxStops = 1
INVARIANTS
  RunningHasRun
  EventsHandledOnce
PROPERTIES
  NoLostProgress
  ImplementsStore
