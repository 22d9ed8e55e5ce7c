SPECIFICATION FairSpec
CONSTANTS
  Assumptions = {a1, a2}
  Events = {e1, e2}
  Root = root
  Children = 1
  MaxFanOut = 2
  MaxClaims = 2
  MaxFaults = 1
  None = None
INVARIANTS
  FanOutHolds
  StaleIsShown
  NoticeIsKept
CHECK_DEADLOCK FALSE
PROPERTIES
  InvalidationsAnswered
