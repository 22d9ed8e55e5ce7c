SPECIFICATION FairSpec
CONSTANTS
  A = A
  B = B
  m1 = m1
  m2 = m2
  pa = pa
  None = None
  Nodes <- Both
  Memories <- TwoMemories
  Home <- OneEach
  Providers <- OneProvider
  Remote <- OneProvider
  Pushes <- OnePush
  Pulls <- OnePull
  Activating <- OnePull
  SignedOnly <- JustB
  Trusts <- TrustsA
  MaxRequests = 3
  MaxTroubles = 1
INVARIANTS
  ActiveIsWanted
  NoEcho
CHECK_DEADLOCK FALSE
PROPERTIES
  MemoriesArrive
