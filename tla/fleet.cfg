SPECIFICATION FleetSpec
CONSTANTS
  Machines = {1, 2, 3}
  Headless = {2}
  Attended = {3}
  MaxKeys = 2
  MaxClaims = 2
  MaxPartings = 1
  MaxMishaps = 1
  MaxPosts = 2
  Nodes = {1, 2}
  Roles = {{1}, {1, 2}}
  Ids = {1, 2, 3}
  MaxRecords = 2
  Batches <- MCBatches
  MaxEdits = 2
  MaxPurges = 2
  MaxFaults = 1
  MaxFlight = 2
  Devices = {1, 2}
  Controllers = {{1}, {1, 2}}
  Volumes = {1, 2}
  MaxAllocations = 2
  MaxIntents = 1
  MaxPlanEdits = 2
  MaxPlanFaults = 1
  MaxPlanFlight = 2
  Members = {1, 2}
  StoreSets = {{2}}
  Paths = {1}
  Bodies = {1, 2}
  Replicas = 2
  Quota = 1
  Gate = 1
  MaxInbound = 1
  MaxWrites = 2
  MaxCounter = 2
  MaxUpsets = 1
INVARIANTS
  FleetTypeOK
  KeyFollowsOwner
  OneAdmissionPerClaim
  StampNamesOneRecord
  NothingFromBeforeThePurge
  WinnerIsNewest
  StampNamesOneVersion
PROPERTIES
  DocumentNeverGoesBack
  CanvasConverges
  ExplicitChoiceStands
  ManagersPlanReachesAll
  HeldBodyStays
  LedgersConverge
CHECK_DEADLOCK FALSE
