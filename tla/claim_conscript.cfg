SPECIFICATION OwnershipSpec
CONSTANTS
  Machines = {1, 2, 3}
  Headless = {2}
  Attended = {1}
  MaxKeys = 2
  MaxClaims = 2
  MaxPartings = 2
  MaxMishaps = 1
  MaxPosts = 2
PROPERTY FounderNotConscripted
CHECK_DEADLOCK FALSE
