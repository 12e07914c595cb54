SPECIFICATION FilesSpec
CONSTANTS
  Members = {1, 2}
  StoreSets = {{2}}
  Paths = {1}
  Bodies = {1, 2}
  Replicas = 2
  Quota = 1
  Gate = 1
  MaxInbound = 1
  MaxWrites = 2
  MaxCounter = 2
  MaxUpsets = 1
PROPERTY OutOfDateStaysOld
CHECK_DEADLOCK FALSE
