SPECIFICATION WaitsSpec
CONSTANTS
  Blocks = {0, 1, 2, 4}
  t1 = t1
  t2 = t2
  Tasks = {t1, t2}
  Nobody = Nobody
  BLOCKS_PER_PAGE = 2
  Repertoires <- All
  Contenders = {1, 2, 3}
  Permits = {0, 1}
  MaxCount = 1
CHECK_DEADLOCK FALSE
INVARIANTS
  QueueExact
  LocksExact
PROPERTIES
  ActsAsDisk
  
  LocksGranted
