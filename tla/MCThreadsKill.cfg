SPECIFICATION FairSpec
CONSTANTS
  Procs = {1, 2}
  Threads = {1, 2, 3}
  ProcOf <- TwoProcs
  Words = {0, 1, 2, 3, 50}
  Repertoires <- Kills
CHECK_DEADLOCK FALSE

  
PROPERTIES
  KillTerminatesRunning
