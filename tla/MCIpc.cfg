SPECIFICATION IpcSpec
CONSTANTS
  Pids = {1, 2}
  Who <- TwoUsers
  Keys = {1}
  Modes <- TwoModes
  Types = {1, 2}
  MSGMAX = 2
  MSGMNB = 3
  SHMMAX = 4
  SHMMNI = 2
  SHMSEG = 2
  PAGE_SIZE = 2
  Sizes = {0, 1, 2}
  Frames = 3
  MaxStale = 1
  Programs <- MCPrograms
  Actors = {1, 2}
  FDs = {0, 1, 2}
  Names <- MCNames
  MaxRx = 1
  MaxHandles = 4
  FirstPort = 10
  LastPort = 12
  Retries = 1
  BufCap = 1
  MaxSent = 2
  Repertoires <- MCRepertoires
  IpcUses <- MCIpcUses
CHECK_DEADLOCK FALSE
INVARIANTS
  ReceivePicks
  
  UnixExact
  
  
PROPERTIES
  UdpDemux
