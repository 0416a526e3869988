CONSTANTS
  Comps = {"a", "b"}
  MaxDepth = 2
  MaxHops = 4
  MaxSize = 2
  Opens = {1, 2}
  Procs = {p1}
  Ids = {0, 1, 2}
  Keep = 9
  FsUses <- MCFsUses
  Pids = {1, 2}
  MaxFd = 3
  Objects = {1, 2}
  Named = {"f"}
  MaxLen = 2
  FdUses <- MCFdUses
  Readers = {1, 2}
  MaxTime = 6
  Values = {0, 1, 2}
  Abstime = TRUE
  BLOCK_SZ = 2
  INODE_DIRECT_COUNT = 1
  DATA_BLOCKS = 12
  INODES = 4
  Names = {1, 2, 3}
  Offsets = {0, 1, 4, 5, 12}
  Lengths = {2}
  Repertoires <- MCRepertoires
  Programs <- MCPrograms
SPECIFICATION FilesSpec
INVARIANTS  FollowsToDenoted ReadsExact EachExpirationOnce BlocksExact
PROPERTIES DroppedForGood  
CHECK_DEADLOCK FALSE
