SPECIFICATION FairSpec
CONSTANTS
  Threads = {t1, t2}
  Bytes = {0, 1}
  Capacity = 2
  Writes <- LongAndShort
  Reads = {1, 3}
  Nobody = Nobody
INVARIANTS
  ErrorMovesNothing
PROPERTIES
  ZeroMeansEOF
  StreamSpec
  CloseEndsCalls
