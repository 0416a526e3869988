SPECIFICATION Spec
CONSTANTS
  p1 = p1
  p2 = p2
  p3 = p3
  p4 = p4
  PCBs = {p1, p2, p3, p4}
  INITPROC = p1
  Nobody = Nobody
  Repertoires <- Kills
INVARIANTS
  PidsReturned
