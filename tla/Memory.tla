------------------------------- MODULE Memory -------------------------------
(* Physical frames and address spaces.  MemorySet takes a frame for free    *)
(* when no area holds it, which is what FrameAllocator shows of its callers *)
(* (FramesExact); the two are checked side by side, one in a behaviour.     *)
EXTENDS FrameAllocator, MemorySet

VARIABLE part   \* "frames" or "spaces", fixed

MemoryInit ==
  /\ FramesInit /\ Init
  /\ part \in {"frames", "spaces"}
  /\ part = "frames" => uses = CHOOSE r \in Repertoires : TRUE

MemoryNext == \/ part = "frames" /\ FramesNext /\ UNCHANGED <<vars, part>>
              \/ part = "spaces" /\ Next /\ UNCHANGED <<frameVars, part>>

MemorySpec == MemoryInit /\ [][MemoryNext]_<<frameVars, vars, part>>
=============================================================================
