---------------------------- MODULE KernelWaits -----------------------------
(* The block cache and the sleep locks, the two places apart from futexes  *)
(* in which a thread blocks in the kernel.  They share no state, so a      *)
(* behaviour uses one of them.                                             *)
EXTENDS BlockCache, SleepLocks

VARIABLE part   \* "blocks" or "locks", fixed

waitVars == <<vars, lockVars, part>>

WaitsInit ==
  /\ Init /\ LocksInit
  /\ \/ part = "blocks" /\ ~spins /\ permits = CHOOSE n \in Permits : TRUE
     \/ part = "locks" /\ uses = CHOOSE r \in Repertoires : TRUE

WaitsNext ==
  \/ part = "blocks" /\ Next /\ UNCHANGED <<lockVars, part>>
  \/ part = "locks" /\ LocksNext /\ UNCHANGED <<vars, part>>

(* The disk answers, the kernel goes on with what it has begun, and the    *)
(* ready queue gives every thread its turn.                                *)
WaitsSpec ==
  /\ WaitsInit /\ [][WaitsNext]_waitVars
  /\ \A t \in Tasks : WF_waitVars(Step(t) /\ UNCHANGED <<lockVars, part>>)
  /\ \A t \in Contenders : WF_waitVars(Resume(t) /\ UNCHANGED <<vars, part>>)
=============================================================================
