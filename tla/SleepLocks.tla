----------------------------- MODULE SleepLocks -----------------------------
(***************************************************************************)
(* The locks that the kernel keeps for the threads of a process            *)
(* (sync/mutex.rs, semaphore.rs, condvar.rs, syscall/sync.rs): a mutex     *)
(* that spins or blocks, a counting semaphore and a condition variable.    *)
(* The kernel is not preempted, so a call is one step up to the place      *)
(* where it blocks or suspends.  Programs unlock, and wait with, a mutex   *)
(* that they hold (nothing records the holder), and no signal is sent to a *)
(* thread that blocks here: lock would return without the lock.            *)
(***************************************************************************)
EXTENDS Integers, Sequences

CONSTANTS Contenders,
          Permits,    \* bound: initial counts of the semaphore
          MaxCount    \* bound: the count that up raises to

ASSUME LocksAssumption == Permits \subseteq Nat /\ MaxCount \in Nat

VARIABLES spins,      \* whether the mutex is a MutexSpin, fixed
          permits,    \* the initial count of the semaphore, fixed
          locked,     \* MutexSpin.locked, MutexBlockingInner.locked
          mutexQueue, \* MutexBlockingInner.wait_queue
          count,      \* SemaphoreInner.count
          semQueue,   \* SemaphoreInner.wait_queue
          condQueue,  \* CondvarInner.wait_queue
          at,         \* the call that each thread is in: "user" is none
          blocked,    \* threads whose status is Blocked
          holds,      \* history: threads whose lock has returned
          inside      \* history: permits taken, by downs that need not wait (any more), and not returned

fixed == <<spins, permits>>
mutex == <<locked, mutexQueue, holds>>
semaphore == <<count, semQueue, inside>>
lockVars == <<fixed, mutex, semaphore, condQueue, at, blocked>>

(* sys_mutex_create, sys_semaphore_create, sys_condvar_create.             *)
LocksInit ==
  /\ spins \in BOOLEAN /\ permits \in Permits
  /\ locked = FALSE /\ mutexQueue = <<>> /\ holds = {}
  /\ count = permits /\ semQueue = <<>> /\ inside = 0
  /\ condQueue = <<>>
  /\ at = [t \in Contenders |-> "user"] /\ blocked = {}

-----------------------------------------------------------------------------
(* Mutex::lock, called by the program or at the end of a wait: the mutex   *)
(* is taken, or the thread suspends to try again, or it queues and blocks. *)
Lock(t) ==
  \/ /\ ~locked
     /\ locked' = TRUE /\ holds' = holds \cup {t}
     /\ at' = [at EXCEPT ![t] = "user"]
     /\ UNCHANGED <<mutexQueue, blocked>>
  \/ /\ locked /\ spins
     /\ at' = [at EXCEPT ![t] = "spin"]
     /\ UNCHANGED <<mutex, blocked>>
  \/ /\ locked /\ ~spins
     /\ mutexQueue' = Append(mutexQueue, t)
     /\ at' = [at EXCEPT ![t] = "mutex"]
     /\ blocked' = blocked \cup {t}
     /\ UNCHANGED <<locked, holds>>

(* Mutex::unlock: a waiter that is woken has the mutex from here on.       *)
Unlocks_Frees == [locked |-> FALSE, queue |-> IF mutexQueue = <<>> THEN <<>> ELSE Tail(mutexQueue),
                  woken |-> IF mutexQueue = <<>> THEN {} ELSE {Head(mutexQueue)}]
Unlocks_Last == LET n == Len(mutexQueue) IN
           IF spins \/ n = 0
           THEN [locked |-> FALSE, queue |-> mutexQueue, woken |-> {}]
           ELSE [locked |-> TRUE, queue |-> SubSeq(mutexQueue, 1, n - 1), woken |-> {mutexQueue[n]}]
Unlocks == IF spins \/ mutexQueue = <<>>
           THEN [locked |-> FALSE, queue |-> mutexQueue, woken |-> {}]
           ELSE [locked |-> TRUE, queue |-> Tail(mutexQueue), woken |-> {Head(mutexQueue)}]
Unlock(t) == /\ locked' = Unlocks.locked
             /\ mutexQueue' = Unlocks.queue
             /\ holds' = holds \ {t}

(* sys_mutex_lock and sys_mutex_unlock.                                    *)
SysMutexLock(t) ==
  /\ at[t] = "user" /\ t \notin holds
  /\ Lock(t)
  /\ UNCHANGED <<fixed, semaphore, condQueue>>
SysMutexUnlock(t) ==
  /\ at[t] = "user" /\ t \in holds
  /\ Unlock(t)
  /\ blocked' = blocked \ Unlocks.woken
  /\ UNCHANGED <<fixed, semaphore, condQueue, at>>

(* sys_semaphore_down and sys_semaphore_up.                                *)
SysSemaphoreDown(t) ==
  /\ at[t] = "user"
  /\ count' = count - 1
  /\ IF count - 1 < 0
     THEN /\ semQueue' = Append(semQueue, t)
          /\ at' = [at EXCEPT ![t] = "sem"]
          /\ blocked' = blocked \cup {t}
          /\ UNCHANGED inside
     ELSE inside' = inside + 1 /\ UNCHANGED <<semQueue, at, blocked>>
  /\ UNCHANGED <<fixed, mutex, condQueue>>
SysSemaphoreUp(t) ==
  /\ at[t] = "user" /\ count < MaxCount
  /\ count' = count + 1
  /\ IF count + 1 <= 0 /\ semQueue # <<>>
     THEN /\ semQueue' = Tail(semQueue)
          /\ blocked' = blocked \ {Head(semQueue)}
          /\ UNCHANGED inside
     ELSE inside' = inside - 1 /\ UNCHANGED <<semQueue, blocked>>
  /\ UNCHANGED <<fixed, mutex, condQueue, at>>

(* sys_condvar_signal and sys_condvar_wait: nothing runs between the       *)
(* unlock and the blocking of the waiter.                                  *)
SysCondvarSignal(t) ==
  /\ at[t] = "user" /\ condQueue # <<>>
  /\ condQueue' = Tail(condQueue)
  /\ blocked' = blocked \ {Head(condQueue)}
  /\ UNCHANGED <<fixed, mutex, semaphore, at>>
SysCondvarWait(t) ==
  /\ at[t] = "user" /\ t \in holds
  /\ Unlock(t)
  /\ condQueue' = Append(condQueue, t)
  /\ at' = [at EXCEPT ![t] = "cond"]
  /\ blocked' = (blocked \ Unlocks.woken) \cup {t}
  /\ UNCHANGED <<fixed, semaphore>>

(* A thread that was woken, or that suspended, runs again.                 *)
Resume(t) ==
  /\ t \notin blocked
  /\ \/ /\ at[t] \in {"spin", "cond"} /\ Lock(t)
        /\ UNCHANGED <<fixed, semaphore, condQueue>>
     \/ /\ at[t] = "mutex"
        /\ at' = [at EXCEPT ![t] = "user"] /\ holds' = holds \cup {t}
        /\ UNCHANGED <<fixed, semaphore, condQueue, locked, mutexQueue, blocked>>
     \/ /\ at[t] = "sem"
        /\ at' = [at EXCEPT ![t] = "user"]
        /\ UNCHANGED <<fixed, mutex, semaphore, condQueue, blocked>>

LocksNext == \E t \in Contenders :
  \/ SysMutexLock(t) \/ SysMutexUnlock(t)
  \/ SysSemaphoreDown(t) \/ SysSemaphoreUp(t)
  \/ SysCondvarSignal(t) \/ SysCondvarWait(t)
  \/ Resume(t)

LocksSpec == LocksInit /\ [][LocksNext]_lockVars

-----------------------------------------------------------------------------
\* The threads whose turn it is to have the mutex: it was handed to them.
Handed == {t \in Contenders : at[t] = "mutex" /\ t \notin blocked}

\* A queue has each of the threads that wait in the call once, and no other.
Once(q) == \A i, j \in 1 .. Len(q) : q[i] = q[j] => i = j
InQueue(t, q) == \E i \in 1 .. Len(q) : q[i] = t
Queues(q, call) == Once(q) /\ \A t \in Contenders : InQueue(t, q) <=> (at[t] = call /\ t \in blocked)

(* Type invariant.                                                         *)
LocksTypeOK ==
  /\ spins \in BOOLEAN /\ permits \in Nat /\ locked \in BOOLEAN
  /\ mutexQueue \in Seq(Contenders) /\ semQueue \in Seq(Contenders) /\ condQueue \in Seq(Contenders)
  /\ count \in Int /\ inside \in Int
  /\ at \in [Contenders -> {"user", "spin", "mutex", "sem", "cond"}]
  /\ blocked \subseteq {t \in Contenders : at[t] \in {"mutex", "sem", "cond"}}
  /\ holds \subseteq {t \in Contenders : at[t] \notin {"mutex", "cond", "spin"}}

\* Who has the mutex, also while unlock hands it to a waiter that has not run yet.
OneHolder ==
  /\ \A t, u \in holds \cup Handed : t = u
  /\ locked <=> holds \cup Handed # {}
  /\ ~locked \/ spins => mutexQueue = <<>>

\* The permits in use, and the negative count as the number of waiters.
PermitsCounted ==
  /\ Len(semQueue) = IF count < 0 THEN -count ELSE 0
  /\ inside + count + Len(semQueue) = permits

(* The mutex has one holder at a time and somebody has it whenever it is   *)
(* locked, so no waiter is left behind with a free mutex (unlock keeps     *)
(* `locked` when it wakes one).  The semaphore lets through exactly as     *)
(* many downs as it has permits, and its negative count is the number of   *)
(* waiters, which is what up's `count <= 0` relies on.  Each blocked       *)
(* thread is once in the queue of its call: nothing wakes it twice, and    *)
(* nothing misses it.                                                      *)
LocksExact ==
  /\ OneHolder /\ PermitsCounted
  /\ Queues(mutexQueue, "mutex") /\ Queues(semQueue, "sem") /\ Queues(condQueue, "cond")

(* Who waits in the queue of a blocking mutex gets it, if no holder keeps  *)
(* it for ever: the queue is first in, first out, and a lock that arrives  *)
(* between an unlock and the turn of the woken waiter cannot barge in.     *)
LocksGranted ==
  (\A t \in Contenders : []<>(t \notin holds)) => \A t \in Contenders : at[t] = "mutex" ~> t \in holds
=============================================================================
