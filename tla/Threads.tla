------------------------------ MODULE Threads -------------------------------
(***************************************************************************)
(* Threads of a uniprocessor kernel: the ready queue and the running       *)
(* thread (task/manager.rs, task/processor.rs), futex wait queues          *)
(* (task/futex.rs, sys_futex), timed waits and interval timers (timer.rs), *)
(* signals that wake, stop or kill (sys_kill, handle_signals) and exit     *)
(* (exit_current_and_run_next).  Kernel code runs with interrupts off, so  *)
(* a thread gives up the processor only where it suspends, blocks or       *)
(* exits; timer interrupts arrive in user mode or in the idle loop.        *)
(***************************************************************************)
EXTENDS Integers, FiniteSets, SequencesExt

CONSTANTS Procs,       \* process identifiers, positive integers
          Threads,     \* threads, integers; a process's tasks in this order
          ProcOf,      \* the process of each thread
          Words,       \* futex words: the tid words, which are the threads,
                       \* and the program's own
          Repertoires  \* bounds: what the programs of a behaviour may do

(* A repertoire says which threads there are and bounds what they do: the  *)
(* futex modes, bit sets and own words they use, the threads whose tid     *)
(* words are waited for, whether a wait may carry a timeout and a process  *)
(* arm ITIMER_REAL, the signals they send and the ones with a handler, and *)
(* how many ready and futex queue entries there may be when a thread       *)
(* starts to wait (the number of threads is no bound at all).              *)

SIGKILL == 9
SIGALRM == 14
SIGCONT == 18
SIGSTOP == 19

ASSUME ThreadsAssumption ==
  /\ IsFiniteSet(Threads) /\ Threads \subseteq Nat \ {0}
  /\ Procs \subseteq Nat \ {0}
  /\ ProcOf \in [Threads -> Procs]
  /\ Words \subseteq Nat /\ Threads \subseteq Words
  /\ \A r \in Repertoires : /\ r.threads \cup r.joined \subseteq Threads /\ r.words \subseteq Words \ Threads
                            /\ r.modes \subseteq {"private", "shared"}
                            /\ r.timeouts \subseteq BOOLEAN
                            /\ r.handled \cap {SIGKILL, SIGSTOP} = {}

VARIABLES
  ready,     \* TaskManager.ready_queue
  current,   \* Processor.current, or Idle
  status,    \* TaskStatus of each thread
  pc,        \* where the thread continues when it runs
  life,      \* "live", "exited" (exit code set) or "gone" (TCB dropped)
  tidWord,   \* the word at clear_child_tid: 1 while the thread lives
  futexq,    \* FUTEX_Q: key -> queue of waiters
  wait,      \* key and timeout flag of the wait in progress
  timers,    \* threads with an entry in TIMERS
  intr,      \* interrupted_by_signal
  ppend,     \* process-level pending signals
  tpend,     \* thread-level pending signals
  handling,  \* handling_sig # -1: a user handler is running
  stopped,   \* group_stopped
  itimer,    \* the two clocks armed by setitimer(ITIMER_REAL)
  zombie,    \* is_zombie
  result,    \* what the last futex wait returned
  cause,     \* history: what ended the wait in progress
  uses       \* the repertoire of the behaviour

kernel == <<ready, current, status, pc, life>>
futexes == <<tidWord, futexq, wait, timers, intr, result, cause>>
signals == <<ppend, tpend, handling, stopped, itimer, zombie>>
vars == <<kernel, futexes, signals, uses>>

None == "None"
Idle == 0                       \* no running thread
Off == [real |-> FALSE, tick |-> FALSE, periodic |-> FALSE]
MatchAny == UNION uses.bitsets       \* FUTEX_BITSET_MATCH_ANY
Main(p) == CHOOSE t \in Threads : /\ ProcOf[t] = p
                                  /\ \A u \in Threads : ProcOf[u] = p => t <= u

(* The elements of S in the strict order Less.                             *)
Sorted(S, Less(_, _)) ==
  [i \in 1 .. Cardinality(S) |-> CHOOSE x \in S : Cardinality({y \in S : Less(y, x)}) = i - 1]
TaskSeq == Sorted(Threads, <)
Exists(t) == life[t] # "gone"   \* Weak<TaskControlBlock>::upgrade succeeds

(* Futex keys (addr, pid).  Word w has user address w and physical address *)
(* w + 100; word t is the clear_child_tid word of thread t, the others are *)
(* the program's own.  sys_futex keys a private futex by user address and  *)
(* pid, a shared one by physical address and pid 0.                        *)
PhysAddr(w) == w + 100
Key(w, p, mode) == IF mode = "private" THEN <<w, p>> ELSE <<PhysAddr(w), 0>>
Keys == {<<w, p>> : w \in Words, p \in Procs}
          \cup {<<PhysAddr(w), p>> : w \in Words, p \in Procs \cup {0}}
KeySeq == Sorted(Keys, LAMBDA a, b : a[1] < b[1] \/ (a[1] = b[1] /\ a[2] < b[2]))

Init ==
  /\ uses \in Repertoires
  /\ ready = SelectSeq(TaskSeq, LAMBDA t : t \in uses.threads)
  /\ current = Idle
  /\ status = [t \in Threads |-> "Ready"]
  /\ pc = [t \in Threads |-> "user"]
  /\ life = [t \in Threads |-> IF t \in uses.threads THEN "live" ELSE "gone"]
  /\ tidWord = [t \in Threads |-> 1]
  /\ futexq = [k \in Keys |-> <<>>]
  /\ wait = [t \in Threads |-> [key |-> <<0, 0>>, timed |-> FALSE]]
  /\ timers = {}
  /\ intr = [t \in Threads |-> FALSE]
  /\ ppend = [p \in Procs |-> {}]
  /\ tpend = [t \in Threads |-> {}]
  /\ handling = [t \in Threads |-> FALSE]
  /\ stopped = [p \in Procs |-> FALSE]
  /\ itimer = [p \in Procs |-> Off]
  /\ zombie = [p \in Procs |-> \A t \in uses.threads : ProcOf[t] # p]
  /\ result = [t \in Threads |-> None]
  /\ cause = [t \in Threads |-> None]

-----------------------------------------------------------------------------
(* Queue operations.                                                       *)

(* wakeup_task: the status becomes Ready and the thread is queued, with no *)
(* look at its present status.                                             *)
Woken(st, ts) == [t \in Threads |-> IF t \in ToSet(ts) THEN "Ready" ELSE st[t]]

(* History: what made a thread in a futex wait ready.  A wake that takes   *)
(* its entry counts even when a signal or the timer came first.            *)
Because(ts, why) ==
  [t \in Threads |-> IF t \in ToSet(ts) /\ pc[t] = "futex" /\ (why = "wake" \/ status[t] = "Blocked")
                     THEN why ELSE cause[t]]

Match(e, bits) == e.bits \cap bits # {}

(* The entries futex_wake_bitset removes: it scans until max threads are   *)
(* woken; a dead waiter is removed without being counted.                  *)
WakeSet(q, max, bits) ==
  {i \in DOMAIN q : /\ Match(q[i], bits)
                    /\ Cardinality({j \in 1 .. i - 1 : Match(q[j], bits) /\ Exists(q[j].task)}) < max}

Pick(q, I) == LET s == Sorted(I, <) IN [j \in DOMAIN s |-> q[s[j]]]

TasksAt(q, I) ==
  LET s == Sorted({i \in I : Exists(q[i].task)}, <) IN [j \in DOMAIN s |-> q[s[j]].task]

(* The removal test of futex_remove_waiter and futex_remove_waiter_any:    *)
(* the thread's own entry, or any entry whose thread is gone.              *)
Removable(e, t) == e.task = t \/ ~Exists(e.task)

(* futex_remove_waiter_any: the first removable entry of the first bucket  *)
(* that has one, in key order.                                             *)
RemoveAny(fq, t) ==
  LET hit == SelectInSeq(KeySeq, LAMBDA k : \E i \in DOMAIN fq[k] : Removable(fq[k][i], t))
  IN  IF hit = 0 THEN fq
      ELSE [fq EXCEPT ![KeySeq[hit]] = RemoveFirstMatch(@, LAMBDA e : Removable(e, t))]

(* The blocked threads of ts, in order, are taken out of the futex queues, *)
(* marked interrupted and queued (wake_task_for_signal and its copies).    *)
Blocked(ts) == SelectSeq(ts, LAMBDA t : status[t] = "Blocked")

TasksOf(p) == SelectSeq(TaskSeq, LAMBDA t : ProcOf[t] = p /\ life[t] # "gone")

(* `yield` is the caller when it suspends after the wakeups, else empty.   *)
SignalWake(ts, yield) ==
  /\ status' = Woken(status, ts \o yield)
  /\ ready' = ready \o ts \o yield
  /\ futexq' = FoldLeft(RemoveAny, futexq, ts)
  /\ intr' = [t \in Threads |-> t \in ToSet(ts) \/ intr[t]]
  /\ cause' = Because(ts, "signal")

-----------------------------------------------------------------------------
(* The scheduler.                                                          *)

(* run_tasks: the head of the ready queue runs, whatever its status.  An   *)
(* exited thread has no user memory to go on with: the behaviour ends.     *)
RunTasks ==
  /\ current = Idle
  /\ ready # <<>>
  /\ current' = Head(ready)
  /\ ready' = Tail(ready)
  /\ status' = [status EXCEPT ![Head(ready)] = "Running"]
  /\ pc' = [pc EXCEPT ![Head(ready)] = IF life[Head(ready)] = "live" THEN @ ELSE "dead"]
  /\ UNCHANGED <<uses, life, futexes, signals>>

(* The running thread is in user mode and enters the kernel.               *)
InUser(t) == current = t /\ pc[t] = "user"

(* suspend_current_and_run_next.                                           *)
Suspend(t) ==
  /\ ready' = Append(ready, t)
  /\ status' = [status EXCEPT ![t] = "Ready"]
  /\ current' = Idle

(* A syscall that polls: sys_yield, the loops of sys_nanosleep,            *)
(* sys_waitpid, pipes and sockets.                                         *)
SysYield(t) ==
  /\ InUser(t)
  /\ pc' = [pc EXCEPT ![t] = "trapret"]
  /\ Suspend(t)
  /\ UNCHANGED <<uses, life, futexes, signals>>

(* The end of a user timer interrupt, after its handle_signals.            *)
YieldAfterTick(t) ==
  /\ current = t /\ pc[t] = "yield"
  /\ pc' = [pc EXCEPT ![t] = "trapret"]
  /\ Suspend(t)
  /\ UNCHANGED <<uses, life, futexes, signals>>

-----------------------------------------------------------------------------
(* Timer interrupts.                                                       *)

(* A clock that fires is reloaded if it is periodic, else it is off.       *)
Rearmed(R, T) ==
  [p \in Procs |-> [real |-> IF p \in R THEN itimer[p].periodic ELSE itimer[p].real,
                    tick |-> IF p \in T THEN itimer[p].periodic ELSE itimer[p].tick,
                    periodic |-> itimer[p].periodic]]

(* check_timer and process_interval_timers.  Threads whose timed wait has  *)
(* expired are woken by wakeup_task in any status.  setitimer arms two     *)
(* clocks: check_itimers fires `real` and wakes blocked threads without    *)
(* taking them out of the futex queues; process_interval_timers fires      *)
(* `tick` and does take them out.  Expiry times are arbitrary.             *)
Tick ==
  \E E \in SUBSET timers, R \in SUBSET {p \in Procs : itimer[p].real},
     T \in SUBSET {p \in Procs : itimer[p].tick} :
  \E expired \in SetToSeqs(E) :
    LET st1 == Woken(status, expired)
        b1 == SelectSeq(TaskSeq, LAMBDA t : ProcOf[t] \in R /\ Exists(t) /\ st1[t] = "Blocked")
        st2 == Woken(st1, b1)
        b2 == SelectSeq(TaskSeq, LAMBDA t : ProcOf[t] \in T /\ Exists(t) /\ st2[t] = "Blocked")
        hit == ToSet(b1) \cup ToSet(b2)
    IN  /\ timers' = timers \ E
        /\ status' = Woken(st2, b2)
        /\ ready' = ready \o expired \o b1 \o b2
        /\ futexq' = FoldLeft(RemoveAny, futexq, b2)
        /\ intr' = [t \in Threads |-> t \in hit \/ intr[t]]
        /\ cause' = [t \in Threads |-> IF t \in E THEN Because(expired, "timeout")[t]
                                       ELSE Because(b1 \o b2, "signal")[t]]
        /\ ppend' = [p \in Procs |-> IF p \in R \cup T THEN ppend[p] \cup {SIGALRM} ELSE ppend[p]]
        /\ itimer' = Rearmed(R, T)

(* handle_user_time_interrupt: the tick, handle_signals, then suspend.     *)
UserTick(t) ==
  /\ InUser(t)
  /\ pc' = [pc EXCEPT ![t] = "tick"]
  /\ Tick
  /\ UNCHANGED <<uses, current, life, tidWord, wait, result, tpend, handling, stopped, zombie>>

(* A tick taken in the interrupt window of the idle loop (run_tasks).      *)
IdleTick ==
  /\ current = Idle
  /\ Tick
  /\ UNCHANGED <<uses, current, pc, life, tidWord, wait, result, tpend, handling, stopped, zombie>>

(* sys_setitimer(ITIMER_REAL) arms or disarms both clocks.                 *)
SetItimer(t, armed, periodic) ==
  /\ uses.itimers
  /\ InUser(t)
  /\ itimer' = [itimer EXCEPT ![ProcOf[t]] = [real |-> armed, tick |-> armed, periodic |-> periodic]]
  /\ pc' = [pc EXCEPT ![t] = "trapret"]
  /\ UNCHANGED <<uses, ready, current, status, life, futexes,
                 ppend, tpend, handling, stopped, zombie>>

-----------------------------------------------------------------------------
(* Futexes.                                                                *)

OwnWords(t) == uses.words \cup {u \in uses.joined : ProcOf[u] = ProcOf[t]}
Queued == FoldLeft(LAMBDA n, k : n + Len(futexq[k]), Len(ready) + 1, KeySeq)

(* The value check of FUTEX_WAIT.  A joiner waits while the tid word is    *)
(* still set; what the program's own word holds is up to the program.      *)
WordMatches(t, w) == w \in OwnWords(t) /\ (w \in Threads => w # t /\ tidWord[w] = 1)

(* FUTEX_WAIT and FUTEX_WAIT_BITSET up to the block: the stale interrupt   *)
(* flag is cleared, the waiter is queued, and the timeout is armed.        *)
FutexWait_StaleMark(t, w, mode, timed, bits) ==
  /\ InUser(t)
  /\ WordMatches(t, w)
  /\ Queued <= uses.queued
  /\ LET k == Key(w, ProcOf[t], mode)
     IN  /\ futexq' = [futexq EXCEPT ![k] = Append(@, [task |-> t, bits |-> bits])]
         /\ wait' = [wait EXCEPT ![t] = [key |-> k, timed |-> timed]]
  /\ timers' = IF timed THEN timers \cup {t} ELSE timers
  /\ cause' = [cause EXCEPT ![t] = None]
  /\ status' = [status EXCEPT ![t] = "Blocked"]
  /\ pc' = [pc EXCEPT ![t] = "futex"]
  /\ current' = Idle
  /\ UNCHANGED <<uses, intr, ready, life, tidWord, result, signals>>
FutexWait(t, w, mode, timed, bits) ==
  /\ InUser(t)
  /\ WordMatches(t, w)
  /\ Queued <= uses.queued
  /\ LET k == Key(w, ProcOf[t], mode)
     IN  /\ futexq' = [futexq EXCEPT ![k] = Append(@, [task |-> t, bits |-> bits])]
         /\ wait' = [wait EXCEPT ![t] = [key |-> k, timed |-> timed]]
  /\ timers' = IF timed THEN timers \cup {t} ELSE timers
  /\ intr' = [intr EXCEPT ![t] = FALSE]
  /\ cause' = [cause EXCEPT ![t] = None]
  /\ status' = [status EXCEPT ![t] = "Blocked"]
  /\ pc' = [pc EXCEPT ![t] = "futex"]
  /\ current' = Idle
  /\ UNCHANGED <<uses, ready, life, tidWord, result, signals>>

(* The rest of the wait, once the thread runs again: a timed wait takes    *)
(* its entry out of its own key's queue and reports ETIMEDOUT if there was *)
(* one to take; otherwise the interrupt flag decides.                      *)
FutexReturn(t) ==
  /\ current = t /\ pc[t] = "futex"
  /\ LET k == wait[t].key
         timedOut == wait[t].timed /\ \E i \in DOMAIN futexq[k] : Removable(futexq[k][i], t)
     IN  /\ futexq' = IF timedOut
                      THEN [futexq EXCEPT ![k] = RemoveFirstMatch(@, LAMBDA e : Removable(e, t))]
                      ELSE futexq
         /\ timers' = IF wait[t].timed THEN timers \ {t} ELSE timers
         /\ result' = [result EXCEPT ![t] = IF timedOut THEN "ETIMEDOUT"
                                            ELSE IF intr[t] THEN "EINTR" ELSE "0"]
  /\ intr' = [intr EXCEPT ![t] = FALSE]
  /\ pc' = [pc EXCEPT ![t] = "trapret"]
  /\ UNCHANGED <<uses, ready, current, status, life, tidWord, wait, cause, signals>>

(* Wake up to max matching waiters of key k.                               *)
WakeKey(k, max, bits) ==
  LET q == futexq[k]
      I == WakeSet(q, max, bits)
      ts == TasksAt(q, I)
  IN  /\ futexq' = [futexq EXCEPT ![k] = Pick(q, DOMAIN q \ I)]
      /\ ready' = ready \o ts
      /\ status' = Woken(status, ts)
      /\ cause' = Because(ts, "wake")

(* FUTEX_WAKE and FUTEX_WAKE_BITSET.                                       *)
FutexWake(t, w, mode, max, bits) ==
  /\ InUser(t)
  /\ w \in OwnWords(t)
  /\ futexq[Key(w, ProcOf[t], mode)] # <<>>
  /\ WakeKey(Key(w, ProcOf[t], mode), max, bits)
  /\ pc' = [pc EXCEPT ![t] = "trapret"]
  /\ UNCHANGED <<uses, current, life, tidWord, wait, timers, intr, result, signals>>

(* What futex_requeue leaves of the old queue after moving n waiters.      *)
RequeueRest_Keeps(rest, n) == rest
RequeueRest(rest, n) == SubSeq(rest, n + 1, Len(rest))

(* FUTEX_REQUEUE and FUTEX_CMP_REQUEUE: wake up to `wake` waiters of one   *)
(* word of the program and move up to `move` of the rest to another.       *)
FutexRequeue(t, w1, w2, mode, wake, move) ==
  /\ InUser(t)
  /\ LET old == Key(w1, ProcOf[t], mode)
         new == Key(w2, ProcOf[t], mode)
         q == futexq[old]
         I == WakeSet(q, wake, MatchAny)
         rest == Pick(q, DOMAIN q \ I)
         n == IF Len(rest) < move THEN Len(rest) ELSE move
         ts == TasksAt(q, I)
     IN  /\ q # <<>> /\ old # new
         /\ futexq' = [futexq EXCEPT ![old] = RequeueRest(rest, n),
                                     ![new] = @ \o SubSeq(rest, 1, n)]
         /\ ready' = ready \o ts
         /\ status' = Woken(status, ts)
         /\ cause' = Because(ts, "wake")
  /\ pc' = [pc EXCEPT ![t] = "trapret"]
  /\ UNCHANGED <<uses, current, life, tidWord, wait, timers, intr, result, signals>>

-----------------------------------------------------------------------------
(* Signals, all of them unmasked.                                          *)

(* sys_kill: the signal is added to the process and every blocked thread   *)
(* of it is woken; continuing a stopped process also yields.               *)
Kill(t, p, sig) ==
  /\ InUser(t)
  /\ ~zombie[p]
  /\ LET continues == sig = SIGCONT /\ stopped[p]
     IN  /\ SignalWake(Blocked(TasksOf(p)), IF continues THEN <<t>> ELSE <<>>)
         /\ current' = IF continues THEN Idle ELSE t
         /\ stopped' = [stopped EXCEPT ![p] = @ /\ ~continues]
  /\ ppend' = [ppend EXCEPT ![p] = @ \cup {sig}]
  /\ pc' = [pc EXCEPT ![t] = "trapret"]
  /\ UNCHANGED <<uses, life, tidWord, wait, timers, result, tpend, handling, itimer, zombie>>

(* sys_tkill to a thread of the caller's process.                          *)
Tkill(t, u, sig) ==
  /\ InUser(t)
  /\ ProcOf[u] = ProcOf[t] /\ life[u] = "live"
  /\ SignalWake(Blocked(<<u>>), <<>>)
  /\ tpend' = [tpend EXCEPT ![u] = @ \cup {sig}]
  /\ pc' = [pc EXCEPT ![t] = "trapret"]
  /\ UNCHANGED <<uses, current, life, tidWord, wait, timers, result,
                 ppend, handling, stopped, itimer, zombie>>

(* handle_signals runs on every return to user mode and in a user tick; it *)
(* deals with at most one signal.                                          *)
InHandleSignals(t) == current = t /\ pc[t] \in {"trapret", "tick"}
After(t) == IF pc[t] = "tick" THEN "yield" ELSE "user"

(* find_pending_signal: a process-level SIGKILL first, then the lowest     *)
(* thread-level signal, then the lowest process-level one.                 *)
Pending(t) == ppend[ProcOf[t]] \cup tpend[t]
Chosen_NoKillFirst(t) ==
  IF tpend[t] # {} THEN [sig |-> Min(tpend[t]), from |-> "thread"]
  ELSE [sig |-> Min(ppend[ProcOf[t]]), from |-> "process"]
Chosen(t) ==
  IF SIGKILL \in ppend[ProcOf[t]] THEN [sig |-> SIGKILL, from |-> "process"]
  ELSE IF tpend[t] # {} THEN [sig |-> Min(tpend[t]), from |-> "thread"]
  ELSE [sig |-> Min(ppend[ProcOf[t]]), from |-> "process"]

(* The reentrancy test: while a handler runs, every signal is deferred.    *)
Deferred(t) == handling[t] \/ Pending(t) = {}

TakeSignal(t) ==
  IF Chosen(t).from = "process"
  THEN ppend' = [ppend EXCEPT ![ProcOf[t]] = @ \ {Chosen(t).sig}] /\ tpend' = tpend
  ELSE tpend' = [tpend EXCEPT ![t] = @ \ {Chosen(t).sig}] /\ ppend' = ppend

NoSignal(t) ==
  /\ InHandleSignals(t)
  /\ Deferred(t)
  /\ pc' = [pc EXCEPT ![t] = After(t)]
  /\ UNCHANGED <<uses, ready, current, status, life, futexes, signals>>

(* A user handler is entered; SIGCONT without one resumes the group.       *)
DeliverSignal(t) ==
  /\ InHandleSignals(t)
  /\ ~Deferred(t)
  /\ Chosen(t).sig \in uses.handled \cup {SIGCONT}
  /\ TakeSignal(t)
  /\ handling' = [handling EXCEPT ![t] = Chosen(t).sig \in uses.handled]
  /\ stopped' = [stopped EXCEPT ![ProcOf[t]] = @ /\ Chosen(t).sig \in uses.handled]
  /\ pc' = [pc EXCEPT ![t] = After(t)]
  /\ UNCHANGED <<uses, ready, current, status, life, futexes, itimer, zombie>>

(* SIGSTOP blocks the thread that takes it.                                *)
StopSignal(t) ==
  /\ InHandleSignals(t)
  /\ ~Deferred(t)
  /\ Chosen(t).sig = SIGSTOP
  /\ TakeSignal(t)
  /\ stopped' = [stopped EXCEPT ![ProcOf[t]] = TRUE]
  /\ status' = [status EXCEPT ![t] = "Blocked"]
  /\ pc' = [pc EXCEPT ![t] = After(t)]
  /\ current' = Idle
  /\ UNCHANGED <<uses, ready, life, futexes, handling, itimer, zombie>>

Others(t) == SelectSeq(TasksOf(ProcOf[t]), LAMBDA u : u # t)

(* The threads that receive a copy of a fatal signal.                      *)
Injected_None(t) == <<>>
Injected(t) == Others(t)

(* A fatal signal is injected into every other thread of the process,      *)
(* those blocked are woken, and the thread exits.                          *)
FatalSignal(t) ==
  /\ InHandleSignals(t)
  /\ ~Deferred(t)
  /\ Chosen(t).sig \notin uses.handled \cup {SIGSTOP, SIGCONT}
  /\ SignalWake(Blocked(Injected(t)), <<>>)
  /\ LET sig == Chosen(t).sig
         fromProcess == Chosen(t).from = "process"
     IN  /\ tpend' = [u \in Threads |-> IF u \in ToSet(Injected(t)) THEN tpend[u] \cup {sig}
                                        ELSE IF u = t /\ ~fromProcess THEN tpend[u] \ {sig}
                                        ELSE tpend[u]]
         /\ ppend' = [ppend EXCEPT ![ProcOf[t]] = IF fromProcess THEN @ \ {sig} ELSE @]
  /\ pc' = [pc EXCEPT ![t] = "exit"]
  /\ UNCHANGED <<uses, current, life, tidWord, wait, timers, result, handling, stopped, itimer, zombie>>

(* rt_sigreturn ends the handler.                                          *)
SigReturn(t) ==
  /\ InUser(t)
  /\ handling[t]
  /\ handling' = [handling EXCEPT ![t] = FALSE]
  /\ pc' = [pc EXCEPT ![t] = "trapret"]
  /\ UNCHANGED <<uses, ready, current, status, life, futexes, ppend, tpend, stopped, itimer, zombie>>

-----------------------------------------------------------------------------
(* Exit.                                                                   *)

SysExit(t) ==
  /\ InUser(t)
  /\ pc' = [pc EXCEPT ![t] = "exit"]
  /\ UNCHANGED <<uses, ready, current, status, life, futexes, signals>>

(* sys_exit_group: SIGKILL for the other threads, then exit.               *)
ExitGroup(t) ==
  /\ InUser(t)
  /\ LET alive == SelectSeq(Others(t), LAMBDA u : life[u] = "live")
     IN  /\ SignalWake(Blocked(alive), <<>>)
         /\ tpend' = [u \in Threads |-> IF u \in ToSet(alive) THEN tpend[u] \cup {SIGKILL} ELSE tpend[u]]
  /\ pc' = [pc EXCEPT ![t] = "exit"]
  /\ UNCHANGED <<uses, current, life, tidWord, wait, timers, result,
                 ppend, handling, stopped, itimer, zombie>>

(* The keys under which exit wakes the waiters of clear_child_tid.         *)
ExitKeys_PrivateOnly(t) == <<<<PhysAddr(t), ProcOf[t]>>, <<PhysAddr(t), ProcOf[t]>>>>
ExitKeys(t) == <<<<PhysAddr(t), ProcOf[t]>>, <<PhysAddr(t), 0>>>>

(* remove_timer for each of ts.                                            *)
TimersWithout(ts) == timers \ ToSet(ts)

(* exit_current_and_run_next: clear the tid word and wake one waiter of    *)
(* each key; when the main thread or the last thread leaves, the process   *)
(* becomes a zombie, every task is taken off the ready queue and the       *)
(* timers, and all tasks but the main one are dropped.                     *)
Exit(t) ==
  /\ current = t /\ pc[t] = "exit"
  /\ LET p == ProcOf[t]
         I(k) == WakeSet(futexq[k], 1, MatchAny)
         ts == TasksAt(futexq[ExitKeys(t)[1]], I(ExitKeys(t)[1]))
                 \o TasksAt(futexq[ExitKeys(t)[2]], I(ExitKeys(t)[2]))
         last == t = Main(p) \/ \A u \in ToSet(Others(t)) : life[u] = "exited"
         mates == TasksOf(p)
         left == FoldLeft(RemoveFirst, ready \o ts, mates)
     IN  /\ futexq' = [k \in Keys |-> IF k \in ToSet(ExitKeys(t))
                                       THEN Pick(futexq[k], DOMAIN futexq[k] \ I(k))
                                       ELSE futexq[k]]
         /\ status' = Woken(status, ts)
         /\ cause' = Because(ts, "wake")
         /\ ready' = IF last THEN left ELSE ready \o ts
         /\ timers' = IF last THEN TimersWithout(mates) ELSE timers
         /\ zombie' = [zombie EXCEPT ![p] = @ \/ last]
         /\ life' = [u \in Threads |->
              IF last /\ u \in ToSet(mates)
              THEN IF u = Main(p) \/ u \in ToSet(left) THEN "exited" ELSE "gone"
              ELSE IF u = t THEN "exited" ELSE life[u]]
  /\ tidWord' = [tidWord EXCEPT ![t] = 0]
  /\ pc' = [pc EXCEPT ![t] = "dead"]
  /\ current' = Idle
  /\ UNCHANGED <<uses, wait, intr, result, ppend, tpend, handling, stopped, itimer>>

(* The steps a thread takes in the kernel, which nothing can hold up, and  *)
(* the steps its program chooses.                                          *)
KernelStep(t) ==
  \/ YieldAfterTick(t) \/ FutexReturn(t) \/ Exit(t)
  \/ NoSignal(t) \/ DeliverSignal(t) \/ StopSignal(t) \/ FatalSignal(t)

ProgramStep(t) ==
  \/ SysYield(t) \/ SigReturn(t) \/ SysExit(t) \/ ExitGroup(t)
  \/ \E armed, periodic \in BOOLEAN : SetItimer(t, armed, periodic)
  \/ \E w \in Words, m \in uses.modes, timed \in uses.timeouts, b \in uses.bitsets : FutexWait(t, w, m, timed, b)
  \/ \E w \in Words, m \in uses.modes, max \in 1 .. 2, b \in uses.bitsets : FutexWake(t, w, m, max, b)
  \/ \E w1, w2 \in uses.words, m \in uses.modes, n \in 0 .. 1 : FutexRequeue(t, w1, w2, m, n, 1)
  \/ \E p \in Procs, s \in uses.signals : Kill(t, p, s)
  \/ \E u \in Threads, s \in uses.signals : Tkill(t, u, s)

Next == RunTasks \/ IdleTick \/ \E t \in Threads : KernelStep(t) \/ UserTick(t) \/ ProgramStep(t)

Spec == Init /\ [][Next]_vars

(* The idle loop fetches for ever and kernel code runs to its next         *)
(* suspension.  Every tick re-arms the timer, and an interrupt that comes  *)
(* up during a syscall stays pending until user mode, so a thread that is  *)
(* in user mode again and again takes one.  A program may do nothing.      *)
Fairness == /\ WF_vars(RunTasks)
            /\ \A t \in Threads : WF_vars(KernelStep(t)) /\ SF_vars(UserTick(t))
FairSpec == Spec /\ Fairness

-----------------------------------------------------------------------------
(* Type invariant; TIMERS holds an Arc, so an entry of a thread that has   *)
(* exited would keep it alive and run it again.                            *)
TypeOK ==
  /\ ready \in Seq(Threads)
  /\ current \in Threads \cup {Idle}
  /\ status \in [Threads -> {"Ready", "Running", "Blocked"}]
  /\ pc \in [Threads -> {"user", "trapret", "tick", "yield", "futex", "exit", "dead"}]
  /\ life \in [Threads -> {"live", "exited", "gone"}]
  /\ \A k \in Keys : \A i \in DOMAIN futexq[k] : futexq[k][i].task \in Threads
  /\ timers \subseteq {t \in Threads : life[t] = "live"}

(* A timer queues a thread that a wake has already queued (wakeup_task     *)
(* does not look at the status), so some properties are stated without.    *)
Untimed == TRUE \notin uses.timeouts /\ ~uses.itimers

Entries(t) == UNION {{<<k, i>> : i \in {j \in DOMAIN futexq[k] : futexq[k][j].task = t}} : k \in Keys}
Waiting(t) == pc[t] = "futex" /\ status[t] = "Blocked"

(* No live thread is lost: one that is Ready is in the ready queue, and    *)
(* one that is blocked in a futex wait still has an entry by which a wake, *)
(* a requeue or the exit of another thread can find it.                    *)
NobodyForgotten ==
  \A t \in Threads : life[t] = "live" =>
    /\ status[t] = "Ready" => t \in ToSet(ready)
    /\ Waiting(t) => Entries(t) # {}

(* Nobody is forgotten, and the ready queue holds each runnable thread     *)
(* exactly once: never the running thread, never a blocked or an exited    *)
(* one.  wakeup_task and add_task queue a task without looking, so this    *)
(* rests on every caller.  And every futex queue entry belongs to a thread *)
(* that is blocked in a futex wait, one entry each: an entry that          *)
(* wait_bitset's thread left behind would swallow a later FUTEX_WAKE meant *)
(* for another waiter.                                                     *)
QueuesExact ==
  /\ TypeOK
  /\ NobodyForgotten
  /\ Untimed =>
       /\ \A i, j \in DOMAIN ready : ready[i] = ready[j] => i = j
       /\ \A t \in Threads :
            /\ t \in ToSet(ready) <=> (life[t] = "live" /\ status[t] = "Ready")
            /\ (life[t] = "live" /\ status[t] = "Running") => current = t
            /\ Exists(t) => Cardinality(Entries(t)) = IF Waiting(t) THEN 1 ELSE 0

Reports(t, r, c) == (result[t] = r /\ pc[t] # "futex" /\ life[t] = "live") => cause[t] = c

\* A futex wait that returns 0 was picked by a FUTEX_WAKE, a requeue or an exit.
ZeroMeansWoken == \A t \in Threads : Reports(t, "0", "wake")

(* A futex wait that returns EINTR was ended by a signal: an earlier one's *)
(* mark does not turn a FUTEX_WAKE into EINTR (futex.rs:55-58).  Not with  *)
(* ITIMER_REAL, whose wakeup leaves the entry for a FUTEX_WAKE to take.    *)
EintrMeansSignal == uses.itimers \/ \A t \in Threads : Reports(t, "EINTR", "signal")

\* Once a thread has exited, nobody is left waiting for its tid word.
JoinersWoken ==
  \A t, u \in Threads : (tidWord[t] = 0 /\ life[u] = "live" /\ Waiting(u)) =>
    \A m \in {"private", "shared"} : wait[u].key # Key(t, ProcOf[t], m)

(* A wakeup is neither made up nor missed.  A futex wait that returns 0    *)
(* was picked by a FUTEX_WAKE, a requeue or an exit (futex.rs:112, "Woken  *)
(* normally by futex_wake"), and once a thread has exited, nobody is left  *)
(* waiting for its tid word, as pthread_join does: exit wakes a private    *)
(* and a shared key "so that whichever futex mode musl/glibc use is woken" *)
(* (mod.rs:196-197).  The latter holds for programs that join in shared    *)
(* mode: sys_futex has another key for private waits, made of the user     *)
(* address.                                                                *)
WakesExact == ZeroMeansWoken /\ JoinersWoken

(* handle_signals never lets a thread go on to user mode with a SIGKILL    *)
(* pending for it: "if another signal is being handled, skip (except       *)
(* SIGKILL)" (mod.rs:572), and a process SIGKILL is found first.           *)
KillNotSkipped ==
  [][\A t \in Threads : (InHandleSignals(t) /\ pc[t]' # pc[t] /\ SIGKILL \in Pending(t))
                          => (pc[t]' = "exit" \/ uses.handled # {})]_vars

Doomed(p) == \/ SIGKILL \in ppend[p]
             \/ \E t \in Threads : ProcOf[t] = p /\ life[t] = "live" /\ SIGKILL \in tpend[t]

(* A SIGKILL for a process or one of its threads ends the whole process:   *)
(* it is injected into the other threads "to make sure that they exit when *)
(* they are next scheduled" (mod.rs:622).                                  *)
KillTerminates == \A p \in Procs : Doomed(p) ~> zombie[p]

(* The same, provided that every thread still has handle_signals ahead of  *)
(* it: none is in user mode already (a new thread, or one woken out of a   *)
(* stop, gets there unchecked), exiting by itself, or blocked.  So         *)
(* sys_kill leaves a process whose threads have all been running.          *)
KillTerminatesRunning ==
  \A p \in Procs :
    (/\ Doomed(p)
     /\ \A t \in Threads : (ProcOf[t] = p /\ life[t] = "live") =>
          ~Waiting(t) /\ pc[t] \notin {"user", "exit"})
      ~> zombie[p]
=============================================================================
