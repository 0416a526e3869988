------------------------------ MODULE Signals ------------------------------
(***************************************************************************)
(* Signal masks, dispositions and delivery inside one process:             *)
(* kill/tkill, sigaction, sigprocmask, sigreturn, rt_sigsuspend,           *)
(* rt_sigtimedwait, nanosleep and handle_signals                           *)
(* (os/src/task/mod.rs, os/src/syscall/process.rs).                        *)
(*                                                                         *)
(* Kernel code is not preempted, so a system call is one step up to the    *)
(* place where it suspends, and the step that returns to user mode runs    *)
(* handle_signals at its end, as user_trap_loop does.  The ready queue,    *)
(* futex waits and thread exit are the subject of Threads; here a thread   *)
(* runs user code, polls in a call, is stopped, or is gone.                *)
(***************************************************************************)
EXTENDS Integers, FiniteSetsExt

CONSTANTS Threads,      \* the threads of the process
          Main,         \* the one with tid 0
          Repertoires,  \* which signals, masks, actions and calls a run uses
          MAX_SENDS     \* bound on the signals sent in a behaviour

\* Signals are numbered from 1; a set of signals is a sigset_t.
ASSUME SignalsAssumption == \A r \in Repertoires :
    /\ r.signals \subseteq Nat \ {0} /\ r.masks \subseteq SUBSET r.signals
    /\ r.actions \subseteq [handler : {"dfl", "ign", "user", "unmapped"}, mask : SUBSET r.signals,
                            flags : SUBSET {"SIGINFO", "RESETHAND"}]

VARIABLES k,      \* what handle_signals reads and writes, as one record
          call,   \* the polling system call each thread is in
          own,    \* the mask the program of each thread has asked for
          sends, uses

vars == <<k, call, own, sends, uses>>

SIGKILL == 9
SIGCHLD == 17
SIGCONT == 18
SIGSTOP == 19
SIGCANCEL == 33
Unblockable == {SIGKILL, SIGSTOP}
DefaultIgnored == {SIGCHLD}

None == [sig |-> 0, backup |-> {}, info |-> FALSE]
NoSig == -1
InUser == [name |-> "user"]
DefaultAction == [handler |-> "dfl", mask |-> {}, flags |-> {}]

Init ==
    /\ uses \in Repertoires
    /\ k = [pending |-> {}, taskPending |-> [t \in Threads |-> {}],
            mask |-> [t \in Threads |-> {}], handling |-> [t \in Threads |-> NoSig],
            frame |-> [t \in Threads |-> None], blocked |-> {}, dead |-> {},
            action |-> [s \in uses.signals |-> DefaultAction]]
    /\ call = [t \in Threads |-> InUser]
    /\ own = [t \in Threads |-> {}]
    /\ sends = 0

Unmasked(s, t) == (s.pending \cup s.taskPending[t]) \ s.mask[t]
Runs(t) == t \notin k.dead \cup k.blocked

----------------------------------------------------------------------------
(* handle_signals *)

FindPending(processPending, taskPending) ==
    IF SIGKILL \in processPending THEN [sig |-> SIGKILL, process |-> TRUE]
    ELSE IF taskPending # {} THEN [sig |-> Min(taskPending), process |-> FALSE]
    ELSE [sig |-> Min(processPending), process |-> TRUE]

Cleared(s, t, found) ==
    IF found.process THEN [s EXCEPT !.pending = @ \ {found.sig}]
    ELSE [s EXCEPT !.taskPending[t] = @ \ {found.sig}]

\* exit_current_and_run_next: the main thread takes its siblings with it.
Exited(s, t) == [s EXCEPT !.dead = @ \cup (IF t = Main THEN Threads ELSE {t}),
                          !.blocked = @ \ (IF t = Main THEN Threads ELSE {t})]

\* The loops over the other threads before a fatal exit; opened is what they
\* lose from their masks.
Terminated(s, t, sig, opened) ==
    LET others == Threads \ ({t} \cup s.dead)
    IN  Exited([s EXCEPT
            !.taskPending = [o \in Threads |-> IF o \in others THEN @[o] \cup {sig} ELSE @[o]],
            !.mask = [o \in Threads |-> IF o \in others THEN @[o] \ opened ELSE @[o]],
            !.blocked = {}], t)

\* A SIGCHLD handler whose page is not mapped is replaced by the default.
Validated(s, sig) ==
    IF s.action[sig].handler = "unmapped" THEN [s EXCEPT !.action[sig] = DefaultAction] ELSE s

DefaultTaken(s, t, sig) ==
    IF sig \in DefaultIgnored \cup {SIGCONT} THEN s ELSE Terminated(s, t, sig, {sig})

Entered_BackupLate(s, t, sig) ==
    [s EXCEPT !.frame[t] = [sig |-> sig, backup |-> s.mask[t] \cup s.action[sig].mask,
                            info |-> "SIGINFO" \in s.action[sig].flags \/ sig = SIGCANCEL],
              !.mask[t] = @ \cup s.action[sig].mask \cup {sig},
              !.handling[t] = sig]

\* The user handler is entered: context and mask saved, sa_mask applied.
Entered(s, t, sig) ==
    [s EXCEPT !.frame[t] = [sig |-> sig, backup |-> s.mask[t],
                            info |-> "SIGINFO" \in s.action[sig].flags \/ sig = SIGCANCEL],
              !.mask[t] = @ \cup s.action[sig].mask \cup {sig},
              !.handling[t] = sig]

Taken(s, t, sig) ==
    IF sig = SIGSTOP THEN [s EXCEPT !.blocked = @ \cup {t}]
    ELSE IF sig = SIGKILL THEN Terminated(s, t, sig, {})
    ELSE LET v == Validated(s, sig)
         IN CASE v.action[sig].handler = "ign" -> v
              [] v.action[sig].handler = "dfl" -> DefaultTaken(v, t, sig)
              [] OTHER -> Entered(v, t, sig)

Ignored(s, sig) == \/ s.action[sig].handler = "ign"
                   \/ s.action[sig].handler = "dfl" /\ sig \in DefaultIgnored

HandleSignals_IgnoredStay(s, t) ==
    IF s.handling[t] # NoSig \/ Unmasked(s, t) = {} THEN s
    ELSE LET found == FindPending(s.pending \ s.mask[t], s.taskPending[t] \ s.mask[t])
         IN  IF found.sig \notin Unblockable /\ Ignored(s, found.sig) THEN s
             ELSE Taken(Cleared(s, t, found), t, found.sig)

\* One signal at most per return to user mode, none while a handler runs.
HandleSignals(s, t) ==
    IF s.handling[t] # NoSig \/ Unmasked(s, t) = {} THEN s
    ELSE LET found == FindPending(s.pending \ s.mask[t], s.taskPending[t] \ s.mask[t])
         IN  IF s.frame[t] # None /\ found.sig # SIGKILL THEN s
             ELSE Taken(Cleared(s, t, found), t, found.sig)

\* The end of user_trap_loop's body.
ToUser(t, s) ==
    /\ k' = HandleSignals(s, t)
    /\ call' = [call EXCEPT ![t] = InUser]

----------------------------------------------------------------------------
(* Sending *)

\* wake_task_for_signal on the stopped threads among ts.
Woken(s, ts, sig) ==
    [s EXCEPT !.blocked = {t \in @ : ~(t \in ts /\ (sig \notin s.mask[t] \/ sig \in {SIGKILL, SIGCONT}))}]

\* kill_single: the signal is pending for the process.
KillProcess(s, sig) == Woken([s EXCEPT !.pending = @ \cup {sig}], Threads, sig)
\* send_signal_to_task_from_list: for one thread.
KillTask(s, t, sig) == Woken([s EXCEPT !.taskPending[t] = @ \cup {sig}], {t}, sig)

Sent(sig, after(_)) ==
    /\ sends < MAX_SENDS
    /\ sends' = sends + 1
    /\ \/ after(KillProcess(k, sig))
       \/ \E target \in Threads \ k.dead : after(KillTask(k, target, sig))
    /\ UNCHANGED <<own, uses>>

\* From another process.
SendOutside == \E sig \in uses.signals :
    /\ k.dead # Threads
    /\ Sent(sig, LAMBDA s : k' = s /\ UNCHANGED call)

\* sys_kill, sys_tkill: from a thread of this process, which then returns.
Send(t) == \E sig \in uses.signals :
    /\ Runs(t) /\ call[t] = InUser
    /\ Sent(sig, LAMBDA s : ToUser(t, s))

----------------------------------------------------------------------------
(* Dispositions, masks and the return from a handler *)

InCode(t) == Runs(t) /\ call[t] = InUser

SigAction(t) == \E sig \in uses.signals \ Unblockable, a \in uses.actions :
    /\ InCode(t)
    /\ a.handler = "unmapped" => sig = SIGCHLD
    /\ ToUser(t, [k EXCEPT !.action[sig] = a])
    /\ UNCHANGED <<own, sends, uses>>

NewMask(how, old, set) ==
    LET new == set \ Unblockable
    IN (CASE how = "block" -> old \cup new
          [] how = "unblock" -> old \ new
          [] how = "set" -> new) \ Unblockable

\* What a handler does to its own mask ends with the handler.
SigProcMask(t) == \E how \in {"block", "unblock", "set"}, set \in uses.masks :
    /\ InCode(t)
    /\ ToUser(t, [k EXCEPT !.mask[t] = NewMask(how, @, set)])
    /\ own' = IF k.frame[t] = None THEN [own EXCEPT ![t] = NewMask(how, @, set)] ELSE own
    /\ UNCHANGED <<sends, uses>>

\* SA_RESETHAND, looked up when the handler returns.
ResetHand(s, sig) == IF "RESETHAND" \in s.action[sig].flags
                     THEN [s EXCEPT !.action[sig] = DefaultAction] ELSE s

\* With SA_SIGINFO the mask comes from the user's ucontext, which the handler
\* may have edited, together with the program counter (redirected).
ReturnMask(f, edited, redirected) ==
    (IF f.info THEN edited \ Unblockable ELSE f.backup)
        \ (IF f.sig = SIGCANCEL /\ redirected THEN {SIGCANCEL} ELSE {})

\* The mask goes back, then handling_sig; own follows what the handler asked for.
SigReturn(t) ==
    /\ InCode(t) /\ k.frame[t] # None
    /\ \E f \in {k.frame[t]} :
       \E edited \in {f.backup} \cup IF f.info THEN uses.masks ELSE {},
          redirected \in IF f.info THEN BOOLEAN ELSE {FALSE} :
          /\ ToUser(t, ResetHand([k EXCEPT !.frame[t] = None, !.handling[t] = NoSig,
                                           !.mask[t] = ReturnMask(f, edited, redirected)],
                                 k.handling[t]))
          /\ own' = [own EXCEPT ![t] = ReturnMask([f EXCEPT !.backup = own[t]],
                                           IF edited = f.backup THEN own[t] ELSE edited, redirected)]
    /\ UNCHANGED <<sends, uses>>

\* No frame: EINVAL, or SIGSEGV in the trampoline; an unreadable ucontext: SIGSEGV.
SigReturnFails(t) ==
    /\ InCode(t)
    /\ \/ k.frame[t] = None /\ ToUser(t, k)
       \/ /\ k.frame[t] = None \/ k.frame[t].info
          /\ k' = Exited([k EXCEPT !.frame[t] = None, !.handling[t] = NoSig], t)
          /\ UNCHANGED call
    /\ UNCHANGED <<own, sends, uses>>

----------------------------------------------------------------------------
(* Calls that poll: each turn looks at the pending signals and suspends *)

Suspends(t, s, c) == k' = s /\ call' = [call EXCEPT ![t] = c]

Enters(t, name) == InCode(t) /\ name \in uses.calls /\ UNCHANGED <<own, sends, uses>>
Resumes(t, name) == Runs(t) /\ call[t].name = name /\ UNCHANGED <<own, sends, uses>>

SuspendPoll_AnyPending(t, s, old) ==
    IF s.pending \cup s.taskPending[t] # {} THEN ToUser(t, [s EXCEPT !.mask[t] = old])
    ELSE Suspends(t, s, [name |-> "sigsuspend", old |-> old])

\* The loop of sys_rt_sigsuspend: the old mask is back before handle_signals looks.
SuspendPoll(t, s, old) ==
    IF Unmasked(s, t) # {} THEN ToUser(t, [s EXCEPT !.mask[t] = old])
    ELSE Suspends(t, s, [name |-> "sigsuspend", old |-> old])

SigSuspend(t) == \E set \in uses.masks :
    /\ Enters(t, "sigsuspend")
    /\ SuspendPoll(t, [k EXCEPT !.mask[t] = set \ Unblockable], k.mask[t])
SigSuspendTurn(t) == Resumes(t, "sigsuspend") /\ SuspendPoll(t, k, call[t].old)

\* The loop of sys_rt_sigtimedwait; its inner loop over signum stops at the
\* first signal that is waited for, or that interrupts.
TimedWaitPoll(t, c) ==
    LET any == k.pending \cup k.taskPending[t]
        stops == {sig \in any \ Unblockable :
                    sig \in c.set \/ (sig \notin k.mask[t] /\ ~Ignored(k, sig))}
    IN  IF any \cap Unblockable # {} THEN ToUser(t, k)                         \* EINTR
        ELSE IF stops # {} THEN
            LET sig == Min(stops)
            IN  ToUser(t, IF sig \notin c.set THEN k                           \* EINTR
                          ELSE Cleared(k, t, [sig |-> sig, process |-> sig \in k.pending]))
        ELSE \/ c.timed /\ ToUser(t, k)                                        \* EAGAIN
             \/ Suspends(t, k, c)

SigTimedWait(t) == \E set \in uses.masks, timed \in BOOLEAN :
    /\ Enters(t, "sigtimedwait")
    /\ set # {} \/ timed
    /\ TimedWaitPoll(t, [name |-> "sigtimedwait", set |-> set, timed |-> timed])
SigTimedWaitTurn(t) == Resumes(t, "sigtimedwait") /\ TimedWaitPoll(t, call[t])

\* sys_nanosleep: EINTR with an unmasked signal, 0 when the time is up.
SleepPoll(t) == \/ ToUser(t, k)
                \/ Unmasked(k, t) = {} /\ Suspends(t, k, [name |-> "nanosleep"])

NanoSleep(t) == Enters(t, "nanosleep") /\ SleepPoll(t)
NanoSleepTurn(t) == Resumes(t, "nanosleep") /\ SleepPoll(t)

\* The timer interrupt of user mode.
Tick(t) == InCode(t) /\ ToUser(t, k) /\ UNCHANGED <<own, sends, uses>>

Turn(t) == SigSuspendTurn(t) \/ SigTimedWaitTurn(t) \/ NanoSleepTurn(t) \/ Tick(t)

Next == \/ SendOutside
        \/ \E t \in Threads : \/ Send(t) \/ SigAction(t) \/ SigProcMask(t)
                              \/ SigReturn(t) \/ SigReturnFails(t)
                              \/ SigSuspend(t) \/ SigTimedWait(t) \/ NanoSleep(t)
                              \/ Turn(t)

\* The ready queue is first in, first out, and user code is interrupted by the
\* timer: a thread that can run gets its turn.  Nothing is assumed of programs.
Spec == Init /\ [][Next]_vars /\ \A t \in Threads : WF_vars(Turn(t))

----------------------------------------------------------------------------
(* Properties *)

Signums == UNION {r.signals : r \in Repertoires}

\* Every field has its type; a thread is handling a signal exactly while a
\* user context is saved for it (handling_sig and signal_trap_cx are two
\* fields that handle_signals and sys_sigreturn must change together).
TypeOK ==
    /\ k.pending \subseteq Signums /\ k.dead \subseteq Threads /\ k.blocked \subseteq Threads \ k.dead
    /\ \A t \in Threads : /\ k.taskPending[t] \cup k.mask[t] \subseteq Signums
                          /\ k.handling[t] = NoSig <=> k.frame[t] = None
                          /\ call[t].name \in {"user", "sigsuspend", "sigtimedwait", "nanosleep"}

\* Signal handlers and sigsuspend borrow the mask: outside of them a thread
\* has exactly the mask its program asked for (by sigprocmask, or by a handler
\* that edited its ucontext), the saved masks are that mask, and it never
\* blocks SIGKILL or SIGSTOP, whatever sa_mask, sigsuspend and handlers did.
MaskKept ==
    /\ TypeOK
    /\ k.dead = {} => \A t \in Threads :
        /\ own[t] \cap Unblockable = {}
        /\ k.frame[t] # None => k.frame[t].backup = own[t]
        /\ k.frame[t] = None => own[t] = IF call[t].name = "sigsuspend" THEN call[t].old ELSE k.mask[t]

\* A sigsuspend that has waited ends only for a signal that its own mask lets
\* through; the return then acts on one of the signals that the program's mask
\* lets through, and if there is none (or a handler called sigsuspend), the
\* signal that ended the wait is not lost: it stays pending until the program
\* unblocks it.
SuspendReturns ==
    [][\A t \in Threads : (call[t].name = "sigsuspend" /\ call'[t].name # "sigsuspend") =>
         LET pending == k.pending \cup k.taskPending[t]
             taken == (k.pending \ k'.pending) \cup (k.taskPending[t] \ k'.taskPending[t])
             open == pending \ call[t].old
         IN  /\ pending \ k.mask[t] # {}
             /\ taken \subseteq open
             /\ (open # {} /\ k.handling[t] = NoSig) => taken # {}]_vars

Awaits(t, sig) == /\ Runs(t) /\ sig \in Unmasked(k, t)
                  /\ sig \notin Unblockable => ~Ignored(k, sig)

\* Signals that a running thread does not block are acted upon: as long as no
\* thread stays in a handler for ever, and once signals stop arriving, none of
\* them remains pending, although handle_signals takes one signal at a time,
\* ignored ones too, and defers all of them while a handler runs.
PendingTaken ==
    (\A t \in Threads : []<>(k.frame[t] = None)) =>
        \A t \in Threads : []<>(\A sig \in uses.signals : ~Awaits(t, sig))
=============================================================================
