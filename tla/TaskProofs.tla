----------------------------- MODULE TaskProofs -----------------------------
(***************************************************************************)
(* Proofs about what a process has: signals, masks and handlers, and       *)
(* descriptor tables.                                                      *)
(***************************************************************************)
EXTENDS Signals, Descriptors, FiniteSetTheorems, WellFoundedInduction, TLAPS

(* The time a prover has for a step, where the step does not say.          *)
USE SMTT(30)

(* Signals.  For every set of threads and of signals, and whatever         *)
(* programs do with masks, handlers and sigsuspend: a thread's mask is     *)
(* given back, and a sigsuspend ends for a signal that is then acted upon  *)
(* or kept.                                                                *)

Sigs == uses.signals
Actions == [handler : {"dfl", "ign", "user", "unmapped"}, mask : SUBSET Sigs,
            flags : SUBSET {"SIGINFO", "RESETHAND"}]
Frames == [sig : Nat, backup : SUBSET Sigs, info : BOOLEAN]
Kernels == [pending : SUBSET Sigs, taskPending : [Threads -> SUBSET Sigs],
            mask : [Threads -> SUBSET Sigs], handling : [Threads -> Int],
            frame : [Threads -> Frames], blocked : SUBSET Threads, dead : SUBSET Threads,
            action : [Sigs -> Actions]]
Calls == {InUser} \cup [name : {"sigsuspend"}, old : SUBSET Sigs]
         \cup [name : {"sigtimedwait"}, set : SUBSET Sigs, timed : BOOLEAN]
         \cup [name : {"nanosleep"}]

(* What handle_signals and sys_sigreturn change together.                  *)
Paired(s) == \A t \in Threads : s.handling[t] = NoSig <=> s.frame[t] = None
Sound(s) == s \in Kernels /\ Paired(s) /\ s.blocked \cap s.dead = {}

(* The mask of one thread, in kernel state s, when it is in call c and its *)
(* program has asked for the mask m.                                       *)
Lent(s, t, c, m) ==
  /\ m \cap Unblockable = {}
  /\ s.frame[t] # None => s.frame[t].backup = m
  /\ s.frame[t] = None => m = IF c.name = "sigsuspend" THEN c.old ELSE s.mask[t]

(* The inductive invariant.                                                *)
IInv ==
  /\ uses \in Repertoires
  /\ Sound(k)
  /\ call \in [Threads -> Calls]
  /\ own \in [Threads -> SUBSET Sigs]
  /\ k.dead = {} => \A t \in Threads : Lent(k, t, call[t], own[t])

-----------------------------------------------------------------------------
(* Min of a set of signals is one of them.                                 *)
LEMMA MinIsOne ==
  ASSUME NEW S, S \subseteq Nat, S # {}
  PROVE  Min(S) \in S
<1> DEFINE R == OpToRel(<, Nat)
<1>1. IsWellFoundedOn(R, Nat)
  BY ZenonT(30), NatLessThanWellFounded
<1>2. R = {ss \in Nat \X Nat : ss[1] < ss[2]}
  BY ZenonT(30) DEF R, OpToRel
<1> HIDE DEF R
<1>3. PICK i \in S : \A j \in S : ~ (<<j, i>> \in R)
  BY ZenonT(30), <1>1, WFMin
<1>4. ASSUME NEW j \in S PROVE i <= j
  <2>1. i \in Nat /\ j \in Nat /\ ~ (<<j, i>> \in R)
    BY ZenonT(30), <1>3
  <2>2. ~ (j < i)
    BY ZenonT(30), <2>1, <1>2
  <2> QED
    BY <2>1, <2>2
<1> QED
  BY ZenonT(30), <1>4 DEF Min

(* What becomes of kernel state s when thread t acts on a signal, or does  *)
(* not: r is sound, takes nobody back from the dead, and unless somebody   *)
(* dies only t's mask and frame change, and these by entering a handler.   *)
Moves(s, r, t) ==
  /\ Sound(r)
  /\ s.dead \subseteq r.dead
  /\ r.dead = {} => /\ \A u \in Threads \ {t} : r.mask[u] = s.mask[u] /\ r.frame[u] = s.frame[u]
                    /\ \/ r.frame[t] = s.frame[t] /\ r.mask[t] = s.mask[t]
                       \/ s.frame[t] = None /\ r.frame[t] # None /\ r.frame[t].backup = s.mask[t]
Acts(s, r, t) == Moves(s, r, t) /\ r.pending = s.pending /\ r.taskPending[t] = s.taskPending[t]

(* A fatal signal.                                                         *)
LEMMA TerminatedActs ==
  ASSUME NEW s, Sound(s), NEW t \in Threads, NEW sig \in Sigs, NEW opened
  PROVE  Acts(s, Terminated(s, t, sig, opened), t)
<1> DEFINE others == Threads \ ({t} \cup s.dead)
           m == [s EXCEPT
            !.taskPending = [o \in Threads |-> IF o \in others THEN @[o] \cup {sig} ELSE @[o]],
            !.mask = [o \in Threads |-> IF o \in others THEN @[o] \ opened ELSE @[o]],
            !.blocked = {}]
           r == Terminated(s, t, sig, opened)
<1>1. s \in Kernels
  BY ZenonT(30) DEF Sound
<1>2. m \in Kernels /\ m.handling = s.handling /\ m.frame = s.frame /\ m.dead = s.dead
      /\ m.pending = s.pending /\ m.taskPending[t] = s.taskPending[t] /\ m.blocked = {}
  BY ZenonT(30), <1>1 DEF Kernels
<1> HIDE DEF m
<1>3. PICK D : D \subseteq Threads /\ t \in D /\ r = [m EXCEPT !.dead = @ \cup D, !.blocked = @ \ D]
  <2>1. r = Exited(m, t)
    BY ZenonT(30) DEF Terminated, m
  <2> QED
    BY ZenonT(30), <2>1 DEF Exited
<1>4. r \in Kernels /\ r.handling = m.handling /\ r.frame = m.frame /\ t \in r.dead /\ m.dead \subseteq r.dead
      /\ r.pending = m.pending /\ r.taskPending = m.taskPending /\ r.blocked = {}
  BY ZenonT(30), <1>2, <1>3 DEF Kernels
<1> QED
  BY <1>2, <1>4 DEF Acts, Moves, Sound, Paired

(* The user handler is entered.                                            *)
LEMMA EnteredActs ==
  ASSUME NEW s, Sound(s), NEW t \in Threads, NEW sig \in Sigs, s.frame[t] = None,
         uses \in Repertoires
  PROVE  Acts(s, Entered(s, t, sig), t)
<1> DEFINE f == [sig |-> sig, backup |-> s.mask[t],
                 info |-> "SIGINFO" \in s.action[sig].flags \/ sig = SIGCANCEL]
           r == Entered(s, t, sig)
<1>1. s \in Kernels /\ sig \in Nat \ {0}
  BY ZenonT(30), SignalsAssumption DEF Sound, Sigs
<1>2. f \in Frames /\ f # None /\ f.backup = s.mask[t] /\ sig # NoSig
  BY <1>1 DEF Frames, None, NoSig, Kernels
<1>3. s.action[sig].mask \subseteq Sigs
  BY ZenonT(30), <1>1 DEF Kernels, Actions
<1> HIDE DEF f
<1>4. r = [s EXCEPT !.frame[t] = f, !.mask[t] = @ \cup s.action[sig].mask \cup {sig}, !.handling[t] = sig]
  BY ZenonT(30) DEF Entered, f
<1>5. r \in Kernels
  <2>1. [s.frame EXCEPT ![t] = f] \in [Threads -> Frames] /\ [s.handling EXCEPT ![t] = sig] \in [Threads -> Int]
    BY <1>1, <1>2 DEF Kernels
  <2>2. [s.mask EXCEPT ![t] = @ \cup s.action[sig].mask \cup {sig}] \in [Threads -> SUBSET Sigs]
    BY ZenonT(30), <1>1, <1>3 DEF Kernels
  <2> QED
    BY ZenonT(30), <1>1, <1>4, <2>1, <2>2 DEF Kernels
<1>6. /\ r.frame[t] = f /\ r.handling[t] = sig
      /\ \A u \in Threads \ {t} : r.frame[u] = s.frame[u] /\ r.handling[u] = s.handling[u] /\ r.mask[u] = s.mask[u]
      /\ r.blocked = s.blocked /\ r.dead = s.dead /\ r.pending = s.pending /\ r.taskPending = s.taskPending
  BY <1>1, <1>4 DEF Kernels
<1> QED
  BY ZenonT(30), <1>2, <1>5, <1>6 DEF Acts, Moves, Sound, Paired

(* The actions of handle_signals.                                          *)
LEMMA TakenActs ==
  ASSUME NEW s, Sound(s), NEW t \in Threads, NEW sig \in Sigs, uses \in Repertoires,
         s.frame[t] = None \/ sig = SIGKILL, t \notin s.dead
  PROVE  Acts(s, Taken(s, t, sig), t)
<1> DEFINE v == Validated(s, sig)
<1>1. s \in Kernels
  BY ZenonT(30) DEF Sound
<1>2. Acts(s, s, t)
  BY ZenonT(30) DEF Acts, Moves
<1>3. /\ Sound(v) /\ v.frame = s.frame /\ v.mask = s.mask /\ v.dead = s.dead
      /\ v.pending = s.pending /\ v.taskPending = s.taskPending
  <2>1. DefaultAction \in Actions
    BY ZenonT(30) DEF DefaultAction, Actions
  <2> QED
    BY ZenonT(30), <1>1, <2>1 DEF Validated, Sound, Paired, Kernels
<1> HIDE DEF v
<1>4. ASSUME NEW r, Acts(v, r, t) PROVE Acts(s, r, t)
  BY ZenonT(30), <1>3, <1>4 DEF Acts, Moves
<1>5. CASE sig = SIGSTOP
  <2>1. Taken(s, t, sig) = [s EXCEPT !.blocked = @ \cup {t}]
    BY ZenonT(30), <1>5 DEF Taken
  <2> QED
    BY <1>1, <2>1 DEF Acts, Moves, Sound, Paired, Kernels
<1>6. CASE sig = SIGKILL
  BY <1>6, TerminatedActs DEF Taken, SIGKILL, SIGSTOP
<1>7. CASE sig \notin {SIGSTOP, SIGKILL}
  <2>1. CASE v.action[sig].handler = "ign"
    BY ZenonT(30), <1>2, <1>3, <1>4, <1>7, <2>1 DEF Taken, v, Acts, Moves
  <2>2. CASE v.action[sig].handler = "dfl"
    <3>1. Taken(s, t, sig) = DefaultTaken(v, t, sig)
      BY ZenonT(30), <1>7, <2>2 DEF Taken, v
    <3>2. Acts(v, v, t)
      BY ZenonT(30), <1>3 DEF Acts, Moves
    <3>3. Acts(v, Terminated(v, t, sig, {sig}), t)
      BY ZenonT(30), <1>3, TerminatedActs
    <3>4. Acts(v, DefaultTaken(v, t, sig), t)
      BY ZenonT(30), <3>2, <3>3 DEF DefaultTaken
    <3> QED
      BY ZenonT(30), <3>1, <3>4, <1>4
  <2>3. CASE v.action[sig].handler \notin {"ign", "dfl"}
    <3>1. Taken(s, t, sig) = Entered(v, t, sig)
      BY ZenonT(30), <1>7, <2>3 DEF Taken, v
    <3>2. Acts(v, Entered(v, t, sig), t)
      BY ZenonT(30), <1>3, <1>7, EnteredActs
    <3> QED
      BY <3>1, <3>2, <1>4
  <2> QED
    BY ZenonT(30), <2>1, <2>2, <2>3
<1> QED
  BY ZenonT(30), <1>5, <1>6, <1>7

(* The signals that thread t has acted upon when s has become r.           *)
TakenBy(s, r, t) == (s.pending \ r.pending) \cup (s.taskPending[t] \ r.taskPending[t])

(* handle_signals: it takes what the mask lets through, and something if   *)
(* there is anything, unless a handler runs.                               *)
LEMMA HandleSignalsActs ==
  ASSUME uses \in Repertoires, NEW s, Sound(s), NEW t \in Threads, t \notin s.dead
  PROVE  LET r == HandleSignals(s, t)
         IN  /\ Moves(s, r, t)
             /\ TakenBy(s, r, t) \subseteq Unmasked(s, t)
             /\ Unmasked(s, t) # {} /\ s.handling[t] = NoSig => TakenBy(s, r, t) # {}
<1> DEFINE P == s.pending \ s.mask[t]
           T == s.taskPending[t] \ s.mask[t]
           found == FindPending(P, T)
           m == Cleared(s, t, found)
           r == HandleSignals(s, t)
<1>1. s \in Kernels /\ Sigs \subseteq Nat \ {0}
  BY ZenonT(30), SignalsAssumption DEF Sound, Sigs
<1>2. P \subseteq Nat /\ T \subseteq Nat /\ P \subseteq Sigs /\ T \subseteq Sigs /\ Unmasked(s, t) = P \cup T
  BY ZenonT(30), <1>1 DEF Kernels, Unmasked
<1>3. CASE r = s /\ (s.handling[t] # NoSig \/ Unmasked(s, t) = {})
  BY ZenonT(30), <1>3 DEF Moves, TakenBy
<1>4. CASE s.handling[t] = NoSig /\ Unmasked(s, t) # {}
  <2>1. s.frame[t] = None
    BY ZenonT(30), <1>4 DEF Sound, Paired
  <2>2. r = Taken(m, t, found.sig)
    BY ZenonT(30), <1>4, <2>1 DEF HandleSignals
  <2>3. IF found.process THEN found.sig \in P ELSE found.sig \in T
    <3> HIDE DEF P, T
    <3>1. P # {} => Min(P) \in P
      BY ZenonT(30), <1>2, MinIsOne
    <3>2. T # {} => Min(T) \in T
      BY ZenonT(30), <1>2, MinIsOne
    <3> QED
      BY ZenonT(30), <3>1, <3>2, <1>2, <1>4 DEF FindPending
  <2> HIDE DEF found
  <2>4. /\ Sound(m) /\ m.frame = s.frame /\ m.mask = s.mask /\ m.dead = s.dead
        /\ TakenBy(s, m, t) = {found.sig} /\ found.sig \in Sigs
    <3>1. CASE found.process
      <4>1. m = [s EXCEPT !.pending = @ \ {found.sig}]
        BY ZenonT(30), <3>1 DEF Cleared
      <4> QED
        BY <1>1, <3>1, <4>1, <2>3 DEF Sound, Paired, Kernels, TakenBy
    <3>2. CASE ~found.process
      <4>1. m = [s EXCEPT !.taskPending[t] = @ \ {found.sig}]
        BY ZenonT(30), <3>2 DEF Cleared
      <4>2. /\ m.pending = s.pending /\ m.taskPending[t] = s.taskPending[t] \ {found.sig}
            /\ m.frame = s.frame /\ m.mask = s.mask /\ m.dead = s.dead /\ m.blocked = s.blocked
            /\ m.handling = s.handling
        BY ZenonT(30), <1>1, <4>1 DEF Kernels
      <4>3. m \in Kernels
        <5>1. s.taskPending \in [Threads -> SUBSET Sigs]
          BY ZenonT(30), <1>1 DEF Kernels
        <5>2. [s.taskPending EXCEPT ![t] = @ \ {found.sig}] \in [Threads -> SUBSET Sigs]
          BY ZenonT(30), <5>1
        <5> QED
          BY ZenonT(30), <1>1, <4>1, <5>2 DEF Kernels
      <4>4. found.sig \in s.taskPending[t] /\ found.sig \in Sigs
        BY ZenonT(30), <1>2, <3>2, <2>3
      <4>5. Sound(m)
        BY ZenonT(30), <4>2, <4>3 DEF Sound, Paired
      <4> HIDE DEF m
      <4>6. TakenBy(s, m, t) = {found.sig}
        BY ZenonT(30), <4>2, <4>4 DEF TakenBy
      <4> QED
        BY ZenonT(30), <4>2, <4>4, <4>5, <4>6
    <3> QED
      BY ZenonT(30), <3>1, <3>2
  <2> HIDE DEF m
  <2>5. Acts(m, r, t)
    BY ZenonT(30), <2>1, <2>2, <2>4, TakenActs
  <2> HIDE DEF r
  <2>6. Moves(s, r, t)
    BY ZenonT(30), <2>4, <2>5 DEF Acts, Moves
  <2>7. TakenBy(s, r, t) = {found.sig}
    BY ZenonT(30), <2>4, <2>5 DEF Acts, TakenBy
  <2>8. found.sig \in Unmasked(s, t)
    BY ZenonT(30), <2>3, <1>2
  <2> QED
    BY ZenonT(30), <2>6, <2>7, <2>8 DEF r
<1> QED
  BY ZenonT(30), <1>3, <1>4 DEF HandleSignals

-----------------------------------------------------------------------------
(* A step of thread t after which it is in call c.                         *)
LEMMA StepKeeps ==
  ASSUME IInv, uses' = uses, NEW t \in Threads, Sound(k)', k.dead \subseteq k'.dead,
         NEW c \in Calls, call' = [call EXCEPT ![t] = c],
         own' \in [Threads -> SUBSET Sigs], \A u \in Threads \ {t} : own'[u] = own[u],
         k'.dead = {} => /\ \A u \in Threads \ {t} : k'.mask[u] = k.mask[u] /\ k'.frame[u] = k.frame[u]
                         /\ Lent(k', t, c, own'[t])
  PROVE  IInv'
<1>1. call' \in [Threads -> Calls] /\ call'[t] = c /\ \A u \in Threads \ {t} : call'[u] = call[u]
  BY ZenonT(30) DEF IInv
<1>2. Sigs' = Sigs /\ Calls' = Calls
  BY ZenonT(30) DEF Sigs, Calls
<1>3. ASSUME k'.dead = {}, NEW u \in Threads PROVE Lent(k', u, call'[u], own'[u])
  <2>1. CASE u = t
    BY ZenonT(30), <1>1, <1>3, <2>1
  <2>2. CASE u # t
    <3>1. Lent(k, u, call[u], own[u])
      BY ZenonT(30), <1>3 DEF IInv
    <3> QED
      BY ZenonT(30), <1>1, <1>3, <2>2, <3>1 DEF Lent
  <2> QED
    BY ZenonT(30), <2>1, <2>2
<1> QED
  BY ZenonT(30), <1>1, <1>2, <1>3 DEF IInv

(* A return to user mode.                                                  *)
LEMMA UserKeeps ==
  ASSUME IInv, uses' = uses, NEW t \in Threads, t \notin k.dead,
         NEW s, Sound(s), s.dead = k.dead, ToUser(t, s),
         \A u \in Threads \ {t} : s.mask[u] = k.mask[u] /\ s.frame[u] = k.frame[u],
         own' \in [Threads -> SUBSET Sigs], \A u \in Threads \ {t} : own'[u] = own[u],
         k.dead = {} => Lent(s, t, InUser, own'[t])
  PROVE  IInv'
<1>1. k' = HandleSignals(s, t) /\ call' = [call EXCEPT ![t] = InUser]
  BY ZenonT(30) DEF ToUser
<1>2. Moves(s, k', t)
  BY ZenonT(30), <1>1, HandleSignalsActs DEF IInv
<1>3. Sound(k)'
  BY ZenonT(30), <1>2 DEF Moves, Sound, Paired, Kernels, Sigs, Actions, Frames
<1>4. InUser \in Calls /\ InUser.name = "user"
  BY ZenonT(30) DEF Calls, InUser
<1>5. ASSUME k'.dead = {} PROVE Lent(k', t, InUser, own'[t])
  <2>1. Lent(s, t, InUser, own'[t])
    BY ZenonT(30), <1>2, <1>5 DEF Moves
  <2> QED
    BY ZenonT(30), <1>2, <1>4, <1>5, <2>1 DEF Moves, Lent
<1>6. k'.dead = {} => \A u \in Threads \ {t} : k'.mask[u] = k.mask[u] /\ k'.frame[u] = k.frame[u]
  BY ZenonT(30), <1>2 DEF Moves
<1>7. k.dead \subseteq k'.dead
  BY ZenonT(30), <1>2 DEF Moves
<1> QED
  BY ZenonT(30), <1>1, <1>3, <1>4, <1>5, <1>6, <1>7, StepKeeps

(* The signal is pending, and stopped threads may run again.               *)
LEMMA SentSound ==
  ASSUME IInv, NEW sig \in Sigs, NEW s,
         s = KillProcess(k, sig) \/ \E u \in Threads : s = KillTask(k, u, sig)
  PROVE  Sound(s) /\ s.dead = k.dead /\ s.mask = k.mask /\ s.frame = k.frame
<1>1. k \in Kernels
  BY ZenonT(30) DEF IInv, Sound
<1>2. PICK m, B : /\ m \in Kernels /\ m.dead = k.dead /\ m.mask = k.mask /\ m.frame = k.frame
                  /\ m.handling = k.handling /\ m.blocked = k.blocked
                  /\ B \subseteq m.blocked /\ s = [m EXCEPT !.blocked = B]
  <2>1. CASE s = KillProcess(k, sig)
    <3> DEFINE m == [k EXCEPT !.pending = @ \cup {sig}]
    <3>1. /\ m \in Kernels /\ m.dead = k.dead /\ m.mask = k.mask /\ m.frame = k.frame
          /\ m.handling = k.handling /\ m.blocked = k.blocked
      BY ZenonT(30), <1>1 DEF Kernels
    <3> HIDE DEF m
    <3>2. s = Woken(m, Threads, sig)
      BY ZenonT(30), <2>1 DEF KillProcess, m
    <3> QED
      BY ZenonT(30), <3>1, <3>2 DEF Woken
  <2>2. ASSUME NEW u \in Threads, s = KillTask(k, u, sig)
        PROVE  \E m, B : /\ m \in Kernels /\ m.dead = k.dead /\ m.mask = k.mask /\ m.frame = k.frame
                         /\ m.handling = k.handling /\ m.blocked = k.blocked
                         /\ B \subseteq m.blocked /\ s = [m EXCEPT !.blocked = B]
    <3> DEFINE m == [k EXCEPT !.taskPending[u] = @ \cup {sig}]
    <3>1. /\ m \in Kernels /\ m.dead = k.dead /\ m.mask = k.mask /\ m.frame = k.frame
          /\ m.handling = k.handling /\ m.blocked = k.blocked
      BY ZenonT(30), <1>1 DEF Kernels
    <3> HIDE DEF m
    <3>2. s = Woken(m, {u}, sig)
      BY ZenonT(30), <2>2 DEF KillTask, m
    <3> QED
      BY ZenonT(30), <3>1, <3>2 DEF Woken
  <2> QED
    BY ZenonT(30), <2>1, <2>2
<1> QED
  BY ZenonT(30), <1>2 DEF IInv, Sound, Paired, Kernels

(* sys_kill and sys_tkill.                                                 *)
LEMMA SendKeeps ==
  ASSUME IInv, SendOutside \/ \E t \in Threads : Send(t)
  PROVE  IInv'
<1>1. ASSUME NEW sig \in uses.signals, NEW t \in Threads, Runs(t), call[t] = InUser,
             NEW s, s = KillProcess(k, sig) \/ \E u \in Threads : s = KillTask(k, u, sig),
             ToUser(t, s), UNCHANGED <<own, uses>>
      PROVE  IInv'
  <2>1. Sound(s) /\ s.dead = k.dead /\ s.mask = k.mask /\ s.frame = k.frame
    BY ZenonT(30), <1>1, SentSound DEF Sigs
  <2>2. k.dead = {} => Lent(s, t, InUser, own'[t])
    BY ZenonT(30), <2>1, <1>1 DEF IInv, Lent
  <2>3. t \notin k.dead /\ own' \in [Threads -> SUBSET Sigs]
    BY ZenonT(30), <1>1 DEF Runs, IInv
  <2> QED
    BY ZenonT(30), <1>1, <2>1, <2>2, <2>3, UserKeeps
<1>2. ASSUME NEW sig \in uses.signals, k' = KillProcess(k, sig) \/ \E u \in Threads : k' = KillTask(k, u, sig),
             UNCHANGED <<call, own, uses>>
      PROVE  IInv'
  <2>1. Sound(k') /\ k'.dead = k.dead /\ k'.mask = k.mask /\ k'.frame = k.frame
    BY ZenonT(30), <1>2, SentSound DEF Sigs
  <2>2. Sound(k)' /\ Sigs' = Sigs /\ Calls' = Calls
    BY ZenonT(30), <1>2, <2>1 DEF Sound, Paired, Kernels, Sigs, Actions, Frames, Calls
  <2> QED
    BY ZenonT(30), <1>2, <2>1, <2>2 DEF IInv, Lent
<1>3. CASE SendOutside
  BY ZenonT(30), <1>2, <1>3 DEF SendOutside, Sent
<1>4. ASSUME NEW t \in Threads, Send(t) PROVE IInv'
  BY ZenonT(30), <1>1, <1>4 DEF Send, Sent
<1> QED
  BY ZenonT(30), <1>3, <1>4

(* sys_sigaction.                                                          *)
LEMMA SigActionKeeps ==
  ASSUME IInv, NEW t \in Threads, SigAction(t)
  PROVE  IInv'
<1>1. PICK sig \in uses.signals, a \in uses.actions : ToUser(t, [k EXCEPT !.action[sig] = a])
  BY ZenonT(30) DEF SigAction
<1> DEFINE s == [k EXCEPT !.action[sig] = a]
<1>2. t \notin k.dead /\ call[t] = InUser /\ UNCHANGED <<own, uses>>
  BY ZenonT(30) DEF SigAction, InCode, Runs
<1>3. a \in Actions /\ k \in Kernels
  BY ZenonT(30), SignalsAssumption DEF IInv, Sound, Actions, Sigs
<1>4. s \in Kernels
  BY ZenonT(30), <1>3 DEF Kernels
<1>5. /\ s.dead = k.dead /\ s.mask = k.mask /\ s.frame = k.frame
      /\ s.handling = k.handling /\ s.blocked = k.blocked
  BY ZenonT(30), <1>3 DEF Kernels
<1>6. Sound(s)
  BY ZenonT(30), <1>4, <1>5 DEF IInv, Sound, Paired
<1> HIDE DEF s
<1>7. k.dead = {} => Lent(s, t, InUser, own'[t])
  BY ZenonT(30), <1>2, <1>5 DEF IInv, Lent
<1>8. own' \in [Threads -> SUBSET Sigs] /\ ToUser(t, s)
  BY ZenonT(30), <1>1, <1>2 DEF IInv, s
<1> QED
  BY ZenonT(30), <1>2, <1>5, <1>6, <1>7, <1>8, UserKeeps

(* sys_sigprocmask.                                                        *)
LEMMA SigProcMaskKeeps ==
  ASSUME IInv, NEW t \in Threads, SigProcMask(t)
  PROVE  IInv'
<1>1. PICK how \in {"block", "unblock", "set"}, set \in uses.masks :
        /\ ToUser(t, [k EXCEPT !.mask[t] = NewMask(how, @, set)])
        /\ own' = IF k.frame[t] = None THEN [own EXCEPT ![t] = NewMask(how, @, set)] ELSE own
  BY ZenonT(30) DEF SigProcMask
<1> DEFINE s == [k EXCEPT !.mask[t] = NewMask(how, @, set)]
<1>2. t \notin k.dead /\ call[t] = InUser /\ UNCHANGED <<uses>>
  BY ZenonT(30) DEF SigProcMask, InCode, Runs
<1>3. k \in Kernels /\ set \subseteq Sigs /\ own \in [Threads -> SUBSET Sigs]
  BY ZenonT(30), SignalsAssumption DEF IInv, Sound, Sigs
<1>4. \A m \in SUBSET Sigs : NewMask(how, m, set) \subseteq Sigs /\ NewMask(how, m, set) \cap Unblockable = {}
  BY ZenonT(30), <1>3 DEF NewMask
<1>5. s \in Kernels
  BY ZenonT(30), <1>3, <1>4 DEF Kernels
<1>6. /\ s.dead = k.dead /\ s.frame = k.frame /\ s.handling = k.handling /\ s.blocked = k.blocked
      /\ s.mask[t] = NewMask(how, k.mask[t], set) /\ \A u \in Threads \ {t} : s.mask[u] = k.mask[u]
  BY ZenonT(30), <1>3 DEF Kernels
<1>7. Sound(s)
  BY ZenonT(30), <1>5, <1>6 DEF IInv, Sound, Paired
<1> HIDE DEF s
<1>8. own' \in [Threads -> SUBSET Sigs] /\ \A u \in Threads \ {t} : own'[u] = own[u]
  BY ZenonT(30), <1>1, <1>3, <1>4
<1>9. ASSUME k.dead = {} PROVE Lent(s, t, InUser, own'[t])
  <2>1. Lent(k, t, InUser, own[t]) /\ InUser.name = "user"
    BY ZenonT(30), <1>2, <1>9 DEF IInv, InUser
  <2>2. own'[t] = IF k.frame[t] = None THEN NewMask(how, own[t], set) ELSE own[t]
    BY ZenonT(30), <1>1, <1>3
  <2> QED
    BY ZenonT(30), <2>1, <2>2, <1>3, <1>4, <1>6 DEF Lent
<1>10. ToUser(t, s)
  BY ZenonT(30), <1>1 DEF s
<1> QED
  BY ZenonT(30), <1>2, <1>6, <1>7, <1>8, <1>9, <1>10, UserKeeps

(* sys_sigreturn gives the saved mask back, or the one that the handler    *)
(* has left in the ucontext.                                               *)
LEMMA SigReturnKeeps ==
  ASSUME IInv, NEW t \in Threads, SigReturn(t)
  PROVE  IInv'
<1> DEFINE f == k.frame[t]
<1>1. PICK edited \in {f.backup} \cup IF f.info THEN uses.masks ELSE {}, redirected \in BOOLEAN :
        /\ ToUser(t, ResetHand([k EXCEPT !.frame[t] = None, !.handling[t] = NoSig,
                                         !.mask[t] = ReturnMask(f, edited, redirected)],
                               k.handling[t]))
        /\ own' = [own EXCEPT ![t] = ReturnMask([f EXCEPT !.backup = own[t]],
                                         IF edited = f.backup THEN own[t] ELSE edited, redirected)]
  BY ZenonT(30) DEF SigReturn
<1>2. t \notin k.dead /\ call[t] = InUser /\ f # None /\ UNCHANGED uses
  BY ZenonT(30) DEF SigReturn, InCode, Runs
<1>3. k \in Kernels /\ own \in [Threads -> SUBSET Sigs] /\ f \in Frames
  BY ZenonT(30) DEF IInv, Sound, Kernels
<1>4. edited \subseteq Sigs
  BY ZenonT(30), <1>3, SignalsAssumption DEF IInv, Sigs, Frames
<1> DEFINE new == ReturnMask(f, edited, redirected)
           asked == ReturnMask([f EXCEPT !.backup = own[t]], IF edited = f.backup THEN own[t] ELSE edited, redirected)
           m == [k EXCEPT !.frame[t] = None, !.handling[t] = NoSig, !.mask[t] = new]
           s == ResetHand(m, k.handling[t])
<1>5. new \subseteq Sigs /\ asked \subseteq Sigs
  BY ZenonT(30), <1>3, <1>4 DEF ReturnMask, Frames
<1>6. k.dead = {} => new = asked /\ asked \cap Unblockable = {}
  <2> SUFFICES ASSUME k.dead = {} PROVE new = asked /\ asked \cap Unblockable = {}
    BY ZenonT(30)
  <2>1. f.backup = own[t] /\ own[t] \cap Unblockable = {}
    BY ZenonT(30), <1>2 DEF IInv, Lent
  <2>2. [f EXCEPT !.backup = own[t]] = f
    BY ZenonT(30), <1>3, <2>1 DEF Frames
  <2> QED
    BY ZenonT(30), <2>1, <2>2 DEF ReturnMask
<1>7. own' \in [Threads -> SUBSET Sigs] /\ own'[t] = asked /\ \A u \in Threads \ {t} : own'[u] = own[u]
  BY ZenonT(30), <1>1, <1>3, <1>5
<1> HIDE DEF new, asked
<1>8. None \in Frames /\ NoSig \in Int
  BY DEF None, Frames, NoSig
<1>9. m \in Kernels
  <2>1. [k.frame EXCEPT ![t] = None] \in [Threads -> Frames] /\ [k.handling EXCEPT ![t] = NoSig] \in [Threads -> Int]
    BY ZenonT(30), <1>3, <1>8 DEF Kernels
  <2>2. [k.mask EXCEPT ![t] = new] \in [Threads -> SUBSET Sigs]
    BY ZenonT(30), <1>3, <1>5 DEF Kernels
  <2> QED
    BY ZenonT(30), <1>3, <2>1, <2>2 DEF Kernels
<1>10. /\ m.frame[t] = None /\ m.handling[t] = NoSig /\ m.mask[t] = new /\ m.dead = k.dead /\ m.blocked = k.blocked
       /\ \A u \in Threads \ {t} : m.frame[u] = k.frame[u] /\ m.handling[u] = k.handling[u] /\ m.mask[u] = k.mask[u]
  BY ZenonT(30), <1>3 DEF Kernels
<1>11. Sound(m)
  BY <1>9, <1>10 DEF IInv, Sound, Paired
<1> HIDE DEF m
<1>12. s \in Kernels
  <2>1. DefaultAction \in Actions
    BY ZenonT(30) DEF DefaultAction, Actions
  <2> QED
    BY ZenonT(30), <1>9, <2>1 DEF ResetHand, Kernels
<1>13. s.frame = m.frame /\ s.handling = m.handling /\ s.mask = m.mask /\ s.dead = m.dead /\ s.blocked = m.blocked
  BY ZenonT(30), <1>9 DEF ResetHand, Kernels
<1>14. Sound(s)
  BY ZenonT(30), <1>11, <1>12, <1>13 DEF Sound, Paired
<1>15. ToUser(t, s)
  BY ZenonT(30), <1>1 DEF m, new
<1> HIDE DEF s
<1>16. ASSUME k.dead = {} PROVE Lent(s, t, InUser, own'[t])
  BY ZenonT(30), <1>6, <1>7, <1>10, <1>13, <1>16 DEF Lent, InUser
<1> QED
  BY <1>2, <1>7, <1>10, <1>13, <1>14, <1>15, <1>16, UserKeeps

(* A step to user mode that changes nothing else before handle_signals.    *)
LEMMA PlainReturnKeeps ==
  ASSUME IInv, NEW t \in Threads, t \notin k.dead, call[t].name # "sigsuspend", ToUser(t, k), UNCHANGED <<own, uses>>
  PROVE  IInv'
<1>1. k.dead = {} => Lent(k, t, InUser, own'[t])
  BY ZenonT(30) DEF IInv, Lent, InUser
<1> QED
  BY ZenonT(30), <1>1, UserKeeps DEF IInv

(* sys_sigreturn without a frame, or with an ucontext it cannot read.      *)
LEMMA SigReturnFailsKeeps ==
  ASSUME IInv, NEW t \in Threads, SigReturnFails(t)
  PROVE  IInv'
<1>1. t \notin k.dead /\ call[t] = InUser /\ call[t].name # "sigsuspend" /\ UNCHANGED <<own, uses>>
  BY DEF SigReturnFails, InCode, Runs, InUser
<1>2. CASE ToUser(t, k)
  BY ZenonT(30), <1>1, <1>2, PlainReturnKeeps
<1>3. CASE k' = Exited([k EXCEPT !.frame[t] = None, !.handling[t] = NoSig], t) /\ UNCHANGED call
  <2> DEFINE m == [k EXCEPT !.frame[t] = None, !.handling[t] = NoSig]
  <2>1. k \in Kernels /\ None \in Frames /\ NoSig \in Int
    BY DEF IInv, Sound, None, Frames, NoSig
  <2>2. m \in Kernels
    <3>1. [k.frame EXCEPT ![t] = None] \in [Threads -> Frames] /\ [k.handling EXCEPT ![t] = NoSig] \in [Threads -> Int]
      BY ZenonT(30), <2>1 DEF Kernels
    <3> QED
      BY ZenonT(30), <2>1, <3>1 DEF Kernels
  <2>3. /\ m.frame[t] = None /\ m.handling[t] = NoSig /\ m.dead = k.dead /\ m.blocked = k.blocked
        /\ \A u \in Threads \ {t} : m.frame[u] = k.frame[u] /\ m.handling[u] = k.handling[u]
    BY ZenonT(30), <2>1 DEF Kernels
  <2>4. Paired(m)
    BY ZenonT(30), <2>3 DEF IInv, Sound, Paired
  <2> HIDE DEF m
  <2>5. PICK D : D \subseteq Threads /\ t \in D /\ k' = [m EXCEPT !.dead = @ \cup D, !.blocked = @ \ D]
    BY ZenonT(30), <1>3 DEF Exited, m
  <2>6. k' \in Kernels /\ t \in k'.dead /\ m.dead \subseteq k'.dead /\ k'.frame = m.frame /\ k'.handling = m.handling
    BY ZenonT(30), <2>2, <2>5 DEF Kernels
  <2>7. k'.blocked \cap k'.dead = {}
    BY ZenonT(30), <2>2, <2>3, <2>5 DEF Kernels, IInv, Sound
  <2>8. Sound(k')
    BY ZenonT(30), <2>4, <2>6, <2>7 DEF Sound, Paired
  <2>9. Sound(k)'
    BY ZenonT(30), <1>1, <2>8 DEF Sound, Paired, Kernels, Sigs, Actions, Frames
  <2>10. call' = [call EXCEPT ![t] = call[t]] /\ call[t] \in Calls
    BY ZenonT(30), <1>3 DEF IInv
  <2> QED
    BY ZenonT(30), <1>1, <2>3, <2>6, <2>9, <2>10, StepKeeps DEF IInv
<1> QED
  BY ZenonT(30), <1>2, <1>3 DEF SigReturnFails

(* rt_sigsuspend: the temporary mask, and the old one again.               *)
LEMMA SuspendPollKeeps ==
  ASSUME IInv, NEW t \in Threads, t \notin k.dead, UNCHANGED <<own, uses>>,
         NEW m \in SUBSET Sigs, NEW old \in SUBSET Sigs, NEW s, s = [k EXCEPT !.mask[t] = m], SuspendPoll(t, s, old),
         k.dead = {} => Lent(k, t, [name |-> "sigsuspend", old |-> old], own[t])
  PROVE  IInv'
<1> DEFINE c == [name |-> "sigsuspend", old |-> old]
           b == [s EXCEPT !.mask[t] = old]
<1>1. k \in Kernels /\ c \in Calls /\ c.name = "sigsuspend" /\ c.old = old
  BY ZenonT(30) DEF IInv, Sound, Calls
<1> HIDE DEF c
<1>2. s \in Kernels /\ b \in Kernels
  BY ZenonT(30), <1>1 DEF Kernels
<1>3. /\ s.dead = k.dead /\ s.frame = k.frame /\ s.handling = k.handling /\ s.blocked = k.blocked
      /\ \A u \in Threads \ {t} : s.mask[u] = k.mask[u]
  BY ZenonT(30), <1>1 DEF Kernels
<1>4. /\ b.dead = k.dead /\ b.frame = k.frame /\ b.handling = k.handling /\ b.blocked = k.blocked
      /\ b.mask[t] = old /\ \A u \in Threads \ {t} : b.mask[u] = k.mask[u]
  BY ZenonT(30), <1>1 DEF Kernels
<1> HIDE DEF b
<1>5. Sound(s) /\ Sound(b)
  BY <1>2, <1>3, <1>4 DEF IInv, Sound, Paired
<1>6. ASSUME k.dead = {} PROVE Lent(s, t, c, own'[t]) /\ Lent(b, t, InUser, own'[t])
  <2>1. Lent(k, t, c, own[t])
    BY ZenonT(30), <1>6 DEF c
  <2> QED
    BY ZenonT(30), <1>1, <1>3, <1>4, <2>1 DEF Lent, InUser
<1>7. CASE ToUser(t, b)
  BY ZenonT(30), <1>4, <1>5, <1>6, <1>7, UserKeeps DEF IInv
<1>8. CASE Suspends(t, s, c)
  <2>1. k' = s /\ call' = [call EXCEPT ![t] = c]
    BY ZenonT(30), <1>8 DEF Suspends
  <2>2. Sound(k)'
    BY ZenonT(30), <1>5, <2>1 DEF Sound, Paired, Kernels, Sigs, Actions, Frames
  <2> QED
    BY ZenonT(30), <1>1, <1>3, <1>6, <2>1, <2>2, StepKeeps DEF IInv
<1> QED
  BY ZenonT(30), <1>7, <1>8 DEF SuspendPoll, b, c

(* rt_sigsuspend, its first look and the later ones.                       *)
LEMMA SigSuspendKeeps ==
  ASSUME IInv, NEW t \in Threads, SigSuspend(t) \/ SigSuspendTurn(t)
  PROVE  IInv'
<1>1. k \in Kernels /\ call[t] \in Calls
  BY ZenonT(30) DEF IInv, Sound
<1>2. CASE SigSuspend(t)
  <2>1. PICK set \in uses.masks : SuspendPoll(t, [k EXCEPT !.mask[t] = set \ Unblockable], k.mask[t])
    BY ZenonT(30), <1>2 DEF SigSuspend
  <2>2. t \notin k.dead /\ call[t] = InUser /\ UNCHANGED <<own, uses>>
    BY ZenonT(30), <1>2 DEF SigSuspend, Enters, InCode, Runs
  <2>3. set \ Unblockable \subseteq Sigs /\ k.mask[t] \subseteq Sigs
    BY ZenonT(30), <1>1, SignalsAssumption DEF IInv, Sigs, Kernels
  <2>4. k.dead = {} => Lent(k, t, [name |-> "sigsuspend", old |-> k.mask[t]], own[t])
    BY <2>2 DEF IInv, Lent, InUser
  <2> QED
    BY ZenonT(30), <2>1, <2>2, <2>3, <2>4, SuspendPollKeeps
<1>3. CASE SigSuspendTurn(t)
  <2>1. SuspendPoll(t, k, call[t].old) /\ t \notin k.dead /\ call[t].name = "sigsuspend" /\ UNCHANGED <<own, uses>>
    BY ZenonT(30), <1>3 DEF SigSuspendTurn, Resumes, Runs
  <2>2. call[t] = [name |-> "sigsuspend", old |-> call[t].old] /\ call[t].old \in SUBSET Sigs
    BY <1>1, <2>1 DEF Calls, InUser
  <2>3. k = [k EXCEPT !.mask[t] = k.mask[t]] /\ k.mask[t] \in SUBSET Sigs
    BY ZenonT(30), <1>1 DEF Kernels
  <2>4. k.dead = {} => Lent(k, t, [name |-> "sigsuspend", old |-> call[t].old], own[t])
    BY ZenonT(30), <2>2 DEF IInv
  <2> QED
    BY ZenonT(30), <2>1, <2>2, <2>3, <2>4, SuspendPollKeeps
<1> QED
  BY ZenonT(30), <1>2, <1>3

(* A call that suspends, or goes on waiting, without a mask of its own.    *)
LEMMA WaitKeeps ==
  ASSUME IInv, NEW t \in Threads, call[t].name # "sigsuspend", UNCHANGED <<own, uses>>,
         NEW c \in Calls, c.name # "sigsuspend", Suspends(t, k, c)
  PROVE  IInv'
<1>1. k' = k /\ call' = [call EXCEPT ![t] = c]
  BY ZenonT(30) DEF Suspends
<1>2. Sound(k)'
  BY ZenonT(30), <1>1 DEF IInv, Sound, Paired, Kernels, Sigs, Actions, Frames
<1>3. k.dead = {} => Lent(k', t, c, own'[t])
  BY ZenonT(30), <1>1 DEF IInv, Lent
<1> QED
  BY ZenonT(30), <1>1, <1>2, <1>3, StepKeeps DEF IInv

(* rt_sigtimedwait: it takes a signal itself, or leaves it to              *)
(* handle_signals.                                                         *)
LEMMA TimedWaitPollKeeps ==
  ASSUME IInv, NEW t \in Threads, t \notin k.dead, call[t].name # "sigsuspend", UNCHANGED <<own, uses>>,
         NEW c \in Calls, c.name = "sigtimedwait", TimedWaitPoll(t, c)
  PROVE  IInv'
<1>1. \/ ToUser(t, k) \/ Suspends(t, k, c)
      \/ \E sig, process : ToUser(t, Cleared(k, t, [sig |-> sig, process |-> process]))
  BY ZenonT(30) DEF TimedWaitPoll
<1>2. CASE ToUser(t, k)
  BY ZenonT(30), <1>2, PlainReturnKeeps
<1>3. CASE Suspends(t, k, c)
  BY ZenonT(30), <1>3, WaitKeeps
<1>4. ASSUME NEW sig, NEW process, ToUser(t, Cleared(k, t, [sig |-> sig, process |-> process])) PROVE IInv'
  <2> DEFINE s == Cleared(k, t, [sig |-> sig, process |-> process])
  <2>1. k \in Kernels
    BY ZenonT(30) DEF IInv, Sound
  <2>2. s = [k EXCEPT !.pending = @ \ {sig}] \/ s = [k EXCEPT !.taskPending[t] = @ \ {sig}]
    BY ZenonT(30) DEF Cleared
  <2>3. s \in Kernels
    BY <2>1, <2>2 DEF Kernels
  <2>4. s.dead = k.dead /\ s.frame = k.frame /\ s.handling = k.handling /\ s.blocked = k.blocked /\ s.mask = k.mask
    BY ZenonT(30), <2>1, <2>2 DEF Kernels
  <2>5. ToUser(t, s)
    BY ZenonT(30), <1>4
  <2> HIDE DEF s
  <2>6. Sound(s)
    BY ZenonT(30), <2>3, <2>4 DEF IInv, Sound, Paired
  <2>7. k.dead = {} => Lent(s, t, InUser, own'[t])
    BY ZenonT(30), <2>4 DEF IInv, Lent, InUser
  <2> QED
    BY ZenonT(30), <2>4, <2>5, <2>6, <2>7, UserKeeps DEF IInv
<1> QED
  BY ZenonT(30), <1>1, <1>2, <1>3, <1>4

(* rt_sigtimedwait, nanosleep and the timer interrupt.                     *)
LEMMA OtherTurnsKeep ==
  ASSUME IInv, NEW t \in Threads,
         SigTimedWait(t) \/ SigTimedWaitTurn(t) \/ NanoSleep(t) \/ NanoSleepTurn(t) \/ Tick(t)
  PROVE  IInv'
<1>1. t \notin k.dead /\ call[t].name # "sigsuspend" /\ UNCHANGED <<own, uses>>
  <2>1. InCode(t) \/ (Runs(t) /\ call[t].name \in {"sigtimedwait", "nanosleep"})
    BY ZenonT(30) DEF SigTimedWait, SigTimedWaitTurn, NanoSleep, NanoSleepTurn, Tick, Enters, Resumes
  <2>2. UNCHANGED <<own, uses>>
    BY ZenonT(30) DEF SigTimedWait, SigTimedWaitTurn, NanoSleep, NanoSleepTurn, Tick, Enters, Resumes
  <2> QED
    BY <2>1, <2>2 DEF InCode, Runs, InUser
<1>2. CASE SigTimedWait(t)
  <2>1. PICK set \in uses.masks, timed \in BOOLEAN :
          TimedWaitPoll(t, [name |-> "sigtimedwait", set |-> set, timed |-> timed])
    BY ZenonT(30), <1>2 DEF SigTimedWait
  <2>2. [name |-> "sigtimedwait", set |-> set, timed |-> timed] \in Calls
    BY ZenonT(30), SignalsAssumption DEF IInv, Calls, Sigs
  <2> QED
    BY ZenonT(30), <1>1, <2>1, <2>2, TimedWaitPollKeeps
<1>3. CASE SigTimedWaitTurn(t)
  BY ZenonT(30), <1>1, <1>3, TimedWaitPollKeeps DEF SigTimedWaitTurn, Resumes, IInv
<1>4. CASE NanoSleep(t) \/ NanoSleepTurn(t)
  <2>1. ToUser(t, k) \/ Suspends(t, k, [name |-> "nanosleep"])
    BY ZenonT(30), <1>4 DEF NanoSleep, NanoSleepTurn, SleepPoll
  <2>2. [name |-> "nanosleep"] \in Calls
    BY ZenonT(30) DEF Calls
  <2> QED
    BY ZenonT(30), <1>1, <2>1, <2>2, PlainReturnKeeps, WaitKeeps
<1>5. CASE Tick(t)
  BY ZenonT(30), <1>1, <1>5, PlainReturnKeeps DEF Tick
<1> QED
  BY ZenonT(30), <1>2, <1>3, <1>4, <1>5

-----------------------------------------------------------------------------
(* No signal has been sent.                                                *)
LEMMA InitKeeps == Init => IInv
<1> SUFFICES ASSUME Init PROVE IInv
  BY ZenonT(30)
<1>1. DefaultAction \in Actions /\ None \in Frames /\ InUser \in Calls /\ InUser.name = "user"
  BY ZenonT(30) DEF DefaultAction, Actions, None, Frames, InUser, Calls
<1>2. k \in Kernels
  BY <1>1 DEF Init, Kernels, Sigs, NoSig
<1>3. Sound(k)
  BY ZenonT(30), <1>2 DEF Init, Sound, Paired
<1>4. \A t \in Threads : Lent(k, t, call[t], own[t])
  BY ZenonT(30), <1>1 DEF Init, Lent
<1> QED
  BY ZenonT(30), <1>1, <1>3, <1>4 DEF Init, IInv

(* Every step: one of the lemmas above.                                    *)
LEMMA NextKeeps == IInv /\ [Next]_vars => IInv'
<1> SUFFICES ASSUME IInv, [Next]_vars PROVE IInv'
  BY ZenonT(30)
<1>1. CASE UNCHANGED vars
  BY ZenonT(30), <1>1 DEF vars, IInv, Sound, Paired, Kernels, Sigs, Actions, Frames, Calls, Lent
<1>2. CASE Next
  BY ZenonT(30), <1>2, SendKeeps, SigActionKeeps, SigProcMaskKeeps, SigReturnKeeps, SigReturnFailsKeeps, SigSuspendKeeps,
     OtherTurnsKeep DEF Next, Turn
<1> QED
  BY ZenonT(30), <1>1, <1>2

(* MaskKept: whatever handlers, sigsuspend and sigreturn do to the mask of *)
(* a thread, it comes back to what its program has asked for.              *)
THEOREM MasksComeBack == Spec => []MaskKept
<1>1. IInv => MaskKept
  <2> SUFFICES ASSUME IInv PROVE MaskKept
    BY ZenonT(30)
  <2>1. Sigs \subseteq Signums /\ k \in Kernels
    BY ZenonT(30) DEF IInv, Sigs, Signums, Sound
  <2>2. TypeOK
    BY <2>1 DEF IInv, Sound, Paired, Kernels, Calls, InUser, TypeOK
  <2> QED
    BY ZenonT(30), <2>2 DEF IInv, Lent, MaskKept
<1> QED
  BY <1>1, InitKeeps, NextKeeps, PTL DEF Spec

(* Only its own turns end a sigsuspend.                                    *)
LEMMA OnlyTurnsEnd ==
  ASSUME IInv, Next, NEW t \in Threads, call[t].name = "sigsuspend", call'[t].name # "sigsuspend"
  PROVE  SigSuspendTurn(t)
<1>1. \A u \in Threads : call[u] = InUser => u # t
  BY DEF InUser
<1>2. call \in [Threads -> Calls]
  BY ZenonT(30) DEF IInv
<1>3. ASSUME NEW u \in Threads, u # t, NEW c, call' = [call EXCEPT ![u] = c] PROVE FALSE
  BY ZenonT(30), <1>2, <1>3
<1>4. ~SendOutside
  BY ZenonT(30) DEF SendOutside, Sent
<1>5. ASSUME NEW u \in Threads, u # t PROVE \A s : ~ToUser(u, s)
  BY ZenonT(30), <1>3, <1>5 DEF ToUser
<1>6. ASSUME NEW u \in Threads, u # t PROVE \A s, c : ~Suspends(u, s, c)
  BY ZenonT(30), <1>3, <1>6 DEF Suspends
<1>7. PICK u \in Threads : \/ Send(u) \/ SigAction(u) \/ SigProcMask(u) \/ SigReturn(u) \/ SigReturnFails(u)
                           \/ SigSuspend(u) \/ SigTimedWait(u) \/ NanoSleep(u) \/ Turn(u)
  BY ZenonT(30), <1>4 DEF Next
<1>8. u = t
  <2> SUFFICES ASSUME u # t PROVE FALSE
    BY ZenonT(30)
  <2>1. (\A s : ~ToUser(u, s)) /\ (\A s, c : ~Suspends(u, s, c)) /\ call' # call
    BY ZenonT(30), <1>5, <1>6
  <2> QED
    BY ZenonT(30), <2>1, <1>7 DEF Send, Sent, SigAction, SigProcMask, SigReturn, SigReturnFails, SigSuspend, SuspendPoll,
       SigTimedWait, TimedWaitPoll, NanoSleep, SleepPoll, Turn, SigSuspendTurn, SigTimedWaitTurn, NanoSleepTurn, Tick
<1>9. call[u] # InUser
  BY ZenonT(30), <1>1, <1>8
<1> QED
  BY ZenonT(30), <1>7, <1>8, <1>9 DEF Send, SigAction, SigProcMask, SigReturn, SigReturnFails, SigSuspend, SigTimedWait, NanoSleep,
     Enters, InCode, Turn, SigTimedWaitTurn, NanoSleepTurn, Tick, Resumes

(* SuspendReturns: a sigsuspend ends for a signal that its mask lets       *)
(* through, which is then acted upon, or stays pending if the old mask     *)
(* blocks it.                                                              *)
THEOREM SuspendsLoseNoSignal == Spec => SuspendReturns
<1> DEFINE Ends(t) ==
      LET pending == k.pending \cup k.taskPending[t]
          taken == (k.pending \ k'.pending) \cup (k.taskPending[t] \ k'.taskPending[t])
          open == pending \ call[t].old
      IN  /\ pending \ k.mask[t] # {}
          /\ taken \subseteq open
          /\ (open # {} /\ k.handling[t] = NoSig) => taken # {}
<1>1. ASSUME IInv, Next, NEW t \in Threads, call[t].name = "sigsuspend", call'[t].name # "sigsuspend"
      PROVE  Ends(t)
  <2> DEFINE s == [k EXCEPT !.mask[t] = call[t].old]
  <2>1. SigSuspendTurn(t)
    BY ZenonT(30), <1>1, OnlyTurnsEnd
  <2>2. k \in Kernels /\ call \in [Threads -> Calls] /\ call[t].old \in SUBSET Sigs /\ t \notin k.dead
    BY <1>1, <2>1 DEF IInv, Sound, Calls, InUser, SigSuspendTurn, Resumes, Runs
  <2>3. Unmasked(k, t) # {} /\ ToUser(t, s)
    BY <1>1, <2>1, <2>2 DEF SigSuspendTurn, SuspendPoll, Suspends
  <2>4. s \in Kernels
    BY ZenonT(30), <2>2 DEF Kernels
  <2>5. /\ s.dead = k.dead /\ s.frame = k.frame /\ s.handling = k.handling /\ s.blocked = k.blocked
        /\ s.mask[t] = call[t].old /\ s.pending = k.pending /\ s.taskPending = k.taskPending
    BY ZenonT(30), <2>2 DEF Kernels
  <2> HIDE DEF s
  <2>6. Sound(s)
    BY ZenonT(30), <1>1, <2>4, <2>5 DEF IInv, Sound, Paired
  <2>7. k' = HandleSignals(s, t)
    BY ZenonT(30), <2>3 DEF ToUser
  <2>8. /\ TakenBy(s, k', t) \subseteq Unmasked(s, t)
        /\ Unmasked(s, t) # {} /\ s.handling[t] = NoSig => TakenBy(s, k', t) # {}
    BY ZenonT(30), <1>1, <2>2, <2>5, <2>6, <2>7, HandleSignalsActs DEF IInv
  <2> QED
    BY ZenonT(30), <2>3, <2>5, <2>8 DEF TakenBy, Unmasked
<1>2. IInv /\ [Next]_vars =>
        [\A t \in Threads : (call[t].name = "sigsuspend" /\ call'[t].name # "sigsuspend") => Ends(t)]_vars
  BY ZenonT(30), <1>1
<1> QED
  BY <1>2, InitKeeps, NextKeeps, PTL DEF Spec, SuspendReturns

-----------------------------------------------------------------------------
(* Descriptor tables.  Close-on-exec flags and locks go with the descriptor *)
(* they were set through, for every set of processes, descriptors, objects *)
(* and names.                                                              *)

Nodes == [kind : {"none", "vfs", "memfd", "pipe"}, path : Named \cup {""}, size : Nat, off : Nat,
          seals : SUBSET {"write", "seal"}, sealable : BOOLEAN]

(* A mark or a lock of descriptor d of process p.                            *)
Marked(p, d) == <<p, d>> \in fdFlags \/ \E n \in Named : locks[n] = <<p, d>>

(* The inductive invariant: what a live process has marked or locked is      *)
(* open, and a process that is yet to be forked starts with nothing.         *)
FdInv ==
  /\ table \in [Pids -> [Fds -> Objects \cup {0}]]
  /\ object \in [Objects -> Nodes]
  /\ locks \in [Named -> (Pids \X Fds) \cup {Nobody}]
  /\ alive \subseteq born /\ born \subseteq Pids
  /\ fdUse \in FdUses
  /\ \A p \in alive, d \in Fds : Marked(p, d) => table[p][d] # 0
  /\ \A p \in Pids \ born, d \in Fds : ~Marked(p, d)

(* Lowest of a set of descriptors is one of them, and the lowest.            *)
LEMMA LowestIsLeast ==
  ASSUME NEW S, S \subseteq Nat, S # {}
  PROVE  Lowest(S) \in S /\ \A d \in S : Lowest(S) <= d
<1> DEFINE R == OpToRel(<, Nat)
<1>1. IsWellFoundedOn(R, Nat)
  BY ZenonT(30), NatLessThanWellFounded
<1>2. R = {ss \in Nat \X Nat : ss[1] < ss[2]}
  BY ZenonT(30) DEF R, OpToRel
<1> HIDE DEF R
<1>3. PICK i \in S : \A j \in S : ~ (<<j, i>> \in R)
  BY ZenonT(30), <1>1, WFMin
<1>4. ASSUME NEW j \in S PROVE i <= j
  <2>1. i \in Nat /\ j \in Nat /\ ~ (<<j, i>> \in R)
    BY <1>3
  <2>2. ~ (j < i)
    BY <2>1, <1>2
  <2> QED
    BY <2>1, <2>2
<1> QED
  BY ZenonT(30), <1>4 DEF Lowest

(* alloc_fd returns a descriptor that is free.                               *)
LEMMA LowestIsFree ==
  ASSUME NEW p, NEW from, Free(p, from) # {}
  PROVE  Lowest(Free(p, from)) \in Fds /\ table[p][Lowest(Free(p, from))] = 0
<1>1. Free(p, from) \subseteq Nat
  BY DescriptorsAssumption DEF Free, Fds
<1>2. Lowest(Free(p, from)) \in Free(p, from)
  BY ZenonT(30), <1>1, LowestIsLeast
<1> QED
  BY ZenonT(30), <1>2 DEF Free

(* An open file that nobody refers to any more is the only one that changes. *)
LEMMA KeptObjects ==
  ASSUME FdInv, NEW t
  PROVE  Kept(t, object) \in [Objects -> Nodes] /\ \A o \in Objects : Kept(t, object)[o] \in {object[o], Unused}
<1>1. Unused \in Nodes
  BY ZenonT(30) DEF Unused, Nodes
<1> QED
  BY ZenonT(30), <1>1 DEF Kept, FdInv

(* What a write seal protects.                                               *)
Sealed(o) == "write" \in object[o].seals /\ object'[o] # Unused => object'[o].size \in {0, object[o].size}

(* A step of p that opens files on the descriptors ds, whose marks are then  *)
(* what flags says.                                                          *)
LEMMA OpenKeeps ==
  ASSUME FdInv, NEW p \in alive, NEW ds \in SUBSET Fds, UNCHANGED <<alive, born, fdUse>>,
         table' \in [Pids -> [Fds -> Objects \cup {0}]],
         \A q \in Pids, d \in Fds : table[q][d] # 0 => table'[q][d] # 0,
         \A d \in ds : table'[p][d] # 0,
         fdFlags' \subseteq fdFlags \cup ({p} \X ds),
         object' \in [Objects -> Nodes], locks' \in [Named -> (Pids \X Fds) \cup {Nobody}],
         \A n \in Named : locks'[n] \in {locks[n], Nobody} \cup ({p} \X ds)
  PROVE  FdInv'
<1>1. \A q \in Pids, d \in Fds : Marked(q, d)' => Marked(q, d) \/ (q = p /\ d \in ds)
  <2> SUFFICES ASSUME NEW q \in Pids, NEW d \in Fds, Marked(q, d)', q # p \/ d \notin ds PROVE Marked(q, d)
    BY ZenonT(30)
  <2>1. <<q, d>> # Nobody
    BY ZenonT(30), DescriptorsAssumption DEF Nobody
  <2>2. CASE <<q, d>> \in fdFlags'
    BY ZenonT(30), <2>2 DEF Marked
  <2>3. ASSUME NEW n \in Named, locks'[n] = <<q, d>> PROVE Marked(q, d)
    <3>1. <<q, d>> \notin {p} \X ds
      BY ZenonT(30)
    <3>2. locks'[n] \in {locks[n], Nobody} \cup ({p} \X ds)
      BY ZenonT(30)
    <3>3. locks[n] = <<q, d>>
      BY ZenonT(30), <2>1, <2>3, <3>1, <3>2
    <3> QED
      BY ZenonT(30), <3>3 DEF Marked
  <2> QED
    BY ZenonT(30), <2>2, <2>3 DEF Marked
<1>2. p \in Pids /\ p \in born
  BY ZenonT(30) DEF FdInv
<1>3. \A q \in alive', d \in Fds : Marked(q, d)' => table'[q][d] # 0
  BY ZenonT(30), <1>1, <1>2 DEF FdInv
<1>4. \A q \in Pids \ born', d \in Fds : ~Marked(q, d)'
  BY ZenonT(30), <1>1, <1>2 DEF FdInv
<1> QED
  BY ZenonT(30), <1>3, <1>4 DEF FdInv

(* sys_openat and sys_memfd_create.                                          *)
LEMMA InstallKeeps ==
  ASSUME FdInv, NEW p \in alive, NEW node \in Nodes, NEW cloexec \in BOOLEAN, UNCHANGED fdUse,
         Install(p, node, cloexec)
  PROVE  FdInv' /\ \A o \in Objects : Sealed(o)
<1>a. PICK d : d = Lowest(Free(p, 0))
  BY ZenonT(30)
<1>b. PICK o : o = FreeObject
  BY ZenonT(30)
<1>1. d \in Fds /\ table[p][d] = 0
  BY ZenonT(30), <1>a, LowestIsFree DEF Install
<1>2. o \in Objects /\ object[o] = Unused /\ o # 0
  BY ZenonT(30), <1>b, DescriptorsAssumption DEF Install, CanOpen, FreeObject
<1>3. /\ table' = [table EXCEPT ![p][d] = o]
      /\ object' = [object EXCEPT ![o] = node]
      /\ fdFlags' = (IF cloexec THEN Flagged(p, {d}, TRUE) ELSE fdFlags)
      /\ UNCHANGED <<alive, born, locks>>
  BY ZenonT(30), <1>a, <1>b DEF Install
<1>c. PICK ds \in SUBSET Fds : ds = {d}
  BY ZenonT(30), <1>1
<1>4. fdFlags' \subseteq fdFlags \cup ({p} \X ds)
  BY ZenonT(30), <1>3, <1>c DEF Flagged
<1>5. p \in Pids
  BY ZenonT(30) DEF FdInv
<1>6. /\ table' \in [Pids -> [Fds -> Objects \cup {0}]]
      /\ \A q \in Pids, e \in Fds : table[q][e] # 0 => table'[q][e] # 0
      /\ \A e \in ds : table'[p][e] # 0
  BY ZenonT(30), <1>1, <1>2, <1>3, <1>5, <1>c DEF FdInv
<1>7. object' \in [Objects -> Nodes]
  BY ZenonT(30), <1>2, <1>3 DEF FdInv
<1>8. /\ locks' \in [Named -> (Pids \X Fds) \cup {Nobody}] /\ UNCHANGED <<alive, born, fdUse>>
      /\ \A n \in Named : locks'[n] \in {locks[n], Nobody} \cup ({p} \X ds)
  BY ZenonT(30), <1>3 DEF FdInv
<1>9. FdInv'
  BY ZenonT(30), <1>4, <1>6, <1>7, <1>8, OpenKeeps
<1>e. Unused.seals = {}
  BY ZenonT(30) DEF Unused
<1>10. ASSUME NEW x \in Objects PROVE Sealed(x)
  <2>1. CASE x = o
    BY ZenonT(30), <2>1, <1>2, <1>e DEF Sealed
  <2>2. CASE x # o
    <3>1. object'[x] = object[x]
      BY ZenonT(30), <2>2, <1>3 DEF FdInv
    <3> QED
      BY ZenonT(30), <3>1 DEF Sealed
  <2> QED
    BY ZenonT(30), <2>1, <2>2
<1> QED
  BY ZenonT(30), <1>9, <1>10

(* sys_pipe2.                                                                *)
LEMMA PipeKeeps ==
  ASSUME FdInv, NEW p \in alive, NEW cloexec \in BOOLEAN, UNCHANGED fdUse, Pipe2(p, cloexec)
  PROVE  FdInv' /\ \A o \in Objects : Sealed(o)
<1>a. PICK d : d = Lowest(Free(p, 0))
  BY ZenonT(30)
<1>b. PICK e : e = Lowest(Free(p, d + 1))
  BY ZenonT(30)
<1>c. PICK a : a = FreeObject
  BY ZenonT(30)
<1>d. PICK b : b = CHOOSE o \in Objects \ {a} : object[o] = Unused
  BY ZenonT(30)
<1> DEFINE end == [Unused EXCEPT !.kind = "pipe"]
<1>1. /\ Cardinality(Free(p, 0)) >= 2
      /\ Cardinality({o \in Objects : object[o] = Unused}) >= 2
      /\ table' = [table EXCEPT ![p][d] = a, ![p][e] = b]
      /\ object' = [object EXCEPT ![a] = end, ![b] = end]
      /\ fdFlags' = Flagged(p, {d, e}, cloexec)
      /\ UNCHANGED <<alive, born, locks>>
  BY ZenonT(30), <1>a, <1>b, <1>c, <1>d DEF Pipe2
<1>e. \A S : Cardinality(S) >= 2 => S # {} /\ \A x : S # {x}
  <2>1. \A x : Cardinality({x}) = 1
    BY ZenonT(30), FS_Singleton
  <2>2. Cardinality({}) = 0
    BY ZenonT(30), FS_EmptySet
  <2>3. ~(0 >= 2) /\ ~(1 >= 2)
    OBVIOUS
  <2> QED
    BY ZenonT(30), <2>1, <2>2, <2>3
<1>2. Free(p, 0) # {} /\ \A x : Free(p, 0) # {x}
  BY ZenonT(30), <1>1, <1>e
<1>3. Free(p, 0) \subseteq Nat /\ Fds \subseteq Nat
  BY DescriptorsAssumption DEF Free, Fds
<1>4. d \in Free(p, 0) /\ \A x \in Free(p, 0) : d <= x
  BY ZenonT(30), <1>a, <1>2, <1>3, LowestIsLeast
<1>5. Free(p, d + 1) # {}
  <2>1. PICK x \in Free(p, 0) : x # d
    BY <1>2, <1>4
  <2>2. d + 1 <= x /\ x \in Nat
    BY <2>1, <1>3, <1>4
  <2> QED
    BY ZenonT(30), <2>1, <2>2 DEF Free
<1>6. d \in Fds /\ e \in Fds
  BY ZenonT(30), <1>b, <1>4, <1>5, LowestIsFree DEF Free
<1>7. \A x : {o \in Objects : object[o] = Unused} # {x}
  BY ZenonT(30), <1>1, <1>e
<1>8. {o \in Objects : object[o] = Unused} # {}
  BY ZenonT(30), <1>1, <1>e
<1>9. a \in Objects /\ object[a] = Unused
  BY ZenonT(30), <1>c, <1>8 DEF FreeObject
<1>10. b \in Objects /\ object[b] = Unused
  <2>1. \E o \in Objects \ {a} : object[o] = Unused
    BY <1>7, <1>9
  <2> QED
    BY ZenonT(30), <1>d, <2>1
<1>11. p \in Pids /\ a # 0 /\ b # 0 /\ end \in Nodes
  BY ZenonT(30), <1>9, <1>10, DescriptorsAssumption DEF FdInv, Unused, Nodes
<1> HIDE DEF end
<1>f. PICK ds \in SUBSET Fds : ds = {d, e}
  BY ZenonT(30), <1>6
<1>12. /\ table' \in [Pids -> [Fds -> Objects \cup {0}]]
       /\ \A q \in Pids, x \in Fds : table[q][x] # 0 => table'[q][x] # 0
       /\ \A x \in ds : table'[p][x] # 0
  BY ZenonT(30), <1>1, <1>6, <1>9, <1>10, <1>11, <1>f DEF FdInv
<1>13. object' \in [Objects -> Nodes] /\ \A o \in Objects : object[o] # Unused => object'[o] = object[o]
  BY ZenonT(30), <1>1, <1>9, <1>10, <1>11 DEF FdInv
<1>14. fdFlags' \subseteq fdFlags \cup ({p} \X ds)
  BY ZenonT(30), <1>1, <1>f DEF Flagged
<1>15. /\ locks' \in [Named -> (Pids \X Fds) \cup {Nobody}] /\ UNCHANGED <<alive, born, fdUse>>
       /\ \A n \in Named : locks'[n] \in {locks[n], Nobody} \cup ({p} \X ds)
  BY ZenonT(30), <1>1 DEF FdInv
<1>16. FdInv'
  BY ZenonT(30), <1>12, <1>13, <1>14, <1>15, OpenKeeps
<1>g. Unused.seals = {}
  BY ZenonT(30) DEF Unused
<1>17. \A o \in Objects : Sealed(o)
  BY ZenonT(30), <1>13, <1>g DEF Sealed
<1> QED
  BY ZenonT(30), <1>16, <1>17

(* Duplicates: F_DUPFD, dup and dup3.                                        *)
Dups(p, d, e, cloexec) ==
  /\ table[p][d] # 0 /\ table' = [table EXCEPT ![p][e] = table[p][d]]
  /\ (object' = object \/ object' = Kept(table', object))
  /\ fdFlags' = Flagged(p, {e}, cloexec)
  /\ UNCHANGED <<alive, born, locks, fdUse>>

(* dup keeps the invariant: the new descriptor is open, marked or not.     *)
LEMMA DupKeeps ==
  ASSUME FdInv, NEW p \in alive, NEW d \in Fds, NEW e \in Fds, NEW cloexec \in BOOLEAN, Dups(p, d, e, cloexec)
  PROVE  FdInv' /\ \A o \in Objects : Sealed(o)
<1>a. PICK ds \in SUBSET Fds : ds = {e}
  BY ZenonT(30)
<1>1. p \in Pids
  BY ZenonT(30) DEF FdInv
<1>2. /\ table' \in [Pids -> [Fds -> Objects \cup {0}]]
      /\ \A q \in Pids, x \in Fds : table[q][x] # 0 => table'[q][x] # 0
      /\ \A x \in ds : table'[p][x] # 0
  BY ZenonT(30), <1>1, <1>a DEF FdInv, Dups
<1>3. object' \in [Objects -> Nodes] /\ \A o \in Objects : object'[o] \in {object[o], Unused}
  BY ZenonT(30), KeptObjects DEF FdInv, Dups
<1>4. fdFlags' \subseteq fdFlags \cup ({p} \X ds)
  BY ZenonT(30), <1>a DEF Flagged, Dups
<1>5. /\ locks' \in [Named -> (Pids \X Fds) \cup {Nobody}] /\ UNCHANGED <<alive, born, fdUse>>
      /\ \A n \in Named : locks'[n] \in {locks[n], Nobody} \cup ({p} \X ds)
  BY ZenonT(30) DEF FdInv, Dups
<1>6. FdInv'
  BY ZenonT(30), <1>2, <1>3, <1>4, <1>5, OpenKeeps
<1>7. \A o \in Objects : Sealed(o)
  BY ZenonT(30), <1>3 DEF Sealed
<1> QED
  BY ZenonT(30), <1>6, <1>7

(* sys_close and sys_close_range.                                            *)
LEMMA CloseKeeps ==
  ASSUME FdInv, NEW p \in alive, NEW first \in Fds, NEW last \in Fds, UNCHANGED fdUse, CloseRange(p, first, last)
  PROVE  FdInv' /\ \A o \in Objects : Sealed(o)
<1> DEFINE ds == {d \in first..last : table[p][d] # 0}
<1>1. /\ table' = [table EXCEPT ![p] = [d \in Fds |-> IF d \in ds THEN 0 ELSE @[d]]]
      /\ object' = Kept(table', object)
      /\ fdFlags' = Flagged(p, ds, FALSE)
      /\ locks' = Unlocked(p, ds)
      /\ UNCHANGED <<alive, born>>
  BY ZenonT(30) DEF CloseRange, AfterClose
<1> HIDE DEF ds
<1>2. p \in Pids /\ p \in born
  BY ZenonT(30) DEF FdInv
<1>3. /\ table' \in [Pids -> [Fds -> Objects \cup {0}]]
      /\ \A q \in Pids, d \in Fds : q # p \/ d \notin ds => table'[q][d] = table[q][d]
  BY ZenonT(30), <1>1, <1>2 DEF FdInv
<1>4. object' \in [Objects -> Nodes] /\ \A o \in Objects : object'[o] \in {object[o], Unused}
  BY ZenonT(30), <1>1, KeptObjects
<1>5. locks' \in [Named -> (Pids \X Fds) \cup {Nobody}]
  BY ZenonT(30), <1>1 DEF FdInv, Unlocked
<1>6. ASSUME NEW q \in Pids, NEW d \in Fds, Marked(q, d)' PROVE Marked(q, d) /\ (q # p \/ d \notin ds)
  <2>1. CASE <<q, d>> \in fdFlags'
    BY ZenonT(30), <1>1, <2>1 DEF Marked, Flagged
  <2>2. ASSUME NEW n \in Named, locks'[n] = <<q, d>> PROVE Marked(q, d) /\ (q # p \/ d \notin ds)
    <3>1. <<q, d>> # Nobody
      BY ZenonT(30), DescriptorsAssumption DEF Nobody
    <3>2. locks[n] = <<q, d>> /\ locks[n] \notin {p} \X ds
      BY ZenonT(30), <1>1, <2>2, <3>1 DEF Unlocked
    <3> QED
      BY <3>2 DEF Marked
  <2> QED
    BY ZenonT(30), <1>6, <2>1, <2>2 DEF Marked
<1>7. \A q \in alive', d \in Fds : Marked(q, d)' => table'[q][d] # 0
  BY <1>1, <1>3, <1>6 DEF FdInv
<1>8. \A q \in Pids \ born', d \in Fds : ~Marked(q, d)'
  BY ZenonT(30), <1>1, <1>6 DEF FdInv
<1>9. FdInv'
  BY ZenonT(30), <1>1, <1>3, <1>4, <1>5, <1>7, <1>8 DEF FdInv
<1>10. \A o \in Objects : Sealed(o)
  BY ZenonT(30), <1>4 DEF Sealed
<1> QED
  BY ZenonT(30), <1>9, <1>10

(* Marks and locks on a descriptor that is open, or taken away.              *)
LEMMA MarkKeeps ==
  ASSUME FdInv, NEW p \in alive, UNCHANGED fdUse,
         \/ \E d \in Fds : Flock(p, d) \/ Funlock(p, d) \/ \E c \in BOOLEAN : SetFd(p, d, c)
         \/ \E d, e \in Fds : CloseRangeCloexec(p, d, e)
  PROVE  FdInv' /\ \A o \in Objects : Sealed(o)
<1>1. UNCHANGED <<table, alive, born, object>>
  BY ZenonT(30) DEF Flock, Funlock, SetFd, CloseRangeCloexec
<1> DEFINE ds == {d \in Fds : table[p][d] # 0}
<1>2. fdFlags' \subseteq fdFlags \cup ({p} \X ds)
  <2>1. \A d, e \in Fds : d..e \subseteq Fds
    BY DescriptorsAssumption DEF Fds
  <2> QED
    BY ZenonT(30), <2>1 DEF Flock, Funlock, SetFd, CloseRangeCloexec, Flagged
<1>a. \/ locks' = locks
      \/ \E d \in ds : \E n : locks' = [locks EXCEPT ![n] = <<p, d>>]
      \/ \E n : locks' = [locks EXCEPT ![n] = Nobody]
  BY ZenonT(30) DEF Flock, Funlock, SetFd, CloseRangeCloexec
<1>b. p \in Pids /\ locks \in [Named -> (Pids \X Fds) \cup {Nobody}]
  BY ZenonT(30) DEF FdInv
<1>3. locks' \in [Named -> (Pids \X Fds) \cup {Nobody}]
  BY <1>a, <1>b
<1>4. \A n \in Named : locks'[n] \in {locks[n], Nobody} \cup ({p} \X ds)
  BY <1>a, <1>b
<1>5. /\ table' \in [Pids -> [Fds -> Objects \cup {0}]] /\ object' \in [Objects -> Nodes]
      /\ \A q \in Pids, d \in Fds : table[q][d] # 0 => table'[q][d] # 0
      /\ \A d \in ds : table'[p][d] # 0
  BY ZenonT(30), <1>1 DEF FdInv
<1> HIDE DEF ds
<1>6. ds \in SUBSET Fds
  BY ZenonT(30) DEF ds
<1>7. FdInv'
  BY ZenonT(30), <1>1, <1>2, <1>3, <1>4, <1>5, <1>6, OpenKeeps
<1>8. \A o \in Objects : Sealed(o)
  BY ZenonT(30), <1>1 DEF Sealed
<1> QED
  BY ZenonT(30), <1>7, <1>8

(* Moving the offset of an open file, or changing its size.                  *)
LEMMA NodeChanges ==
  ASSUME NEW m \in Nodes, NEW n \in Nat
  PROVE  /\ [m EXCEPT !.off = n] \in Nodes /\ [m EXCEPT !.off = n].size = m.size
         /\ [m EXCEPT !.size = n] \in Nodes /\ [m EXCEPT !.size = n].size = n
         /\ [m EXCEPT !.size = n].off = m.off
BY ZenonT(30) DEF Nodes

(* Memory files: their contents and seals.                                   *)
LEMMA MemfdKeeps ==
  ASSUME FdInv, NEW p \in alive, NEW d \in Fds, UNCHANGED fdUse,
         \/ MemWrite(p, d)
         \/ \E n \in 0..MaxLen : MemSeek(p, d, n) \/ MemTruncate(p, d, n)
         \/ \E s \in {{"write"}, {"seal"}} : AddSeals(p, d, s)
  PROVE  FdInv' /\ \A o \in Objects : Sealed(o)
<1> DEFINE o == table[p][d]
           m == object[o]
<1>a. table[p][d] # 0
  BY ZenonT(30) DEF MemWrite, MemSeek, MemTruncate, AddSeals
<1>1. o \in Objects /\ m \in Nodes
  BY <1>a DEF FdInv
<1>2. PICK node \in Nodes : /\ Change(o, node)
                            /\ "write" \in m.seals => node.size \in {0, m.size}
  <2>1. CASE MemWrite(p, d)
    <3> DEFINE node == [WriteAtEnd(m, m.off + 1) EXCEPT !.off = @ + 1]
    <3>1. WriteAtEnd(m, m.off + 1) \in Nodes /\ WriteAtEnd(m, m.off + 1).off = m.off /\ m.off + 1 \in Nat
      <4>0. m.off \in Nat
        BY ZenonT(30), <1>1 DEF Nodes
      <4>1. m.off + 1 \in Nat
        BY <4>0
      <4>2. [m EXCEPT !.size = m.off + 1] \in Nodes /\ [m EXCEPT !.size = m.off + 1].off = m.off
        BY ZenonT(30), <1>1, <4>1, NodeChanges
      <4> QED
        BY ZenonT(30), <1>1, <4>1, <4>2 DEF WriteAtEnd
    <3>2. node = [WriteAtEnd(m, m.off + 1) EXCEPT !.off = m.off + 1]
      BY ZenonT(30), <3>1
    <3>3. node \in Nodes
      BY ZenonT(30), <3>1, <3>2, NodeChanges
    <3> QED
      BY ZenonT(30), <2>1, <3>3 DEF MemWrite, FileOf
  <2>2. ASSUME NEW n \in 0..MaxLen, MemSeek(p, d, n)
        PROVE  \E node \in Nodes : Change(o, node) /\ ("write" \in m.seals => node.size \in {0, m.size})
    <3> DEFINE node == [m EXCEPT !.off = n]
    <3>1. node \in Nodes /\ node.size = m.size
      <4>1. n \in Nat
        BY DescriptorsAssumption
      <4> QED
        BY ZenonT(30), <1>1, <4>1, NodeChanges
    <3> QED
      BY ZenonT(30), <2>2, <3>1 DEF MemSeek, FileOf
  <2>3. ASSUME NEW n \in 0..MaxLen, MemTruncate(p, d, n)
        PROVE  \E node \in Nodes : Change(o, node) /\ ("write" \in m.seals => node.size \in {0, m.size})
    <3> DEFINE node == IF n > m.size THEN WriteAtEnd(m, n) ELSE [m EXCEPT !.size = 0]
    <3>1. node \in Nodes /\ ("write" \in m.seals => node.size \in {0, m.size})
      <4>1. n \in Nat /\ 0 \in Nat
        BY DescriptorsAssumption
      <4> QED
        BY ZenonT(30), <1>1, <4>1, NodeChanges DEF WriteAtEnd
    <3> QED
      BY ZenonT(30), <2>3, <3>1 DEF MemTruncate, FileOf
  <2>4. ASSUME NEW s \in {{"write"}, {"seal"}}, AddSeals(p, d, s)
        PROVE  \E node \in Nodes : Change(o, node) /\ ("write" \in m.seals => node.size \in {0, m.size})
    <3> DEFINE node == [m EXCEPT !.seals = @ \cup s]
    <3>1. node \in Nodes /\ node.size = m.size
      BY ZenonT(30), <1>1 DEF Nodes
    <3> QED
      BY ZenonT(30), <2>4, <3>1 DEF AddSeals, FileOf
  <2> QED
    BY ZenonT(30), <2>1, <2>2, <2>3, <2>4
<1> HIDE DEF o
<1>3. /\ object' = [object EXCEPT ![o] = node]
      /\ UNCHANGED <<table, alive, born, fdFlags, locks>>
  BY ZenonT(30), <1>2 DEF Change
<1>4. FdInv'
  BY ZenonT(30), <1>1, <1>3 DEF FdInv, Marked
<1>5. \A x \in Objects : Sealed(x)
  BY ZenonT(30), <1>1, <1>2, <1>3 DEF Sealed, FdInv
<1> QED
  BY ZenonT(30), <1>4, <1>5

(* fork and exit.                                                            *)
LEMMA ForkExitKeep ==
  ASSUME FdInv, NEW p \in alive, UNCHANGED fdUse, (\E q \in fdUse.pids : ForkTable(p, q)) \/ ExitTable(p)
  PROVE  FdInv' /\ \A o \in Objects : Sealed(o)
<1>1. p \in Pids /\ p \in born
  BY ZenonT(30) DEF FdInv
<1>2. fdFlags' = fdFlags /\ locks' = locks
  BY ZenonT(30) DEF ForkTable, ExitTable
<1>3. \A q, d : Marked(q, d)' <=> Marked(q, d)
  BY ZenonT(30), <1>2 DEF Marked
<1>4. ASSUME NEW q \in fdUse.pids, ForkTable(p, q) PROVE FdInv' /\ \A o \in Objects : Sealed(o)
  <2>1. q \in Pids /\ q \notin born
    BY ZenonT(30), <1>4, DescriptorsAssumption DEF FdInv, ForkTable
  <2>2. table' = [table EXCEPT ![q] = table[p]] /\ alive' = alive \cup {q} /\ born' = born \cup {q} /\ object' = object
    BY ZenonT(30), <1>4 DEF ForkTable
  <2>3. \A o \in Objects : Sealed(o)
    BY ZenonT(30), <2>2 DEF Sealed
  <2>4. table' \in [Pids -> [Fds -> Objects \cup {0}]] /\ \A r \in Pids \ {q} : table'[r] = table[r]
    BY ZenonT(30), <1>1, <2>1, <2>2 DEF FdInv
  <2>5. \A r \in alive', d \in Fds : Marked(r, d) => table'[r][d] # 0
    BY <2>1, <2>2, <2>4 DEF FdInv
  <2>6. \A r \in Pids \ born', d \in Fds : ~Marked(r, d)
    BY ZenonT(30), <2>2 DEF FdInv
  <2>7. /\ object' \in [Objects -> Nodes] /\ locks' \in [Named -> (Pids \X Fds) \cup {Nobody}]
        /\ alive' \subseteq born' /\ born' \subseteq Pids /\ fdUse' \in FdUses
    BY ZenonT(30), <1>2, <2>1, <2>2 DEF FdInv
  <2> QED
    BY ZenonT(30), <1>3, <2>3, <2>4, <2>5, <2>6, <2>7 DEF FdInv
<1>5. CASE ExitTable(p)
  <2>1. /\ table' = [table EXCEPT ![p] = [d \in Fds |-> 0]] /\ object' = Kept(table', object)
        /\ alive' = alive \ {p} /\ born' = born
    BY ZenonT(30), <1>5 DEF ExitTable
  <2>2. object' \in [Objects -> Nodes] /\ \A o \in Objects : object'[o] \in {object[o], Unused}
    BY ZenonT(30), <2>1, KeptObjects
  <2>3. table' \in [Pids -> [Fds -> Objects \cup {0}]] /\ \A q \in Pids \ {p} : table'[q] = table[q]
    BY ZenonT(30), <2>1 DEF FdInv
  <2>4. \A q \in alive', d \in Fds : Marked(q, d) => table'[q][d] # 0
    BY ZenonT(30), <2>1, <2>3 DEF FdInv
  <2>5. FdInv'
    BY ZenonT(30), <1>2, <1>3, <2>1, <2>2, <2>3, <2>4 DEF FdInv
  <2>6. \A o \in Objects : Sealed(o)
    BY ZenonT(30), <2>2 DEF Sealed
  <2> QED
    BY ZenonT(30), <2>5, <2>6
<1> QED
  BY ZenonT(30), <1>4, <1>5

(* Every step of a process.                                                  *)
LEMMA StepFollows ==
  ASSUME FdInv, NEW p \in alive, UNCHANGED fdUse, DescriptorsStep(p)
  PROVE  FdInv' /\ \A o \in Objects : Sealed(o)
<1>1. ASSUME NEW n \in Named, OpenNamed(p, n) PROVE FdInv' /\ \A o \in Objects : Sealed(o)
  <2>1. [Unused EXCEPT !.kind = "vfs", !.path = n] \in Nodes
    BY ZenonT(30) DEF Unused, Nodes
  <2> QED
    BY ZenonT(30), <1>1, <2>1, InstallKeeps DEF OpenNamed
<1>2. ASSUME NEW a \in BOOLEAN, NEW b \in BOOLEAN, MemfdCreate(p, a, b) PROVE FdInv' /\ \A o \in Objects : Sealed(o)
  <2>1. [Unused EXCEPT !.kind = "memfd", !.sealable = a, !.seals = IF a THEN {} ELSE {"seal"}] \in Nodes
    BY ZenonT(30) DEF Unused, Nodes
  <2> QED
    BY ZenonT(30), <1>2, <2>1, InstallKeeps DEF MemfdCreate
<1>3. ASSUME NEW d \in Fds, NEW from, NEW c \in BOOLEAN, FcntlDupfd(p, d, from, c)
      PROVE  FdInv' /\ \A o \in Objects : Sealed(o)
  <2>a. PICK e : e = Lowest(Free(p, from))
    BY ZenonT(30)
  <2>1. e \in Fds
    BY ZenonT(30), <1>3, <2>a, LowestIsFree DEF FcntlDupfd
  <2>2. /\ table[p][d] # 0 /\ table' = [table EXCEPT ![p][e] = table[p][d]]
        /\ fdFlags' = Flagged(p, {e}, c) /\ UNCHANGED <<alive, born, object, locks>>
    BY ZenonT(30), <1>3, <2>a DEF FcntlDupfd
  <2> QED
    BY ZenonT(30), <2>1, <2>2, DupKeeps DEF Dups
<1>4. ASSUME NEW d \in Fds, NEW e \in Fds, NEW c \in BOOLEAN, Dup3(p, d, e, c)
      PROVE  FdInv' /\ \A o \in Objects : Sealed(o)
  BY ZenonT(30), <1>4, DupKeeps DEF Dup3, Dups
<1>5. ASSUME NEW d \in Fds, Dup(p, d) PROVE FdInv' /\ \A o \in Objects : Sealed(o)
  BY ZenonT(30), <1>3, <1>5 DEF Dup
<1> QED
  BY ZenonT(30), <1>1, <1>2, <1>3, <1>4, <1>5, PipeKeeps, CloseKeeps, MarkKeeps, MemfdKeeps, ForkExitKeep DEF DescriptorsStep

(* TablesFollow, for every number of processes, descriptors and open files:  *)
(* a descriptor that is closed takes its close-on-exec mark and its lock     *)
(* with it, and a write seal holds.                                          *)
THEOREM MarksFollowDescriptors == DescriptorsSpec => TablesFollow
<1>1. DescriptorsInit => FdInv
  <2> SUFFICES ASSUME DescriptorsInit PROVE FdInv
    OBVIOUS
  <2>1. Unused \in Nodes
    BY ZenonT(30) DEF Unused, Nodes
  <2>2. \A p \in Pids, d \in Fds : ~Marked(p, d)
    BY ZenonT(30), DescriptorsAssumption DEF DescriptorsInit, Marked, Nobody
  <2> QED
    BY ZenonT(30), <2>1, <2>2, DescriptorsAssumption DEF DescriptorsInit, FdInv
<1>2. FdInv /\ [DescriptorsNext]_fdVars => FdInv'
  <2>1. FdInv /\ UNCHANGED fdVars => FdInv'
    BY ZenonT(30) DEF FdInv, fdVars, Marked
  <2> QED
    BY ZenonT(30), <2>1, StepFollows DEF DescriptorsNext
<1>3. FdInv /\ FdInv' /\ [DescriptorsNext]_fdVars =>
        [/\ \A p \in alive', d \in Fds :
              (<<p, d>> \in fdFlags' \/ \E n \in Named : locks'[n] = <<p, d>>) => table'[p][d] # 0
         /\ \A o \in Objects :
              "write" \in object[o].seals /\ object'[o] # Unused => object'[o].size \in {0, object[o].size}]_fdVars
  BY ZenonT(30), StepFollows DEF DescriptorsNext, FdInv, Marked, Sealed
<1> QED
  BY <1>1, <1>2, <1>3, PTL DEF DescriptorsSpec, TablesFollow

=============================================================================
