----------------------------- MODULE Processes ------------------------------
(***************************************************************************)
(* Process families: fork, clone and vfork, exit and reparenting, wait4    *)
(* and waitid, process groups, and the life of process control blocks and  *)
(* their pids (task/process.rs, task/mod.rs, task/manager.rs, task/id.rs,  *)
(* syscall/process.rs).  A control block (PCB) lives as long as an Arc of  *)
(* it does; its pid is free again when it is dropped.  The Arcs are the    *)
(* entries of PID2PCB and of the children lists, INITPROC, and the local   *)
(* variables of system calls that have suspended.                          *)
(***************************************************************************)
EXTENDS Integers, Sequences, Functions

CONSTANTS PCBs,        \* process control blocks
          INITPROC,    \* the first process
          Nobody,      \* no process
          Repertoires  \* bounds: what the programs of a behaviour may do

(* A repertoire says which PCBs there are, whether processes have a second *)
(* thread, which calls the programs make, and which targets they wait for: *)
(* any child (-1), one pid, or the caller's group (0).                     *)

ASSUME ProcessesAssumption ==
  /\ INITPROC \in PCBs /\ Nobody \notin PCBs
  /\ \A r \in Repertoires : r.pcbs \subseteq PCBs /\ r.targets \subseteq Int

VARIABLES
  state,     \* "none" (no such PCB), "live" or "zombie"
  pid,       \* the PidHandle of each PCB
  parent,    \* ProcessFamily.parent
  children,  \* ProcessFamily.children
  pgid,      \* ProcessIdentity.pgid
  killed,    \* SIGKILL pending for the process
  tkilled,   \* threads with SIGKILL pending for themselves
  call,      \* what each thread is doing
  table,     \* PID2PCB
  recycled,  \* RecycleAllocator.recycled
  fresh,     \* RecycleAllocator.current
  leaked,    \* PCBs with an Arc that nobody will drop
  uses       \* the repertoire of the behaviour

family == <<state, parent, children, pgid, table>>
signals == <<killed, tkilled>>
alloc == <<pid, recycled, fresh>>
vars == <<family, signals, alloc, call, leaked, uses>>

Tids == {0, 1}                  \* the main thread and another
Absent == [op |-> "absent"]
User == [op |-> "user"]

Init ==
  /\ uses \in Repertoires
  /\ state = [p \in PCBs |-> IF p = INITPROC THEN "live" ELSE "none"]
  /\ pid = [p \in PCBs |-> 1]
  /\ parent = [p \in PCBs |-> Nobody]
  /\ children = [p \in PCBs |-> <<>>]
  /\ pgid = [p \in PCBs |-> 1]
  /\ killed = [p \in PCBs |-> FALSE]
  /\ tkilled = [p \in PCBs |-> {}]
  /\ call = [p \in PCBs |-> [t \in Tids |-> IF p = INITPROC /\ t = 0 THEN User ELSE Absent]]
  /\ table = {INITPROC}
  /\ recycled = {}
  /\ fresh = 2
  /\ leaked = {}

-----------------------------------------------------------------------------
(* The PCBs of which thread t of p has an Arc among its local variables.   *)
Holds(p, t) == IF call[p][t].op \in {"wait", "vfork"} THEN call[p][t].holds ELSE {}

(* Arc: the PCBs that are still referred to.                               *)
Referred == {q \in PCBs : \/ q \in table \cup leaked \cup {INITPROC}
                          \/ \E p \in PCBs : q \in Range(children[p])
                          \/ \E p \in PCBs, t \in Tids : q \in Holds(p, t)}

(* The drops at the end of a step: a PCB without an Arc goes, and its pid  *)
(* is free again.  recycled is a stack in the code; here any of the free   *)
(* pids may be next.                                                       *)
DropUnreferred ==
  \E gone \in {{p \in PCBs : state[p] # "none"} \ Referred'} :
      /\ state' = [p \in PCBs |-> IF p \in gone THEN "none" ELSE state[p]]
      /\ recycled' = recycled \cup {pid[p] : p \in gone}
      /\ pid' = [p \in PCBs |-> IF p \in gone THEN 1 ELSE pid[p]]
      /\ parent' = [p \in PCBs |-> IF p \in gone THEN Nobody ELSE parent[p]]
      /\ pgid' = [p \in PCBs |-> IF p \in gone THEN 1 ELSE pgid[p]]
      /\ UNCHANGED fresh

(* Thread t of p is in user mode and enters the kernel.                    *)
InUser(p, t) == state[p] = "live" /\ call[p][t] = User

At(f, p, t, c) == [f EXCEPT ![p] = [@ EXCEPT ![t] = c]]

-----------------------------------------------------------------------------
(* RecycleAllocator: the pids that alloc may return, and what is left.     *)
NextPids == IF recycled # {} THEN recycled ELSE {fresh}
Recycled(n) == recycled \ {n}
Current == IF recycled # {} THEN fresh ELSE fresh + 1

NewPCBs == {q \in uses.pcbs : state[q] = "none"}

(* fork: the child is entered in its parent's children and in PID2PCB.     *)
(* With CLONE_PARENT it is then moved to the caller's parent; with         *)
(* CLONE_VFORK the caller polls until the child is a zombie.  The programs *)
(* of INITPROC, which has no parent, do not use CLONE_PARENT.              *)
Clone(p, t, sibling, vfork) ==
  /\ InUser(p, t)
  /\ sibling => ("clone_parent" \in uses.calls /\ p # INITPROC)
  /\ vfork => "vfork" \in uses.calls
  /\ NewPCBs # {}
  /\ LET c == CHOOSE q \in NewPCBs : TRUE       \* any: a PCB's name means nothing
         up == IF sibling THEN parent[p] ELSE p
     IN  /\ \E n \in NextPids : /\ pid' = [pid EXCEPT ![c] = n]
                                /\ recycled' = Recycled(n)
                                /\ fresh' = Current
         /\ state' = [state EXCEPT ![c] = "live"]
         /\ parent' = [parent EXCEPT ![c] = up]
         /\ children' = [children EXCEPT ![up] = Append(@, c), ![c] = <<>>]
         /\ pgid' = [pgid EXCEPT ![c] = pgid[p]]
         /\ table' = table \cup {c}
         /\ killed' = [killed EXCEPT ![c] = FALSE]
         /\ tkilled' = [tkilled EXCEPT ![c] = {}]
         /\ LET polls == [op |-> "vfork", child |-> c, holds |-> {c, p}]
            IN  call' = At(At(call, c, 0, User), p, t, IF vfork THEN polls ELSE User)
  /\ UNCHANGED <<leaked, uses>>

(* The loop of clone(CLONE_VFORK), which looks at the child it has an Arc  *)
(* of, not at the pid.                                                     *)
VforkDone_ByPid(c) == \E q \in table : pid[q] = pid[c] /\ state[q] = "zombie"
VforkDone(c) == state[c] = "zombie"
VforkReturn(p, t) ==
  /\ state[p] = "live" /\ call[p][t].op = "vfork"
  /\ VforkDone(call[p][t].child)
  /\ call' = At(call, p, t, User)
  /\ UNCHANGED <<children, table, signals, leaked, uses>>
  /\ DropUnreferred

(* clone(CLONE_THREAD).                                                    *)
NewThread(p, t) ==
  /\ InUser(p, t)
  /\ uses.threads
  /\ \E u \in Tids : /\ u # 0 /\ call[p][u] = Absent
                     /\ call' = At(call, p, u, User)
                     /\ tkilled' = [tkilled EXCEPT ![p] = @ \ {u}]
  /\ UNCHANGED <<family, alloc, killed, leaked, uses>>

(* setpgid for the caller itself; setsid also makes the caller's pid its   *)
(* group.                                                                  *)
SetPgid(p, t) ==
  /\ InUser(p, t)
  /\ "setpgid" \in uses.calls
  /\ pgid' = [pgid EXCEPT ![p] = pid[p]]
  /\ UNCHANGED <<state, parent, children, table, signals, alloc, call, leaked, uses>>

-----------------------------------------------------------------------------
(* exit_current_and_run_next.  The main thread, or the last thread, makes  *)
(* the process a zombie: its children become INITPROC's, and its other     *)
(* threads are dropped where they stand, with their kernel stacks, so that *)
(* the Arcs on those are never given back.                                 *)
Heirs_NotMoved(p) == children[INITPROC]
Heirs(p) == children[INITPROC] \o children[p]

NewParent(p, q) == IF q \in Range(children[p]) THEN INITPROC ELSE parent[q]

Others(p, t) == {u \in Tids \ {t} : call[p][u] # Absent}
EndThread(p, t, lost) ==
  LET last == t = 0 \/ Others(p, t) = {}
      dropped == IF last THEN UNION {Holds(p, u) : u \in Tids \ {t}} ELSE {}
  IN  /\ state' = [state EXCEPT ![p] = IF last THEN "zombie" ELSE @]
      /\ children' = IF last THEN [children EXCEPT ![INITPROC] = Heirs(p), ![p] = <<>>] ELSE children
      /\ parent' = IF last THEN [q \in PCBs |-> NewParent(p, q)] ELSE parent
      /\ call' = IF last THEN [call EXCEPT ![p] = [u \in Tids |-> Absent]] ELSE At(call, p, t, Absent)
      /\ leaked' = leaked \cup lost \cup dropped
      /\ UNCHANGED <<pgid, table, alloc, uses>>

(* sys_exit; INITPROC's program never ends.                                *)
SysExit(p, t) ==
  /\ InUser(p, t)
  /\ p # INITPROC
  /\ EndThread(p, t, {})
  /\ UNCHANGED signals

(* sys_exit_group: SIGKILL for the other threads first.                    *)
ExitGroup(p, t) ==
  /\ InUser(p, t)
  /\ p # INITPROC
  /\ uses.threads
  /\ tkilled' = [tkilled EXCEPT ![p] = Others(p, t)]
  /\ EndThread(p, t, {})
  /\ UNCHANGED killed

(* sys_kill with SIGKILL: kill_single spares pid 1, kill_group takes every *)
(* process of the caller's group but pid 1.                                *)
Victims(p, group) == {q \in table : pid[q] # 1 /\ (group => pgid[q] = pgid[p])}
Kill(p, t, group) ==
  /\ InUser(p, t)
  /\ "kill" \in uses.calls
  /\ \E V \in IF group THEN {Victims(p, TRUE)} ELSE {{q} : q \in Victims(p, FALSE)} :
       /\ V # {}
       /\ killed' = [q \in PCBs |-> killed[q] \/ (q \in V /\ state[q] = "live")]
  /\ UNCHANGED <<family, alloc, tkilled, call, leaked, uses>>

Doomed(p, t) == killed[p] \/ t \in tkilled[p]

(* handle_signals takes a SIGKILL: it is injected into the other threads,  *)
(* and the thread exits; the Arc in handle_signals' own variable `process` *)
(* is not given back.                                                      *)
FatalLoses(p) == {p}
FatalSignal(p, t) ==
  /\ InUser(p, t)
  /\ Doomed(p, t)
  /\ killed' = [killed EXCEPT ![p] = FALSE]
  /\ tkilled' = [tkilled EXCEPT ![p] = Others(p, t)]
  /\ EndThread(p, t, FatalLoses(p))

-----------------------------------------------------------------------------
(* wait4 and waitid.  Each turn looks at the children anew; the Arcs of    *)
(* the children and of the process itself are held while the caller is     *)
(* suspended.                                                              *)
Matches(who, c) == \/ who.target = -1
                   \/ who.target = 0 /\ pgid[c] = who.group
                   \/ who.target = pid[c]
Matching(p, who) == {i \in DOMAIN children[p] : Matches(who, children[p][i])}
Zombies(p, who) == {i \in Matching(p, who) : state[children[p][i]] = "zombie"}
First(places) == CHOOSE i \in places : \A j \in places : i <= j

(* History: the children that a wait was for when it began.                *)
Meant(p, who) == {children[p][i] : i \in Matching(p, who)}

Suspended_NoArcs(p) == {}
Suspended(p) == Range(children[p]) \cup {p}

(* remove_child_by_pid.                                                    *)
Without(s, i) == SubSeq(s, 1, i - 1) \o SubSeq(s, i + 1, Len(s))
Reaped_Kept(p, c) == children[p]
Reaped(p, c) == Without(children[p], First({i \in DOMAIN children[p] : pid[children[p][i]] = pid[c]}))

WaitTurn(p, t, who, nohang, meant) ==
  \* No child matches (ECHILD), or the caller will not wait (0).
  \/ /\ Matching(p, who) = {} \/ (nohang /\ Zombies(p, who) = {})
     /\ call' = At(call, p, t, User)
     /\ UNCHANGED <<children, table>>
  \* The first zombie is reaped.
  \/ /\ Zombies(p, who) # {}
     /\ LET c == children[p][First(Zombies(p, who))]
        IN  /\ children' = [children EXCEPT ![p] = Reaped(p, c)]
            /\ table' = {q \in table : pid[q] # pid[c]}
     /\ call' = At(call, p, t, User)
  \* Not yet.
  \/ /\ Matching(p, who) # {} /\ Zombies(p, who) = {} /\ ~nohang
     /\ call' = At(call, p, t, [op |-> "wait", who |-> who, meant |-> meant, holds |-> Suspended(p)])
     /\ UNCHANGED <<children, table>>

Wait(p, t, target, nohang) ==
  /\ InUser(p, t)
  /\ LET who == [target |-> target, group |-> pgid[p]]
     IN  WaitTurn(p, t, who, nohang, Meant(p, who))
  /\ UNCHANGED <<signals, leaked, uses>>
  /\ DropUnreferred

InWait(p, t) == state[p] = "live" /\ call[p][t].op = "wait"

WaitAgain(p, t) ==
  /\ InWait(p, t)
  /\ ~Doomed(p, t)
  /\ WaitTurn(p, t, call[p][t].who, FALSE, call[p][t].meant)
  /\ UNCHANGED <<signals, leaked, uses>>
  /\ DropUnreferred

(* A pending signal that is not ignored: EINTR.                            *)
WaitInterrupted(p, t) ==
  /\ InWait(p, t)
  /\ call' = At(call, p, t, User)
  /\ UNCHANGED <<children, table, signals, leaked, uses>>
  /\ DropUnreferred

ProgramStep(p, t) ==
  \/ \E sibling, vfork \in BOOLEAN : Clone(p, t, sibling, vfork)
  \/ NewThread(p, t) \/ SetPgid(p, t) \/ SysExit(p, t) \/ ExitGroup(p, t)
  \/ \E group \in BOOLEAN : Kill(p, t, group)
  \/ \E target \in uses.targets, nohang \in BOOLEAN : Wait(p, t, target, nohang)

KernelStep(p, t) == VforkReturn(p, t) \/ FatalSignal(p, t) \/ WaitAgain(p, t) \/ WaitInterrupted(p, t)

Next == \E p \in PCBs, t \in Tids : ProgramStep(p, t) \/ KernelStep(p, t)

Spec == Init /\ [][Next]_vars

(* The ready queue gives every suspended thread its turns, and a SIGKILL   *)
(* ends a wait.                                                            *)
Turn(p, t) == VforkReturn(p, t) \/ WaitAgain(p, t) \/ (Doomed(p, t) /\ WaitInterrupted(p, t))
Fairness == \A p \in PCBs, t \in Tids : WF_vars(Turn(p, t))
FairSpec == Spec /\ Fairness

-----------------------------------------------------------------------------
Exists(p) == state[p] # "none"

(* Type invariant, with the assertion of RecycleAllocator::dealloc that a  *)
(* recycled pid has been handed out.                                       *)
TypeOK ==
  /\ state \in [PCBs -> {"none", "live", "zombie"}]
  /\ parent \in [PCBs -> PCBs \cup {Nobody}]
  /\ table \cup leaked \subseteq {p \in PCBs : Exists(p)}
  /\ recycled \subseteq 1 .. fresh - 1
  /\ \A p \in PCBs : Exists(p) => pid[p] \in 1 .. fresh - 1

ListedOnce(p, c) == \E i \in DOMAIN children[p] : \A j \in DOMAIN children[p] : children[p][j] = c <=> j = i

(* Somebody can reap every process: each process of PID2PCB but INITPROC   *)
(* is once in the children of one process, its parent, which is alive.     *)
(* Exit, CLONE_PARENT and wait all move children between lists.            *)
FamilyTree ==
  /\ TypeOK
  /\ \A c \in table \ {INITPROC} :
       /\ state[parent[c]] = "live"
       /\ \A p \in PCBs : IF p = parent[c] THEN ListedOnce(p, c) ELSE c \notin Range(children[p])

(* Two PCBs never have the same pid, and a free pid is nobody's: a pid is  *)
(* reused at once, but only when the last Arc of its process is gone       *)
(* (id.rs:92), which may be long after the process was reaped.             *)
PidsUnique ==
  /\ \A p, q \in PCBs : (Exists(p) /\ Exists(q) /\ pid[p] = pid[q]) => p = q
  /\ \A p \in PCBs : Exists(p) => pid[p] \notin recycled

(* A wait for one pid never takes a later child for the one it was called  *)
(* for: as long as the call is suspended, the only process that has the    *)
(* pid is the child that had it when the call began, even if another       *)
(* thread reaps this child.  The Arcs in the caller's snapshot keep the    *)
(* pid from being recycled.                                                *)
WaitedChild ==
  \A p \in PCBs, t \in Tids :
    (InWait(p, t) /\ call[p][t].who.target > 0)
      => {q \in PCBs : Exists(q) /\ pid[q] = call[p][t].who.target} = call[p][t].meant

Held(p) == \E q \in PCBs, t \in Tids : p \in Holds(q, t)

(* A process that has been reaped is dropped, and its pid free, as soon as *)
(* no call in progress refers to it.                                       *)
PidsReturned == \A p \in PCBs : Exists(p) => p \in table \/ Held(p)

(* A pid is never two processes' at once, and it comes back when its       *)
(* process is reaped, for programs with one thread that do not kill.       *)
ExitsGiveBack == PidsUnique /\ (("kill" \notin uses.calls /\ ~uses.threads) => PidsReturned)

(* A wait returns once a child that it waits for is a zombie, and          *)
(* clone(CLONE_VFORK) once the child has ended, even if another thread, or *)
(* with CLONE_PARENT the caller's parent, has reaped it.                   *)
WaitsReturn ==
  \A p \in PCBs, t \in Tids :
    /\ (InWait(p, t) /\ \E c \in Range(children[p]) : Matches(call[p][t].who, c) /\ state[c] = "zombie")
         ~> ~InWait(p, t)
    /\ (call[p][t].op = "vfork" /\ state[call[p][t].child] = "zombie") ~> call[p][t].op # "vfork"
=============================================================================
