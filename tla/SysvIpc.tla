------------------------------ MODULE SysvIpc -------------------------------
(***************************************************************************)
(* System V message queues and shared memory segments (syscall/ipc.rs).    *)
(* The calls run under the IPC_MANAGER lock on a processor that does not   *)
(* preempt the kernel, so each is one step; a call that returns an error   *)
(* and changes nothing is a guard that fails.  Around them stand fork,     *)
(* exec, exit, mmap and munmap, which change the areas that shmat made.    *)
(***************************************************************************)
EXTENDS Integers, FiniteSets, SequencesExt

CONSTANTS Pids,      \* process identifiers
          Who,       \* user and group of each process: [uid, gid]; uid 0 is root
          Keys,      \* IPC keys other than IPC_PRIVATE, positive
          Modes,     \* bound: permission words in use, [own, grp, oth]
          Types,     \* bound: message types, positive
          MSGMAX, MSGMNB, SHMMAX, SHMMNI, SHMSEG, PAGE_SIZE,
          Sizes,     \* bound: sizes of messages and of receive buffers
          Frames,    \* physical frames for segments
          MaxStale,  \* bound: attachments left behind before the next munmap or exec
          Programs   \* bounds: which calls a behaviour makes ("msg", "shm" or none), by
                     \* which processes, with which keys, how many pages an
                     \* address space has, and how many identifiers are handed
                     \* out and messages queued at a time in it

IPC_PRIVATE == 0

ASSUME IpcAssumption ==
  /\ Pids \cup Keys \cup Types \subseteq Nat \ {0} /\ Sizes \subseteq Nat
  /\ {MSGMAX, MSGMNB, SHMMAX, SHMMNI, SHMSEG, PAGE_SIZE} \subseteq Nat \ {0}
  /\ Frames \in Nat
  /\ \A p \in Pids : Who[p].uid \in Nat /\ Who[p].gid \in Nat
  /\ \A r \in Programs : /\ r.procs \subseteq Pids /\ r.keys \subseteq Keys \cup {IPC_PRIVATE}
                         /\ r.ids \in Nat /\ r.msgs \in Nat /\ r.pages \in Nat
  /\ \A m \in Modes : m.own \cup m.grp \cup m.oth \subseteq {"r", "w"}

VARIABLES
  msgq,        \* message_queues: id -> [key, uid, gid, mode, msgs, total, max]
  nextMsgid,
  msgmni,      \* MSGMNI_LIMIT
  shm,         \* shm_segments: id -> [key, size, count, marked]
  nextShmid,
  attached,    \* shm_attachments: <<pid, page>> -> id
  areas,       \* the areas of each process, [lo, hi, seg, off]; seg 0 is no segment
  mmapBase,    \* mmap_base of each process, as a page
  alive,       \* the processes that exist
  stale,       \* history: attachments whose pages went by munmap or exec
  program      \* the program of this behaviour

msgVars == <<msgq, nextMsgid, msgmni>>
shmVars == <<shm, nextShmid, attached, areas, mmapBase, alive, stale>>
sysvVars == <<msgVars, shmVars, program>>

Ids == 1 .. program.ids
Drop(f, D) == Restrict(f, DOMAIN f \ D)
Add(f, x, v) == [y \in DOMAIN f \cup {x} |-> IF y = x THEN v ELSE f[y]]
AlignUp(n) == ((n + PAGE_SIZE - 1) \div PAGE_SIZE) * PAGE_SIZE
NPages(size) == AlignUp(size) \div PAGE_SIZE

SysvInit ==
  /\ program \in Programs
  /\ msgq = <<>> /\ nextMsgid = 1 /\ msgmni = 2
  /\ shm = <<>> /\ nextShmid = 1 /\ attached = <<>>
  /\ alive = {Min(program.procs)}
  /\ areas = [p \in Pids |-> {}]
  /\ mmapBase = [p \in Pids |-> 0]
  /\ stale = {}

-----------------------------------------------------------------------------
(* Message queues.                                                         *)

(* access_bits_for: the owner's, the group's or the others' bits.          *)
AccessBits(q, p) ==
  IF Who[p].uid = q.uid THEN q.mode.own ELSE IF Who[p].gid = q.gid THEN q.mode.grp ELSE q.mode.oth
IsSuper(p) == Who[p].uid = 0
HasAccess(q, p, bits) == IsSuper(p) \/ bits \subseteq AccessBits(q, p)
CanCtl(q, p) == IsSuper(p) \/ Who[p].uid = q.uid

QueuedMsgs == FoldFunction(LAMBDA q, n : n + Len(q.msgs), 0, msgq)

(* find_msgq_by_key finds a queue.                                         *)
KeyInUse(key) == \E i \in DOMAIN msgq : msgq[i].key = key

NewQueue(p, key, mode) ==
  [key |-> key, uid |-> Who[p].uid, gid |-> Who[p].gid, mode |-> mode,
   msgs |-> <<>>, total |-> 0, max |-> MSGMNB]

CreateMsgq(p, key, mode) ==
  /\ Cardinality(DOMAIN msgq) < msgmni
  /\ nextMsgid <= program.ids
  /\ msgq' = Add(msgq, nextMsgid, NewQueue(p, key, mode))
  /\ nextMsgid' = nextMsgid + 1

(* sys_msgget, where it creates: an IPC_PRIVATE key always does, another   *)
(* key only when no queue has it.                                          *)
SysMsgget(p, key, mode) ==
  /\ key # IPC_PRIVATE => ~KeyInUse(key)
  /\ CreateMsgq(p, key, mode)
  /\ UNCHANGED <<msgmni, shmVars, program>>

(* A write to /proc/sys/kernel/msgmni; the limit may go below what exists. *)
SetMsgmni(limit) ==
  /\ limit > 0
  /\ msgmni' = limit
  /\ UNCHANGED <<msgq, nextMsgid, shmVars, program>>

(* MessageQueue::send; it never blocks.                                    *)
Send(id, m) ==
  /\ msgq[id].total + m.size <= msgq[id].max
  /\ msgq' = [msgq EXCEPT ![id].msgs = Append(@, m), ![id].total = @ + m.size]

SysMsgsnd(p, id, type, size) ==
  /\ size <= MSGMAX
  /\ id \in DOMAIN msgq
  /\ HasAccess(msgq[id], p, {"w"})
  /\ type > 0
  /\ QueuedMsgs < program.msgs
  /\ Send(id, [type |-> type, size |-> size])
  /\ UNCHANGED <<nextMsgid, msgmni, shmVars, program>>

(* The message that MessageQueue::receive picks, 0 for none: a loop over   *)
(* the queue keeps the best candidate of a negative type.                  *)
ReceivePos_LastBest(msgs, typ, except) ==
  IF typ = 0 THEN IF msgs = <<>> THEN 0 ELSE 1
  ELSE IF typ > 0 THEN SelectInSeq(msgs, LAMBDA m : (m.type = typ) # except)
  ELSE FoldLeft(LAMBDA best, i : IF /\ msgs[i].type <= -typ
                                    /\ best = 0 \/ msgs[i].type <= msgs[best].type
                                 THEN i ELSE best,
                0, [i \in DOMAIN msgs |-> i])
ReceivePos(msgs, typ, except) ==
  IF typ = 0 THEN IF msgs = <<>> THEN 0 ELSE 1
  ELSE IF typ > 0 THEN SelectInSeq(msgs, LAMBDA m : (m.type = typ) # except)
  ELSE FoldLeft(LAMBDA best, i : IF /\ msgs[i].type <= -typ
                                    /\ best = 0 \/ msgs[i].type < msgs[best].type
                                 THEN i ELSE best,
                0, [i \in DOMAIN msgs |-> i])

(* The end of MessageQueue::receive: a message too long for the buffer     *)
(* stays, unless MSG_NOERROR.                                              *)
Receive(id, pos, bufsz, noerror) ==
  LET size == msgq[id].msgs[pos].size
  IN  /\ pos # 0
      /\ size <= bufsz \/ noerror
      /\ msgq' = [msgq EXCEPT ![id].msgs = RemoveAt(@, pos), ![id].total = @ - size]

(* sys_msgrcv without MSG_COPY, which changes nothing.  The message is off *)
(* the queue before it is copied out, so an EFAULT loses it.               *)
SysMsgrcv(p, id, typ, except, bufsz, noerror) ==
  /\ bufsz <= MSGMAX
  /\ id \in DOMAIN msgq
  /\ HasAccess(msgq[id], p, {"r"})
  /\ Receive(id, ReceivePos(msgq[id].msgs, typ, except), bufsz, noerror)
  /\ UNCHANGED <<nextMsgid, msgmni, shmVars, program>>

(* sys_msgctl: IPC_RMID drops the queue with its messages, IPC_SET changes *)
(* the mode and the byte limit, which may go below what is queued.         *)
MsgctlRmid(p, id) ==
  /\ id \in DOMAIN msgq
  /\ CanCtl(msgq[id], p)
  /\ msgq' = Drop(msgq, {id})
  /\ UNCHANGED <<nextMsgid, msgmni, shmVars, program>>

MsgctlSet(p, id, mode, qbytes) ==
  /\ id \in DOMAIN msgq
  /\ CanCtl(msgq[id], p)
  /\ qbytes > 0 /\ qbytes <= MSGMNB
  /\ msgq' = [msgq EXCEPT ![id].mode = mode, ![id].max = qbytes]
  /\ UNCHANGED <<nextMsgid, msgmni, shmVars, program>>

MsgNext ==
  \/ \E limit \in 0 .. 2 : SetMsgmni(limit)
  \/ \E p \in program.procs :
       \/ \E key \in program.keys, m \in Modes : SysMsgget(p, key, m)
       \/ \E id \in Ids :
            \/ \E type \in Types, size \in Sizes : SysMsgsnd(p, id, type, size)
            \/ \E typ \in Types \cup {0} \cup {-t : t \in Types}, except, noerror \in BOOLEAN,
                  bufsz \in Sizes : SysMsgrcv(p, id, typ, except, bufsz, noerror)
            \/ MsgctlRmid(p, id)
            \/ \E m \in Modes, n \in Sizes : MsgctlSet(p, id, m, n)

-----------------------------------------------------------------------------
(* Shared memory.                                                          *)

(* The pages of segments in memory: a page lives while its segment or an   *)
(* area that maps it does (Arc<FrameTracker>).                             *)
InUse == UNION {{<<i, n>> : n \in 0 .. NPages(shm[i].size) - 1} : i \in DOMAIN shm}
         \cup UNION {{<<a.seg, a.off + n>> : n \in 0 .. a.hi - a.lo - 1} :
                       a \in {b \in UNION {areas[p] : p \in Pids} : b.seg # 0}}

(* find_shm_by_key skips a segment marked for deletion.                    *)
FindShm(key) == {i \in DOMAIN shm : shm[i].key = key /\ ~shm[i].marked}

NewSegment(key, size) == [key |-> key, size |-> AlignUp(size), count |-> 0, marked |-> FALSE]

(* create_shm: when the frames run out the identifier is gone and nothing  *)
(* else changes.                                                           *)
CreateShm(key, size) ==
  /\ Cardinality(DOMAIN shm) < SHMMNI
  /\ nextShmid <= program.ids
  /\ nextShmid' = nextShmid + 1
  /\ shm' = IF Cardinality(InUse) + NPages(size) <= Frames
            THEN Add(shm, nextShmid, NewSegment(key, size)) ELSE shm

(* sys_shmget where it creates.                                            *)
SysShmget(key, size) ==
  /\ 1 <= size /\ size <= SHMMAX
  /\ key # IPC_PRIVATE => FindShm(key) = {}
  /\ CreateShm(key, size)
  /\ UNCHANGED <<msgVars, attached, areas, mmapBase, alive, stale, program>>

(* overlap_count, insert_shm_area, remove_area_with_start_vpn and          *)
(* attachment_count_of_pid.                                                *)
Overlapping(p, lo, hi) == {a \in areas[p] : a.lo < hi /\ a.hi > lo}
OverlapCount(p, lo, hi) == Cardinality(Overlapping(p, lo, hi))
ShmArea(id, lo) == [lo |-> lo, hi |-> lo + NPages(shm[id].size), seg |-> id, off |-> 0]
WithoutStart(p, page) == {a \in areas[p] : a.lo # page}
AttachmentsOf(p) == {k \in DOMAIN attached : k[1] = p}

(* alloc_mmap_base moves mmap_base on, also when the call fails later.     *)
AllocMmapBase(p, n) == mmapBase' = [mmapBase EXCEPT ![p] = @ + n]

(* The outcome of add_attachment: no other attachment has the page.        *)
AddAttachment(p, page) == <<p, page>> \notin DOMAIN attached

(* sys_shmat: at the page asked for, or at mmap_base.  An attachment that  *)
(* a munmap or an exec left behind at this page makes it fail.             *)
SysShmat(p, id, fixed, at) ==
  /\ p \in alive
  /\ id \in DOMAIN shm
  /\ Cardinality(AttachmentsOf(p)) < SHMSEG
  /\ ~shm[id].marked
  /\ LET n == NPages(shm[id].size)
         lo == IF fixed THEN at ELSE mmapBase[p]
         done == OverlapCount(p, lo, lo + n) = 0 /\ AddAttachment(p, lo)
     IN  /\ lo + n <= program.pages
         /\ IF fixed THEN mmapBase' = mmapBase ELSE AllocMmapBase(p, n)
         /\ areas' = [areas EXCEPT ![p] = IF done THEN @ \cup {ShmArea(id, lo)} ELSE @]
         /\ attached' = IF done THEN Add(attached, <<p, lo>>, id) ELSE attached
         /\ shm' = [shm EXCEPT ![id].count = IF done THEN @ + 1 ELSE @]
  /\ UNCHANGED <<msgVars, nextShmid, alive, stale, program>>

(* Taking attachments out of the tables: the counts go down, and a marked  *)
(* segment that nobody has attached any more is removed, with whatever     *)
(* attachments still name it (remove_shm).                                 *)
Detach(keys) ==
  LET n(i) == Cardinality({k \in keys : attached[k] = i})
      less == [i \in DOMAIN shm |-> [shm[i] EXCEPT !.count = IF n(i) > @ THEN 0 ELSE @ - n(i)]]
      dead == {i \in DOMAIN shm : n(i) > 0 /\ shm[i].marked /\ less[i].count = 0}
  IN  /\ shm' = Drop(less, dead)
      /\ attached' = Restrict(attached, {k \in DOMAIN attached \ keys : attached[k] \notin dead})
      /\ stale' = stale \cap DOMAIN attached'

(* sys_shmdt: the area that starts at the page goes, whatever it is.       *)
SysShmdt(p, page) ==
  /\ p \in alive
  /\ <<p, page>> \in DOMAIN attached
  /\ Detach({<<p, page>>})
  /\ areas' = [areas EXCEPT ![p] = WithoutStart(p, page)]
  /\ UNCHANGED <<msgVars, nextShmid, mmapBase, alive, program>>

(* sys_shmctl(IPC_RMID): the segment goes now, or with its last            *)
(* attachment.                                                             *)
ShmctlRmid(id) ==
  /\ id \in DOMAIN shm
  /\ IF shm[id].count = 0
     THEN /\ shm' = Drop(shm, {id})
          /\ attached' = Restrict(attached, {k \in DOMAIN attached : attached[k] # id})
     ELSE shm' = [shm EXCEPT ![id].marked = TRUE] /\ attached' = attached
  /\ UNCHANGED <<msgVars, nextShmid, areas, mmapBase, alive, stale, program>>

(* The exit of a process drops its address space and runs                  *)
(* cleanup_shm_attachments_for_pid.                                        *)
ExitProcess_NoCleanup(p) ==
  /\ p \in alive /\ alive # {p}
  /\ alive' = alive \ {p}
  /\ areas' = [areas EXCEPT ![p] = {}]
  /\ UNCHANGED <<msgVars, shm, nextShmid, attached, mmapBase, stale, program>>
ExitProcess(p) ==
  /\ p \in alive /\ alive # {p}
  /\ alive' = alive \ {p}
  /\ areas' = [areas EXCEPT ![p] = {}]
  /\ Detach(AttachmentsOf(p))
  /\ UNCHANGED <<msgVars, nextShmid, mmapBase, program>>

(* fork into a free pid: the areas and mmap_base are copied, the           *)
(* attachments are not.                                                    *)
Fork(p, c) ==
  /\ p \in alive /\ c \notin alive
  /\ alive' = alive \cup {c}
  /\ areas' = [areas EXCEPT ![c] = areas[p]]
  /\ mmapBase' = [mmapBase EXCEPT ![c] = mmapBase[p]]
  /\ UNCHANGED <<msgVars, shm, nextShmid, attached, stale, program>>

(* exec (reset_memory_after_exec): a new address space, the same           *)
(* attachments.                                                            *)
Exec(p) ==
  /\ p \in alive
  /\ Cardinality(stale) < MaxStale
  /\ areas' = [areas EXCEPT ![p] = {}]
  /\ mmapBase' = [mmapBase EXCEPT ![p] = 0]
  /\ stale' = stale \cup {k \in DOMAIN attached : k[1] = p}
  /\ UNCHANGED <<msgVars, shm, nextShmid, attached, alive, program>>

(* mmap of one free page, and munmap of one page, which cuts an area.      *)
Mmap(p, page) ==
  /\ p \in alive
  /\ Overlapping(p, page, page + 1) = {}
  /\ \A q \in Pids : \A a \in areas[q] : a.seg # 0   \* bound: one such page
  /\ areas' = [areas EXCEPT ![p] = @ \cup {[lo |-> page, hi |-> page + 1, seg |-> 0, off |-> 0]}]
  /\ UNCHANGED <<msgVars, shm, nextShmid, attached, mmapBase, alive, stale, program>>

Munmap(p, page) ==
  /\ p \in alive
  /\ Cardinality(stale) < MaxStale
  /\ \E a \in Overlapping(p, page, page + 1) :
       areas' = [areas EXCEPT ![p] = (@ \ {a})
         \cup {b \in {[a EXCEPT !.hi = page], [a EXCEPT !.lo = page + 1, !.off = @ + page + 1 - a.lo]} :
                 b.lo < b.hi}]
  /\ stale' = stale \cup {k \in DOMAIN attached :
                            /\ k[1] = p /\ k[2] <= page
                            /\ page < k[2] + NPages(shm[attached[k]].size)}
  /\ UNCHANGED <<msgVars, shm, nextShmid, attached, mmapBase, alive, program>>

ShmNext ==
  \/ \E key \in program.keys, size \in 0 .. SHMMAX + 1 : SysShmget(key, size)
  \/ \E id \in Ids : ShmctlRmid(id)
  \/ \E p \in program.procs :
       \/ \E id \in Ids :
            \/ SysShmat(p, id, FALSE, 0)
            \/ \E page \in 0 .. program.pages - 1 : SysShmat(p, id, TRUE, page)
       \/ \E page \in 0 .. program.pages - 1 : SysShmdt(p, page) \/ Mmap(p, page) \/ Munmap(p, page)
       \/ ExitProcess(p) \/ Exec(p)
       \/ \E c \in program.procs : Fork(p, c)

SysvNext == \/ program.calls = "msg" /\ MsgNext
            \/ program.calls = "shm" /\ ShmNext

-----------------------------------------------------------------------------
\* The bytes of the queues, and the keys of queues and segments.
TotalsAndKeys ==
  /\ \A i \in DOMAIN msgq :
       /\ msgq[i].total = FoldLeft(LAMBDA n, m : n + m.size, 0, msgq[i].msgs)
       /\ msgq[i].total <= MSGMNB
  /\ \A i, j \in DOMAIN msgq : (i # j /\ msgq[i].key = msgq[j].key) => msgq[i].key = IPC_PRIVATE
  /\ \A key \in Keys : Cardinality(FindShm(key)) <= 1

Admissible(m, typ, except) ==
  typ = 0 \/ (typ > 0 /\ (m.type = typ) # except) \/ (typ < 0 /\ m.type <= -typ)

(* What msgrcv may take, whichever of its selectors it is given: type 0    *)
(* the oldest message, a positive type the oldest message of that type (or *)
(* not of it, with MSG_EXCEPT), a negative one the oldest message of the   *)
(* lowest type up to its absolute value.  The scan of receive keeps a      *)
(* running best; a wrong comparison reorders messages of one type.         *)
ReceivePicks ==
  \A id \in DOMAIN msgq : \A typ \in Types \cup {0} \cup {-t : t \in Types}, except \in BOOLEAN :
    LET q == msgq[id].msgs
        ok == {j \in DOMAIN q : Admissible(q[j], typ, except)}
        i == ReceivePos(q, typ, except)
    IN  IF ok = {} THEN i = 0
        ELSE /\ i \in ok
             /\ \A j \in ok : IF typ < 0 THEN \/ q[i].type < q[j].type
                                              \/ q[i].type = q[j].type /\ i <= j
                              ELSE i <= j

\* The attachments, the segments they name and the areas that map them.
AttachmentsExact ==
  /\ \A k \in DOMAIN attached : attached[k] \in DOMAIN shm /\ k[1] \in alive
  /\ \A i \in DOMAIN shm :
       /\ shm[i].count = Cardinality({k \in DOMAIN attached : attached[k] = i})
       /\ shm[i].marked => shm[i].count > 0
  /\ \A k \in DOMAIN attached \ stale :
       LET n == NPages(shm[attached[k]].size)
       IN  Overlapping(k[1], k[2], k[2] + n) =
             {[lo |-> k[2], hi |-> k[2] + n, seg |-> attached[k], off |-> 0]}

(* Every queue accounts for its bytes: total_bytes is the sum of the       *)
(* queued messages' sizes, so the subtraction in receive cannot underflow  *)
(* and a queue that has been emptied takes MSGMNB bytes again; and no two  *)
(* queues, and no two segments that shmget can find, have the same key.    *)
(* attach_count, which decides when a removed segment goes, is the number  *)
(* of attachments that name it; every attachment names a segment that      *)
(* exists and a process that exists ("stale (pid, addr) attachment records *)
(* ... false conflicts after pid reuse", ipc.rs:1279); and a segment       *)
(* marked for deletion goes with its last attachment.  An attachment is    *)
(* mapped: the process has exactly one area there, which covers the pages  *)
(* of the segment from its start, and no other area of the process reaches *)
(* into it; so shmdt of it takes this area and no other.  It is lost only  *)
(* with a munmap of these pages or an exec, which leave the attachment.    *)
TablesExact == TotalsAndKeys /\ AttachmentsExact
=============================================================================
