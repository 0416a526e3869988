---------------------------- MODULE Descriptors ----------------------------
(* The descriptor tables of processes (os/src/task/process.rs), the two      *)
(* tables beside them that are keyed by pid and descriptor, FD_FLAGS and     *)
(* FLOCK_LOCKS (os/src/syscall/fs.rs), and the memory files of               *)
(* os/src/fs/memfd.rs.  A pid is used once here.                             *)
EXTENDS Naturals, FiniteSets

CONSTANTS Pids,      \* bound: processes, 1 is there from the start
          MaxFd,     \* bound: the largest RLIMIT_NOFILE
          Objects,   \* bound: open files
          Named,     \* bound: paths of named files
          MaxLen,    \* bound: length of a memory file
          FdUses     \* what programs do: the calls made, the pids, RLIMIT_NOFILE

ASSUME DescriptorsAssumption ==
  /\ Pids \subseteq Nat \ {0} /\ 1 \in Pids /\ MaxFd \in Nat /\ 0 \notin Objects /\ MaxLen \in Nat
  /\ \A u \in FdUses : u.pids \subseteq Pids

VARIABLES table,   \* per process: descriptor -> open file, 0 for none
          alive,   \* pids in use
          born,    \* history: pids used so far
          object,  \* open files: "none", a named file or a memory file
          fdFlags, \* FD_FLAGS: the pairs marked close-on-exec
          locks,   \* FLOCK_LOCKS: path -> owner
          fdUse    \* the use made in this behaviour

fdVars == <<table, alive, born, object, fdFlags, locks, fdUse>>

Fds == 0..MaxFd - 1
Unused == [kind |-> "none", path |-> "", size |-> 0, off |-> 0, seals |-> {}, sealable |-> FALSE]
Nobody == <<0, 0>>
FileOf(p, d) == object[table[p][d]]
InUse(t) == {t[p][d] : p \in Pids, d \in Fds}
(* Dropping the last reference ends an open file.                            *)
Kept(t, os) == [o \in Objects |-> IF o \in InUse(t) THEN os[o] ELSE Unused]
FreeObject == CHOOSE o \in Objects : object[o] = Unused
CanOpen == \E o \in Objects : object[o] = Unused

(* alloc_fd: the lowest free descriptor from `from` up, below the limit.     *)
Free(p, from) == {d \in Fds : from <= d /\ d < fdUse.limit /\ table[p][d] = 0}
Lowest(ds) == CHOOSE d \in ds : \A e \in ds : d <= e

(* fd_flags_set and fd_flags_remove on a set of descriptors of p.            *)
Flagged(p, ds, on) == IF on THEN fdFlags \cup ({p} \X ds) ELSE fdFlags \ ({p} \X ds)
(* flock_unlock_owner.                                                       *)
Unlocked(p, ds) == [n \in Named |-> IF locks[n] \in {p} \X ds THEN Nobody ELSE locks[n]]

DescriptorsInit ==
  /\ table = [p \in Pids |-> [d \in Fds |-> 0]]
  /\ alive = {1} /\ born = {1}
  /\ object = [o \in Objects |-> Unused]
  /\ fdFlags = {}
  /\ locks = [n \in Named |-> Nobody]
  /\ fdUse \in FdUses

(* install_file of a new open file, by sys_openat, which drops O_CLOEXEC,    *)
(* and sys_memfd_create, which sets the flag but does not clear it.          *)
Install(p, node, cloexec) ==
  /\ CanOpen /\ Free(p, 0) # {}
  /\ LET d == Lowest(Free(p, 0)) IN
     /\ table' = [table EXCEPT ![p][d] = FreeObject]
     /\ object' = [object EXCEPT ![FreeObject] = node]
     /\ fdFlags' = IF cloexec THEN Flagged(p, {d}, TRUE) ELSE fdFlags
  /\ UNCHANGED <<alive, born, locks>>
OpenNamed(p, n) == Install(p, [Unused EXCEPT !.kind = "vfs", !.path = n], FALSE)
MemfdCreate(p, sealable, cloexec) ==
  Install(p, [Unused EXCEPT !.kind = "memfd", !.sealable = sealable,
                            !.seals = IF sealable THEN {} ELSE {"seal"}], cloexec)

(* sys_pipe2: with room for one descriptor only, the first is given back.    *)
Pipe2(p, cloexec) ==
  LET d == Lowest(Free(p, 0))
      e == Lowest(Free(p, d + 1))
      a == FreeObject
      b == CHOOSE o \in Objects \ {a} : object[o] = Unused
      end == [Unused EXCEPT !.kind = "pipe"]
  IN
  /\ Cardinality(Free(p, 0)) >= 2
  /\ Cardinality({o \in Objects : object[o] = Unused}) >= 2
  /\ table' = [table EXCEPT ![p][d] = a, ![p][e] = b]
  /\ object' = [object EXCEPT ![a] = end, ![b] = end]
  /\ fdFlags' = Flagged(p, {d, e}, cloexec)
  /\ UNCHANGED <<alive, born, locks>>

(* F_DUPFD and F_DUPFD_CLOEXEC of sys_fcntl, and sys_dup.                    *)
FcntlDupfd(p, d, from, cloexec) ==
  /\ table[p][d] # 0 /\ Free(p, from) # {}
  /\ LET e == Lowest(Free(p, from)) IN
     /\ table' = [table EXCEPT ![p][e] = table[p][d]]
     /\ fdFlags' = Flagged(p, {e}, cloexec)
  /\ UNCHANGED <<alive, born, object, locks>>
Dup(p, d) == FcntlDupfd(p, d, 0, FALSE)

(* sys_dup3: what newfd was is dropped, with its locks left as they are.     *)
Dup3(p, d, e, cloexec) ==
  /\ d # e /\ e < fdUse.limit /\ table[p][d] # 0
  /\ table' = [table EXCEPT ![p][e] = table[p][d]]
  /\ object' = Kept(table', object)
  /\ fdFlags' = Flagged(p, {e}, cloexec)
  /\ UNCHANGED <<alive, born, locks>>

(* sys_close and sys_close_range.                                            *)
AfterClose_LocksKept(p, ds) == locks
AfterClose(p, ds) == Unlocked(p, ds)
CloseRange(p, first, last) ==
  LET ds == {d \in first..last : table[p][d] # 0} IN
  /\ ds # {}
  /\ table' = [table EXCEPT ![p] = [d \in Fds |-> IF d \in ds THEN 0 ELSE @[d]]]
  /\ object' = Kept(table', object)
  /\ fdFlags' = Flagged(p, ds, FALSE)
  /\ locks' = AfterClose(p, ds)
  /\ UNCHANGED <<alive, born>>
CloseRangeCloexec(p, first, last) ==
  /\ fdFlags' = Flagged(p, {d \in first..last : table[p][d] # 0}, TRUE)
  /\ UNCHANGED <<table, alive, born, object, locks>>

(* F_SETFD.                                                                  *)
SetFd(p, d, cloexec) ==
  /\ table[p][d] # 0
  /\ fdFlags' = Flagged(p, {d}, cloexec)
  /\ UNCHANGED <<table, alive, born, object, locks>>

(* sys_flock: a lock belongs to a pid and descriptor, held on a path; shared *)
(* and exclusive are the same, and nobody waits.                             *)
Flock(p, d) ==
  LET n == FileOf(p, d).path IN
  /\ table[p][d] # 0 /\ FileOf(p, d).kind = "vfs" /\ locks[n] = Nobody
  /\ locks' = [locks EXCEPT ![n] = <<p, d>>]
  /\ UNCHANGED <<table, alive, born, object, fdFlags>>
Funlock(p, d) ==
  LET n == FileOf(p, d).path IN
  /\ table[p][d] # 0 /\ FileOf(p, d).kind = "vfs" /\ locks[n] = <<p, d>>
  /\ locks' = [locks EXCEPT ![n] = Nobody]
  /\ UNCHANGED <<table, alive, born, object, fdFlags>>

(* Memory files: write_data_at, read, truncate_to (the default of            *)
(* os/src/fs/vfs/core.rs, which empties a file it should shorten), add_seals.*)
Change(o, node) == object' = [object EXCEPT ![o] = node] /\ UNCHANGED <<table, alive, born, fdFlags, locks>>
WriteAtEnd(m, end) == IF "write" \in m.seals \/ end <= m.size THEN m ELSE [m EXCEPT !.size = end]
MemWrite(p, d) ==
  LET m == FileOf(p, d) IN
  /\ table[p][d] # 0 /\ m.kind = "memfd" /\ m.off < MaxLen /\ "write" \notin m.seals
  /\ Change(table[p][d], [WriteAtEnd(m, m.off + 1) EXCEPT !.off = @ + 1])
MemSeek(p, d, off) ==
  LET m == FileOf(p, d) IN
  /\ table[p][d] # 0 /\ m.kind = "memfd"
  /\ Change(table[p][d], [m EXCEPT !.off = off])
MemTruncate(p, d, size) ==
  LET m == FileOf(p, d) IN
  /\ table[p][d] # 0 /\ m.kind = "memfd" /\ size # m.size
  /\ Change(table[p][d], IF size > m.size THEN WriteAtEnd(m, size) ELSE [m EXCEPT !.size = 0])
AddSeals(p, d, seals) ==
  LET m == FileOf(p, d) IN
  /\ table[p][d] # 0 /\ m.kind = "memfd" /\ m.sealable /\ "seal" \notin m.seals
  /\ Change(table[p][d], [m EXCEPT !.seals = @ \cup seals])

(* fork copies the table and nothing else; exit clears the table and nothing *)
(* else.                                                                     *)
ForkTable(p, q) ==
  /\ q \notin born
  /\ table' = [table EXCEPT ![q] = table[p]]
  /\ alive' = alive \cup {q} /\ born' = born \cup {q}
  /\ UNCHANGED <<object, fdFlags, locks>>
ExitTable(p) ==
  /\ p # 1
  /\ table' = [table EXCEPT ![p] = [d \in Fds |-> 0]]
  /\ object' = Kept(table', object)
  /\ alive' = alive \ {p}
  /\ UNCHANGED <<born, fdFlags, locks>>

Does(call) == call \in fdUse.calls
DescriptorsStep(p) ==
  \/ Does("open") /\ \E n \in Named : OpenNamed(p, n)
  \/ Does("memfd") /\ \E a, b \in BOOLEAN : MemfdCreate(p, a, b)
  \/ Does("pipe") /\ \E c \in BOOLEAN : Pipe2(p, c)
  \/ \E d \in Fds :
       \/ Does("flock") /\ (Flock(p, d) \/ Funlock(p, d))
       \/ Does("setfd") /\ \E c \in BOOLEAN : SetFd(p, d, c)
       \/ Does("close") /\ \E e \in Fds : CloseRange(p, d, e)
       \/ Does("setfd") /\ \E e \in Fds : CloseRangeCloexec(p, d, e)
       \/ Does("dup") /\ (Dup(p, d) \/ \E e \in Fds, c \in BOOLEAN : FcntlDupfd(p, d, e, c))
       \/ Does("dup3") /\ \E e \in Fds, c \in BOOLEAN : Dup3(p, d, e, c)
       \/ Does("memfd") /\ \/ MemWrite(p, d)
                           \/ \E n \in 0..MaxLen : MemSeek(p, d, n) \/ MemTruncate(p, d, n)
                           \/ \E s \in {{"write"}, {"seal"}} : AddSeals(p, d, s)
  \/ \E q \in fdUse.pids : ForkTable(p, q)
  \/ ExitTable(p)
DescriptorsNext == (\E p \in alive : DescriptorsStep(p)) /\ UNCHANGED fdUse
DescriptorsSpec == DescriptorsInit /\ [][DescriptorsNext]_fdVars

(* The two tables beside the descriptor tables follow them: a close-on-exec  *)
(* mark or a lock of a live process is one of a descriptor it has open, so   *)
(* that the next file on that descriptor starts with neither; and a file     *)
(* sealed against writing is never written again, whoever shares it.         *)
TablesFollow ==
  [][/\ \A p \in alive', d \in Fds :
          (<<p, d>> \in fdFlags' \/ \E n \in Named : locks'[n] = <<p, d>>) => table'[p][d] # 0
     /\ \A o \in Objects :
          "write" \in object[o].seals /\ object'[o] # Unused => object'[o].size \in {0, object[o].size}]_fdVars
=============================================================================
