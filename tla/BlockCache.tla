----------------------------- MODULE BlockCache -----------------------------
(***************************************************************************)
(* The write-back cache between the file systems and the disk              *)
(* (drivers/block/cached_block_device.rs) over the virtio driver           *)
(* (drivers/block/virtio_blk.rs).  A page of the cache has several blocks, *)
(* each loaded and dirty on its own.  A driver that polls keeps the CPU    *)
(* during a transfer; one that waits for the interrupt (built with         *)
(* VIRTIO_BLK_NON_BLOCKING) gives it to other tasks.                       *)
(***************************************************************************)
EXTENDS Integers, FiniteSets, Sequences, Functions

CONSTANTS Blocks,           \* the blocks of the disk
          Tasks,            \* tasks that use the device
          Nobody,           \* no task
          BLOCKS_PER_PAGE,
          Repertoires       \* bounds: the device, the driver and the blocks used

(* A repertoire: tasks, the tasks that run; polling, the driver polls;     *)
(* through, BLOCK_CACHE_WRITE_THROUGH; blocks, those in use; capacity,     *)
(* CACHE_PAGE_CAPACITY; writes, of whole blocks ("full") or of parts       *)
(* ("part"), with their values; crashes, whether the power may fail.       *)

ASSUME BlockCacheAssumption ==
  /\ BLOCKS_PER_PAGE \in Nat \ {0} /\ Blocks \subseteq Nat /\ Nobody \notin Tasks
  /\ \A r \in Repertoires : /\ r.tasks \subseteq Tasks
                            /\ r.blocks \subseteq Blocks /\ r.capacity \in Nat \ {0}
                            /\ r.writes \subseteq {"full", "part"} \X {0, 1}

VARIABLES
  device,   \* what is on the disk
  pages,    \* CacheManager.pages
  queue,    \* CacheManager.queue, front first
  lock,     \* CachedPage.inner: who has locked each page of the cache
  op,       \* what each task is doing
  io,       \* the transfer each task waits for
  cpu,      \* the task that runs in the kernel, which is not preempted
  answer,   \* of the last read or sync
  uses      \* the repertoire of the behaviour

cache == <<pages, queue, lock>>
vars == <<device, cache, op, io, cpu, answer, uses>>

(* A block has two halves, so that a write of less than BLOCK_SIZE shows.  *)
Bytes == {0, 1}
Contents == Bytes \X Bytes
Zero == <<0, 0>>

PageOf(b) == b \div BLOCKS_PER_PAGE
Idle == [pc |-> "idle"]
NoIo == [pc |-> "none"]

Init ==
  /\ uses \in Repertoires
  /\ device = [b \in Blocks |-> Zero]
  /\ pages = <<>>
  /\ queue = <<>>
  /\ lock = <<>>
  /\ op = [t \in Tasks |-> Idle]
  /\ io = [t \in Tasks |-> NoIo]
  /\ cpu = Nobody
  /\ answer = <<>>

-----------------------------------------------------------------------------
(* A page with its blocks; new_empty has none loaded.                      *)
BlocksOf(p) == {b \in Blocks : PageOf(b) = p}
NewEmpty(p) == [data |-> [b \in BlocksOf(p) |-> Zero], loaded |-> {}, dirty |-> {}, accessed |-> TRUE]

(* Arc::strong_count > 1: a task works on the page, or syncs a snapshot    *)
(* that has it.                                                            *)
Held(p) == \E t \in Tasks : op[t].pc # "idle" /\ p \in op[t].holds

(* evict_if_needed.  The scan goes from the back of the queue, twice round *)
(* at most: a held page is passed over, an accessed one is passed over     *)
(* once, and what is passed over goes to the front.                        *)
Place(i) == IF i > Len(queue) THEN 2 * Len(queue) + 1 - i ELSE Len(queue) + 1 - i
Scanned(i) == queue[Place(i)]
Evictable(i) == ~Held(Scanned(i)) /\ (pages[Scanned(i)].accessed => i > Len(queue))
Stops == {i \in 1 .. 2 * Len(queue) : Evictable(i)}

Evicts == Cardinality(DOMAIN pages) >= uses.capacity /\ Stops # {}
Stop == CHOOSE i \in Stops : \A j \in Stops : i <= j

(* The pages and the queue after the scan, and the page it takes out.      *)
Victim == Scanned(Stop)
Passed == {Scanned(i) : i \in 1 .. Stop - 1}
PagesLeft == [p \in DOMAIN pages \ {Victim} |->
                IF p \in Passed /\ ~Held(p) THEN [pages[p] EXCEPT !.accessed = FALSE] ELSE pages[p]]
QueueLeft_Keeps == queue
QueueLeft == SubSeq(queue, Place(Stop) + 1, Len(queue)) \o SubSeq(queue, 1, Place(Stop) - 1)
LockLeft == [p \in DOMAIN pages \ {Victim} |-> lock[p]]

(* With nothing to evict: all accessed marks of pages that nobody holds    *)
(* would have ended the scan, so nothing changes.                          *)
With(f, p, x) == [q \in DOMAIN f \cup {p} |-> IF q = p THEN x ELSE f[q]]

(* CacheManager::get_page.                                                 *)
GetPage(p) ==
  IF p \in DOMAIN pages
  THEN /\ pages' = [pages EXCEPT ![p].accessed = TRUE]
       /\ UNCHANGED <<queue, lock>>
  ELSE /\ pages' = With(IF Evicts THEN PagesLeft ELSE pages, p, NewEmpty(p))
       /\ queue' = <<p>> \o (IF Evicts THEN QueueLeft ELSE queue)
       /\ lock' = With(IF Evicts THEN LockLeft ELSE lock, p, Nobody)

(* The dirty pages that get_page hands to sync_evicted_pages.              *)
Evicted_Dropped(p) == {}
Evicted(p) == IF p \notin DOMAIN pages /\ Evicts /\ pages[Victim].dirty # {} THEN {pages[Victim]} ELSE {}

-----------------------------------------------------------------------------
(* A task enters the kernel and keeps the CPU until it waits for the disk  *)
(* or is done.                                                             *)
Enters(t) == t \in uses.tasks /\ op[t] = Idle /\ cpu = Nobody /\ cpu' = t

(* read_block and write_block, up to the eviction.                         *)
Access(t, kind, b, v) ==
  /\ Enters(t)
  /\ GetPage(PageOf(b))
  /\ op' = [op EXCEPT ![t] = [pc |-> "evict", kind |-> kind, block |-> b, value |-> v,
                              evicted |-> Evicted(PageOf(b)), holds |-> {PageOf(b)}]]
  /\ UNCHANGED <<device, io, answer, uses>>

ReadBlock(t) == \E b \in uses.blocks : Access(t, "read", b, 0)
WriteBlock(t) == \E b \in uses.blocks, w \in uses.writes : Access(t, w[1], b, w[2])

(* CachedBlockDevice::sync takes a snapshot of the pages.                  *)
Sync(t) ==
  /\ Enters(t)
  /\ op' = [op EXCEPT ![t] = [pc |-> "sync", holds |-> DOMAIN pages]]
  /\ UNCHANGED <<device, cache, io, answer, uses>>

(* The driver: a transfer is asked for, takes place, and the task goes on. *)
Submit(t, write, b, v) ==
  /\ io' = [io EXCEPT ![t] = [pc |-> "busy", write |-> write, block |-> b, value |-> v]]
  /\ cpu' = IF uses.polling THEN t ELSE Nobody

Transfer(t) ==
  /\ io[t].pc = "busy"
  /\ device' = IF io[t].write THEN [device EXCEPT ![io[t].block] = io[t].value] ELSE device
  /\ io' = [io EXCEPT ![t] = [io[t] EXCEPT !.pc = "done",
                                          !.value = IF io[t].write THEN io[t].value ELSE device[io[t].block]]]
  /\ UNCHANGED <<cache, op, cpu, answer, uses>>

Resumes(t) == /\ io[t].pc = "done"
              /\ cpu \in {t, Nobody}
              /\ io' = [io EXCEPT ![t] = NoIo]
Runs(t, pc) == op[t].pc = pc /\ cpu = t /\ io[t] = NoIo
Leaves(t) == op' = [op EXCEPT ![t] = Idle] /\ cpu' = Nobody

Least(S) == CHOOSE x \in S : \A y \in S : x <= y

(* sync_evicted_pages: the dirty blocks of the evicted page, in turn.      *)
EvictWrite(t) ==
  /\ Runs(t, "evict")
  /\ \E page \in op[t].evicted : LET b == Least(page.dirty) IN Submit(t, TRUE, b, page.data[b])
  /\ UNCHANGED <<device, cache, op, answer, uses>>

EvictWritten(t) ==
  /\ op[t].pc = "evict"
  /\ Resumes(t) /\ cpu' = t
  /\ op' = [op EXCEPT ![t].evicted =
              {page \in {[pg EXCEPT !.dirty = @ \ {io[t].block}] : pg \in @} : page.dirty # {}}]
  /\ UNCHANGED <<device, cache, answer, uses>>

(* ensure_block_loaded, for a read or a write of part of the block.        *)
MustLoad(kind) == kind \in {"read", "part"}
ReadyFor(t) == Runs(t, "evict") /\ op[t].evicted = {}
Page(t) == pages[PageOf(op[t].block)]
Loads(t) == MustLoad(op[t].kind) /\ op[t].block \notin Page(t).loaded
Load(t) ==
  /\ ReadyFor(t)
  /\ lock[PageOf(op[t].block)] = Nobody
  /\ Loads(t)
  /\ Submit(t, FALSE, op[t].block, Zero)
  /\ lock' = [lock EXCEPT ![PageOf(op[t].block)] = t]
  /\ op' = [op EXCEPT ![t].pc = "load"]
  /\ UNCHANGED <<device, pages, queue, answer, uses>>

Loaded(t) ==
  /\ op[t].pc = "load"
  /\ Resumes(t) /\ cpu' = t
  /\ pages' = [pages EXCEPT ![PageOf(op[t].block)] =
                 [Page(t) EXCEPT !.data[op[t].block] = io[t].value, !.loaded = @ \cup {op[t].block}]]
  /\ lock' = [lock EXCEPT ![PageOf(op[t].block)] = Nobody]
  /\ op' = [op EXCEPT ![t].pc = "evict"]
  /\ UNCHANGED <<device, queue, answer, uses>>

(* CachedPage::read_block and write_block, once the block is loaded; with  *)
(* BLOCK_CACHE_WRITE_THROUGH a write also waits for the disk.              *)
ReadDone(t) ==
  /\ ReadyFor(t) /\ ~Loads(t) /\ op[t].kind = "read"
  /\ lock[PageOf(op[t].block)] = Nobody
  /\ answer' = <<op[t].block, Page(t).data[op[t].block]>>
  /\ Leaves(t)
  /\ UNCHANGED <<device, cache, io, uses>>

Stored(t) == <<op[t].value, IF op[t].kind = "full" THEN op[t].value ELSE Page(t).data[op[t].block][2]>>
ThroughValue(t) == Stored(t)
Store(t) ==
  /\ ReadyFor(t) /\ ~Loads(t) /\ op[t].kind # "read"
  /\ lock[PageOf(op[t].block)] = Nobody
  /\ pages' = [pages EXCEPT ![PageOf(op[t].block)] =
                 [Page(t) EXCEPT !.data[op[t].block] = Stored(t), !.loaded = @ \cup {op[t].block},
                                 !.dirty = @ \cup {op[t].block}]]
  /\ IF uses.through
     THEN /\ Submit(t, TRUE, op[t].block, ThroughValue(t))
          /\ lock' = [lock EXCEPT ![PageOf(op[t].block)] = t]
          /\ op' = [op EXCEPT ![t].pc = "through"]
     ELSE Leaves(t) /\ UNCHANGED <<lock, io>>
  /\ UNCHANGED <<device, queue, answer, uses>>

Clean_Never(p, b) == pages
Clean(p, b) == [pages EXCEPT ![p].dirty = @ \ {b}]

WrittenThrough(t) ==
  /\ op[t].pc = "through"
  /\ Resumes(t)
  /\ pages' = Clean(PageOf(op[t].block), op[t].block)
  /\ lock' = [lock EXCEPT ![PageOf(op[t].block)] = Nobody]
  /\ Leaves(t)
  /\ UNCHANGED <<device, queue, answer, uses>>

(* CachedPage::sync for the pages of the snapshot, in turn.                *)
SyncPage(t) == Least(op[t].holds)
SyncWrite(t) ==
  /\ Runs(t, "sync") /\ op[t].holds # {}
  /\ lock[SyncPage(t)] \in {t, Nobody}
  /\ pages[SyncPage(t)].dirty # {}
  /\ LET b == Least(pages[SyncPage(t)].dirty) IN Submit(t, TRUE, b, pages[SyncPage(t)].data[b])
  /\ lock' = [lock EXCEPT ![SyncPage(t)] = t]
  /\ UNCHANGED <<device, pages, queue, op, answer, uses>>

SyncWritten(t) ==
  /\ op[t].pc = "sync"
  /\ Resumes(t) /\ cpu' = t
  /\ pages' = Clean(SyncPage(t), io[t].block)
  /\ UNCHANGED <<device, queue, lock, op, answer, uses>>

SyncNext(t) ==
  /\ Runs(t, "sync") /\ op[t].holds # {}
  /\ lock[SyncPage(t)] \in {t, Nobody}
  /\ pages[SyncPage(t)].dirty = {}
  /\ lock' = [lock EXCEPT ![SyncPage(t)] = Nobody]
  /\ op' = [op EXCEPT ![t].holds = @ \ {SyncPage(t)}]
  /\ UNCHANGED <<device, pages, queue, io, cpu, answer, uses>>

SyncDone(t) ==
  /\ Runs(t, "sync") /\ op[t].holds = {}
  /\ answer' = <<"synced">>
  /\ Leaves(t)
  /\ UNCHANGED <<device, cache, io, uses>>

(* A page's lock is a spin lock: a task that finds it taken keeps the CPU. *)
Spin(t) ==
  /\ \/ ReadyFor(t) /\ lock[PageOf(op[t].block)] # Nobody
     \/ Runs(t, "sync") /\ op[t].holds # {} /\ lock[SyncPage(t)] \notin {t, Nobody}
  /\ UNCHANGED vars

PowerFailure ==
  /\ uses.crashes
  /\ pages' = <<>> /\ queue' = <<>> /\ lock' = <<>>
  /\ op' = [t \in Tasks |-> Idle]
  /\ io' = [t \in Tasks |-> NoIo]
  /\ cpu' = Nobody
  /\ answer' = <<>>
  /\ UNCHANGED <<device, uses>>

Step(t) ==
  \/ Transfer(t) \/ EvictWrite(t) \/ EvictWritten(t) \/ Load(t) \/ Loaded(t) \/ ReadDone(t) \/ Store(t)
  \/ WrittenThrough(t) \/ SyncWrite(t) \/ SyncWritten(t) \/ SyncNext(t) \/ SyncDone(t)

Next == \/ \E t \in Tasks : ReadBlock(t) \/ WriteBlock(t) \/ Sync(t) \/ Step(t) \/ Spin(t)
        \/ PowerFailure

Spec == Init /\ [][Next]_vars

(* The disk answers, and the kernel goes on with what it has begun.        *)
FairSpec == Spec /\ \A t \in Tasks : WF_vars(Step(t))

-----------------------------------------------------------------------------
(* Type invariant; a block that is dirty is loaded.                        *)
TypeOK ==
  /\ \A b \in Blocks : device[b] \in Contents
  /\ DOMAIN pages \subseteq {PageOf(b) : b \in Blocks}
  /\ \A p \in DOMAIN pages : pages[p].dirty \subseteq pages[p].loaded /\ pages[p].loaded \subseteq BlocksOf(p)
  /\ cpu \in Tasks \cup {Nobody}

(* Operations do not overlap.                                              *)
OneAtATime == uses.polling \/ \A t, u \in uses.tasks : t = u

(* Each page of the cache is once in the queue of the second-chance scan,  *)
(* so that it can be evicted, and nothing else is; a page that a task      *)
(* works on, and so may be locked, is never evicted under it; and the      *)
(* cache keeps to CACHE_PAGE_CAPACITY as long as one task at a time uses   *)
(* it.  (With a driver that waits, pages that others hold cannot go, and   *)
(* the cache stays larger for good.)                                       *)
QueueExact ==
  /\ TypeOK
  /\ Len(queue) = Cardinality(DOMAIN pages)
  /\ Range(queue) = DOMAIN pages
  /\ \A t \in Tasks : op[t].pc # "idle" => op[t].holds \subseteq DOMAIN pages
  /\ OneAtATime => Cardinality(DOMAIN pages) <= uses.capacity

(* What a read would return: a dirty block of an evicted page is still on  *)
(* its way to the disk.                                                    *)
OnTheWay(b) ==
  {page \in UNION {op[t].evicted : t \in {u \in Tasks : op[u].pc = "evict"}} : b \in page.dirty}
Content(b) ==
  IF PageOf(b) \in DOMAIN pages /\ b \in pages[PageOf(b)].loaded THEN pages[PageOf(b)].data[b]
  ELSE IF OnTheWay(b) # {} THEN (CHOOSE page \in OnTheWay(b) : TRUE).data[b]
  ELSE device[b]

D == INSTANCE Disk WITH content <- [b \in Blocks |-> Content(b)], durable <- device

(* BLOCK_CACHE_WRITE_THROUGH: once a write has returned it is on the disk, *)
(* however the tasks interleave.                                           *)
NothingToLose ==
  (uses.through /\ \A t \in Tasks : op[t] = Idle) => \A b \in Blocks : Content(b) = device[b]

(* With one task at a time the cached device is a disk: reads return the   *)
(* last write whatever was evicted, loaded or written in part in between,  *)
(* sync returns when everything is on the disk, and a power failure at any *)
(* point leaves each block as it was at some moment since the last sync.   *)
(* With write-through a write that has returned has nothing left to lose,  *)
(* also with two tasks.                                                    *)
ActsAsDisk == (OneAtATime => D!Init) /\ [][OneAtATime => D!Next]_(D!vars) /\ []NothingToLose

(* Reads, writes and syncs end.                                            *)
OperationsEnd == \A t \in Tasks : OneAtATime => (op[t] # Idle ~> op[t] = Idle)
=============================================================================
