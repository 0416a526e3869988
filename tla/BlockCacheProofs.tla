-------------------------- MODULE BlockCacheProofs --------------------------
(***************************************************************************)
(* The cached device implements the abstract disk of module Disk, where    *)
(* one operation runs at a time or writes go through: a read returns what  *)
(* was last written, a write to the device persists what a read would      *)
(* return, and sync returns with nothing left to write.  Each action is    *)
(* shown to be a step of the disk or a stutter, from DiskInv.              *)
(***************************************************************************)
EXTENDS BlockCacheDisk

(* The time a prover has for a step, where the step does not say.          *)
USE SMTT(30)

-----------------------------------------------------------------------------
(* The cached device as a disk.  What each task has on its way to it.      *)
Going(t) == IF op[t].pc = "evict" THEN op[t].evicted ELSE {}

(* The evicted pages that have block b to write.                           *)
LEMMA OnTheWayIs ==
  ASSUME NEW b, NEW page
  PROVE  page \in OnTheWay(b) <=> \E t \in Tasks : page \in Going(t) /\ b \in page.dirty
BY ZenonT(30) DEF OnTheWay, Going

(* They stay the same while the operations' evicted pages do.              *)
LEMMA OnTheWaySame ==
  ASSUME \A t \in Tasks : Going(t)' = Going(t), NEW b
  PROVE  OnTheWay(b)' = OnTheWay(b)
BY DEF OnTheWay, Going

(* What is on its way when t is the only task at work, and what a read     *)
(* would return, with the page that is on its way named.                   *)
OneWay ==
  \A t \in Tasks : (\A u \in Tasks : u # t => Going(u) = {}) =>
    \A b \in Blocks : OnTheWay(b) = {page \in Going(t) : b \in page.dirty}
Cached(b) == PageOf(b) \in DOMAIN pages /\ b \in pages[PageOf(b)].loaded
Reads ==
  \A b \in Blocks :
    /\ Cached(b) => Content(b) = pages[PageOf(b)].data[b]
    /\ ~Cached(b) /\ OnTheWay(b) = {} => Content(b) = device[b]
    /\ \A page : ~Cached(b) /\ OnTheWay(b) = {page} => Content(b) = page.data[b]

(* One task at work, and only its evicted pages.                           *)
LEMMA OneWayIs == OneWay
BY OnTheWayIs DEF OneWay

(* The three places a read finds a block in: cache, evicted page, disk.    *)
LEMMA ReadsIs == Reads
BY ZenonT(30) DEF Reads, Content, Cached

(* One operation at a time: the others have nothing on its way.            *)
LEMMA OthersIdle ==
  ASSUME DiskInv, OneAtATime, NEW t \in Tasks, op[t].pc # "idle"
  PROVE  \A u \in Tasks : u # t => op[u].pc = "idle" /\ Going(u) = {}
<1>1. OneOperation
  BY ZenonT(30), OnlyOne DEF DiskInv
<1> QED
  BY ZenonT(30), <1>1 DEF OneOperation, Going

(* A step that changes neither what is cached of b nor what is on its way. *)
LEMMA ContentSame ==
  ASSUME UNCHANGED device, \A t \in Tasks : Going(t)' = Going(t), NEW b \in Blocks,
         Cached(b)' <=> Cached(b), Cached(b) => pages'[PageOf(b)].data[b] = pages[PageOf(b)].data[b]
  PROVE  Content(b)' = Content(b)
<1>1. PICK W : OnTheWay(b) = W /\ OnTheWay(b)' = W
  BY ZenonT(30), OnTheWaySame
<1> QED
  BY <1>1 DEF Content, Cached

Refines == D!Next \/ UNCHANGED D!vars

(* Steps that do not show.                                                 *)
LEMMA Stutters ==
  ASSUME \A b \in Blocks : Content(b)' = Content(b), UNCHANGED <<device, answer>>
  PROVE  Refines
BY ZenonT(30) DEF Refines, D!vars

(* A step that moves no contents and answers nobody is a stutter.          *)
LEMMA PlainStutters ==
  ASSUME UNCHANGED <<device, pages, answer>>, \A t \in Tasks : Going(t)' = Going(t)
  PROVE  Refines
<1>1. \A b \in Blocks : Content(b)' = Content(b)
  BY ZenonT(30), ContentSame DEF Cached
<1> QED
  BY ZenonT(30), <1>1, Stutters

(* The steps that are stutters for this reason.                            *)
LEMMA PlainSteps ==
  ASSUME DiskInv, NEW t \in Tasks, EvictWrite(t) \/ Load(t) \/ SyncWrite(t) \/ SyncNext(t) \/ Sync(t) \/ Spin(t)
  PROVE  Refines
<1>0. CacheInv /\ DOMAIN lock = DOMAIN pages
  BY ZenonT(30) DEF DiskInv, TransfersOK
<1>1. CASE EvictWrite(t) \/ SyncWrite(t) \/ Spin(t)
  BY ZenonT(30), <1>1, PlainStutters DEF EvictWrite, SyncWrite, Spin, Going, vars, cache
<1>2. CASE Load(t)
  <2>1. /\ op[t].evicted = {} /\ op'[t].evicted = {} /\ \A u \in Tasks : u # t => op'[u] = op[u]
        /\ UNCHANGED <<device, pages, answer>>
    BY <1>0, <1>2, LoadIs
  <2>2. \A u \in Tasks : Going(u)' = Going(u)
    BY ZenonT(30), <2>1 DEF Going
  <2> QED
    BY ZenonT(30), <2>1, <2>2, PlainStutters
<1>3. CASE SyncNext(t) \/ Sync(t)
  <2>1. /\ op[t].pc # "evict" /\ UNCHANGED <<device, pages, answer>>
        /\ op' = [op EXCEPT ![t] = [pc |-> "sync", holds |-> DOMAIN pages]]
           \/ op' = [op EXCEPT ![t] = [op[t] EXCEPT !.holds = @ \ {SyncPage(t)}]]
    BY <1>3 DEF SyncNext, Sync, Runs, Enters, Idle, cache
  <2>2. op'[t].pc # "evict" /\ \A u \in Tasks : u # t => op'[u] = op[u]
    BY <1>0, <2>1 DEF CacheInv, Idle, Accesses, Syncs
  <2> QED
    BY ZenonT(30), <2>1, <2>2, PlainStutters DEF Going
<1> QED
  BY ZenonT(30), <1>1, <1>2, <1>3

(* A block is loaded: it was as on the disk.                               *)
LEMMA LoadedRefines ==
  ASSUME DiskInv, OneAtATime, NEW t \in Tasks, Loaded(t)
  PROVE  Refines
<1>0. CacheInv /\ CleanOK /\ \A q \in DOMAIN pages : pages[q] \in PagesAt(q)
  BY ZenonT(30) DEF DiskInv, CacheInv, CacheOK, InStep
<1>1. PICK p, b : p = PageOf(op[t].block) /\ b = op[t].block
  BY ZenonT(30)
<1>2. /\ op[t].pc = "load" /\ op'[t].evicted = {} /\ \A u \in Tasks : u # t => op'[u] = op[u]
      /\ io[t].pc = "done" /\ io[t].block = b
      /\ DOMAIN pages' = DOMAIN pages /\ p \in DOMAIN pages /\ b \notin pages[p].loaded
      /\ \A q \in DOMAIN pages : q # p => pages'[q] = pages[q]
      /\ pages'[p].loaded = pages[p].loaded \cup {b} /\ pages'[p].data[b] = io[t].value
      /\ \A c \in BlocksOf(p) \ {b} : pages'[p].data[c] = pages[p].data[c]
      /\ UNCHANGED <<device, answer>>
  BY <1>1, LoadedDoes DEF Page
<1>3. \A u \in Tasks : Going(u)' = Going(u)
  BY ZenonT(30), <1>2 DEF Going
<1>4. pages[p].loaded \subseteq BlocksOf(p)
  BY ZenonT(30), <1>0, <1>2 DEF PagesAt
<1>5. ASSUME NEW c \in Blocks PROVE Content(c)' = Content(c)
  <2>1. CASE c # b
    <3>1. Cached(c)' <=> Cached(c)
      BY ZenonT(30), <1>2, <2>1 DEF Cached
    <3>2. Cached(c) => pages'[PageOf(c)].data[c] = pages[PageOf(c)].data[c]
      BY ZenonT(30), <1>2, <1>4, <2>1 DEF Cached
    <3> QED
      BY ZenonT(30), <1>2, <1>3, <3>1, <3>2, ContentSame
  <2>2. CASE c = b
    <3>1. ~Cached(b) /\ Cached(b)' /\ io[t].value = device[b]
      BY ZenonT(30), <1>0, <1>1, <1>2 DEF Cached, CleanOK
    <3>2. OnTheWay(b) = {}
      <4>1. \A u \in Tasks : Going(u) = {}
        BY ZenonT(30), <1>2, OthersIdle DEF Going
      <4> QED
        BY ZenonT(30), <4>1, OnTheWayIs
    <3>3. Content(b) = device[b]
      BY ZenonT(30), <2>2, <3>1, <3>2, ReadsIs DEF Reads
    <3>4. Reads'
      BY ReadsIs, PTL
    <3>5. Content(b)' = io[t].value
      BY ZenonT(30), <1>1, <1>2, <2>2, <3>1, <3>4 DEF Reads
    <3> QED
      BY ZenonT(30), <2>2, <3>1, <3>3, <3>5
  <2> QED
    BY ZenonT(30), <2>1, <2>2
<1> QED
  BY ZenonT(30), <1>2, <1>5, Stutters

(* A write changes what a read of the block returns.                       *)
LEMMA StoreRefines ==
  ASSUME DiskInv, NEW t \in Tasks, Store(t)
  PROVE  Refines
<1>0. CacheInv /\ \A q \in DOMAIN pages : pages[q] \in PagesAt(q)
  BY ZenonT(30) DEF DiskInv, CacheInv, CacheOK
<1>1. PICK p, b, v : p = PageOf(op[t].block) /\ b = op[t].block /\ v = Stored(t)
  BY ZenonT(30)
<1>2. /\ op[t].pc = "evict" /\ op[t].evicted = {} /\ b \in Blocks /\ v \in Contents /\ p \in DOMAIN pages
      /\ DOMAIN pages' = DOMAIN pages /\ \A u \in Tasks : u # t => op'[u] = op[u]
      /\ \A q \in DOMAIN pages : q # p => pages'[q] = pages[q]
      /\ pages'[p].loaded = pages[p].loaded \cup {b} /\ pages'[p].data[b] = v
      /\ \A c \in BlocksOf(p) \ {b} : pages'[p].data[c] = pages[p].data[c]
      /\ UNCHANGED <<device, answer>>
      /\ op'[t].pc = "through" \/ op'[t] = Idle
  BY ZenonT(30), <1>1, StoreDoes DEF Page
<1>3. \A u \in Tasks : Going(u)' = Going(u)
  <2>1. op'[t].pc # "evict"
    BY <1>2 DEF Idle
  <2> QED
    BY ZenonT(30), <1>2, <2>1 DEF Going
<1>4. pages[p].loaded \subseteq BlocksOf(p)
  BY ZenonT(30), <1>0, <1>2 DEF PagesAt
<1>5. ASSUME NEW c \in Blocks, c # b PROVE Content(c)' = Content(c)
  <2>1. Cached(c)' <=> Cached(c)
    BY ZenonT(30), <1>2, <1>5 DEF Cached
  <2>2. Cached(c) => pages'[PageOf(c)].data[c] = pages[PageOf(c)].data[c]
    BY ZenonT(30), <1>2, <1>4, <1>5 DEF Cached
  <2> QED
    BY ZenonT(30), <1>2, <1>3, <2>1, <2>2, ContentSame
<1>6. Content(b)' = v
  <2>1. Reads'
    BY ReadsIs, PTL
  <2>2. Cached(b)'
    BY ZenonT(30), <1>1, <1>2 DEF Cached
  <2> QED
    BY ZenonT(30), <1>1, <1>2, <2>1, <2>2 DEF Reads
<1>7. [c \in Blocks |-> Content(c)]' = [[c \in Blocks |-> Content(c)] EXCEPT ![b] = v]
  BY ZenonT(30), <1>2, <1>5, <1>6
<1> QED
  BY ZenonT(30), <1>2, <1>7 DEF Refines, D!Next, D!Write

(* A block has been written, and stays in its page.                        *)
LEMMA WrittenRefines ==
  ASSUME DiskInv, NEW t \in Tasks, WrittenThrough(t) \/ SyncWritten(t)
  PROVE  Refines
<1>0. CacheInv
  BY ZenonT(30) DEF DiskInv
<1>1. PICK p : /\ p \in DOMAIN pages /\ pages' = Clean(p, io[t].block) /\ UNCHANGED <<device, answer>>
               /\ \A u \in Tasks : Going(u)' = Going(u)
  <2>1. CASE WrittenThrough(t)
    <3>1. /\ op[t].pc = "through" /\ PageOf(op[t].block) \in DOMAIN pages
          /\ pages' = Clean(PageOf(op[t].block), io[t].block) /\ UNCHANGED <<device, answer>>
          /\ op'[t] = Idle /\ \A u \in Tasks : u # t => op'[u] = op[u]
      BY <2>1, WrittenThroughDoes
    <3>2. \A u \in Tasks : Going(u)' = Going(u)
      BY <3>1 DEF Going, Idle
    <3> QED
      BY ZenonT(30), <3>1, <3>2
  <2>2. CASE SyncWritten(t)
    <3>1. /\ SyncPage(t) \in DOMAIN pages /\ pages' = Clean(SyncPage(t), io[t].block)
          /\ UNCHANGED <<device, op, answer>>
      BY ZenonT(30), <2>2, SyncWrittenDoes
    <3>2. \A u \in Tasks : Going(u)' = Going(u)
      BY ZenonT(30), <3>1 DEF Going
    <3> QED
      BY ZenonT(30), <3>1, <3>2
  <2> QED
    BY ZenonT(30), <2>1, <2>2
<1>2. PICK b : b = io[t].block
  BY ZenonT(30)
<1>3. /\ DOMAIN pages' = DOMAIN pages /\ \A q \in DOMAIN pages : q # p => pages'[q] = pages[q]
      /\ pages'[p].data = pages[p].data /\ pages'[p].loaded = pages[p].loaded
  BY ZenonT(30), <1>0, <1>1, <1>2, CleanDoes
<1>4. \A c \in Blocks : (Cached(c)' <=> Cached(c)) /\ (Cached(c) => pages'[PageOf(c)].data[c] = pages[PageOf(c)].data[c])
  BY ZenonT(30), <1>3 DEF Cached
<1>5. \A c \in Blocks : Content(c)' = Content(c)
  BY ZenonT(30), <1>1, <1>4, ContentSame
<1> QED
  BY ZenonT(30), <1>1, <1>5, Stutters

(* A block of an evicted page is on the disk.                              *)
LEMMA EvictWrittenRefines ==
  ASSUME DiskInv, CacheInv', OneAtATime, NEW t \in Tasks, EvictWritten(t)
  PROVE  Refines
<1>0. CacheInv /\ CleanOK /\ TaskOK(t)
  BY ZenonT(30) DEF DiskInv, TransfersOK, InStep
<1>1. PICK b : b = io[t].block
  BY ZenonT(30)
<1>2. /\ op[t].pc = "evict" /\ op'[t].pc = "evict" /\ UNCHANGED <<device, pages, answer>> /\ Resumes(t)
      /\ \A u \in Tasks : u # t => op'[u] = op[u]
      /\ \A page : page \in op'[t].evicted <=>
           \E pg \in op[t].evicted : page = [pg EXCEPT !.dirty = pg.dirty \ {b}] /\ page.dirty # {}
  BY ZenonT(30), <1>0, <1>1, EvictWrittenIs
<1>3. io[t] # NoIo /\ io[t].pc = "done"
  BY ZenonT(30), <1>0, <1>2, ResumesIs
<1>4. PICK pg \in op[t].evicted : b \in pg.dirty /\ io[t].value = pg.data[b]
  BY ZenonT(30), <1>0, <1>1, <1>2, <1>3 DEF TaskOK, EvictOK
<1>5. op[t].evicted = {pg} /\ pg.data[b] = device[b]
  BY <1>0, <1>1, <1>2, <1>3, <1>4 DEF TaskOK, EvictOK, CleanOK
<1>6. \A c \in pg.dirty : PageOf(c) \notin DOMAIN pages
  BY ZenonT(30), <1>2, <1>4 DEF DiskInv, OneInOrder
<1>7. /\ Going(t) = {pg} /\ Going(t)' = op'[t].evicted
      /\ \A u \in Tasks : u # t => Going(u) = {} /\ Going(u)' = {}
  <2>1. \A u \in Tasks : u # t => op[u].pc = "idle" /\ Going(u) = {}
    BY ZenonT(30), <1>2, OthersIdle
  <2> QED
    BY ZenonT(30), <1>2, <1>5, <2>1 DEF Going
<1>8. OneWay /\ OneWay' /\ Reads /\ Reads'
  BY OneWayIs, ReadsIs, PTL
<1>9. \A c \in Blocks : OnTheWay(c) = IF c \in pg.dirty THEN {pg} ELSE {}
  BY <1>7, <1>8 DEF OneWay
<1>10. PICK page : page = [pg EXCEPT !.dirty = pg.dirty \ {b}]
  BY ZenonT(30)
<1>11. page.dirty = pg.dirty \ {b} /\ page.data = pg.data
  <2>1. pg \in Evictions
    BY ZenonT(30), <1>0, <1>2, PageIs DEF Accesses
  <2>2. PICK p : pg \in PagesAt(p)
    BY ZenonT(30), <2>1 DEF Evictions
  <2> QED
    BY ZenonT(30), <1>10, <2>2 DEF PagesAt
<1>12. op'[t].evicted = IF pg.dirty \ {b} # {} THEN {page} ELSE {}
  <2>1. \A x : x \in op'[t].evicted <=> x = page /\ x.dirty # {}
    BY ZenonT(30), <1>2, <1>5, <1>10
  <2> QED
    BY ZenonT(30), <1>11, <2>1
<1>13. \A c \in Blocks : OnTheWay(c)' = {x \in op'[t].evicted : c \in x.dirty}
  BY <1>7, <1>8 DEF OneWay
<1>14. \A c \in Blocks : OnTheWay(c)' = IF c \in pg.dirty \ {b} THEN {page} ELSE {}
  BY ZenonT(30), <1>11, <1>12, <1>13
<1>15. ASSUME NEW c \in Blocks PROVE Content(c)' = Content(c)
  <2>1. Cached(c)' <=> Cached(c)
    BY ZenonT(30), <1>2 DEF Cached
  <2>2. CASE Cached(c)
    BY ZenonT(30), <1>2, <1>8, <2>1, <2>2 DEF Reads
  <2>3. CASE ~Cached(c) /\ c \notin pg.dirty
    <3>1. OnTheWay(c) = {} /\ OnTheWay(c)' = {}
      BY ZenonT(30), <1>9, <1>14, <2>3
    <3> QED
      BY <1>2, <1>8, <2>1, <2>3, <3>1 DEF Reads
  <2>4. CASE ~Cached(c) /\ c \in pg.dirty /\ c # b
    <3>1. OnTheWay(c) = {pg} /\ OnTheWay(c)' = {page}
      BY ZenonT(30), <1>9, <1>14, <2>4
    <3> QED
      BY <1>2, <1>8, <1>11, <2>1, <2>4, <3>1 DEF Reads
  <2>5. CASE ~Cached(c) /\ c = b
    <3>1. OnTheWay(c) = {pg} /\ OnTheWay(c)' = {}
      BY ZenonT(30), <1>4, <1>9, <1>14, <2>5
    <3> QED
      BY <1>2, <1>5, <1>8, <2>1, <2>5, <3>1 DEF Reads
  <2> QED
    BY ZenonT(30), <2>2, <2>3, <2>4, <2>5
<1> QED
  BY ZenonT(30), <1>2, <1>15, Stutters

(* A transfer to the disk writes what a read returns.                      *)
LEMMA WritesContent ==
  ASSUME DiskInv, OneAtATime, NEW t \in Tasks, io[t] # NoIo, io[t].write, io[t].block \in Blocks
  PROVE  /\ Cached(io[t].block) \/ OnTheWay(io[t].block) # {}
         /\ Content(io[t].block) = io[t].value
<1>0. CacheInv /\ TaskOK(t) /\ op[t].pc # "idle"
  BY ZenonT(30) DEF DiskInv, TransfersOK, TaskOK
<1>1. CASE op[t].pc = "evict"
  <2>1. PICK pg \in op[t].evicted : io[t].block \in pg.dirty /\ io[t].value = pg.data[io[t].block]
    BY ZenonT(30), <1>0, <1>1 DEF TaskOK, EvictOK
  <2>2. op[t].evicted = {pg}
    BY ZenonT(30), <1>0, <1>1, <2>1 DEF TaskOK, EvictOK
  <2>3. PageOf(io[t].block) \notin DOMAIN pages
    BY ZenonT(30), <1>1, <2>1 DEF DiskInv, OneInOrder
  <2>4. Going(t) = {pg} /\ \A u \in Tasks : u # t => Going(u) = {}
    BY ZenonT(30), <1>0, <1>1, <2>2, OthersIdle DEF Going
  <2>5. OnTheWay(io[t].block) = {pg}
    BY ZenonT(30), <2>1, <2>4, OneWayIs DEF OneWay
  <2> QED
    BY ZenonT(30), <2>1, <2>3, <2>5, ReadsIs DEF Reads, Cached
<1>2. CASE op[t].pc # "evict"
  <2>1. /\ PageOf(io[t].block) \in DOMAIN pages /\ io[t].block \in pages[PageOf(io[t].block)].dirty
        /\ io[t].value = pages[PageOf(io[t].block)].data[io[t].block]
    BY ZenonT(30), <1>2, LocksBlock
  <2>2. pages[PageOf(io[t].block)] \in PagesAt(PageOf(io[t].block))
    BY ZenonT(30), <1>0, <2>1 DEF CacheInv, CacheOK
  <2>3. Cached(io[t].block)
    BY ZenonT(30), <2>1, <2>2 DEF Cached, PagesAt
  <2> QED
    BY ZenonT(30), <2>1, <2>3, ReadsIs DEF Reads
<1> QED
  BY ZenonT(30), <1>1, <1>2

(* A transfer: a write to the disk persists what a read would return.      *)
LEMMA TransferRefines ==
  ASSUME DiskInv, OneAtATime, NEW t \in Tasks, Transfer(t)
  PROVE  Refines
<1>0. CacheInv /\ device \in [Blocks -> Contents]
  BY ZenonT(30) DEF DiskInv, CacheInv
<1>1. /\ io[t] \in Transfers /\ io[t].pc = "busy"
      /\ device' = IF io[t].write THEN [device EXCEPT ![io[t].block] = io[t].value] ELSE device
      /\ UNCHANGED <<pages, op, answer>>
  BY ZenonT(30), <1>0, TransferIs
<1>2. io[t] # NoIo /\ io[t].block \in Blocks /\ \A u \in Tasks : Going(u)' = Going(u)
  BY <1>1 DEF Transfers, NoIo, Going
<1>3. CASE ~io[t].write
  BY ZenonT(30), <1>1, <1>2, <1>3, PlainStutters
<1>4. CASE io[t].write
  <2>1. PICK b : b = io[t].block
    BY ZenonT(30)
  <2>2. Cached(b) \/ OnTheWay(b) # {}
    BY ZenonT(30), <1>2, <1>4, <2>1, WritesContent
  <2>3. Content(b) = io[t].value
    BY ZenonT(30), <1>2, <1>4, <2>1, WritesContent
  <2>4. ASSUME NEW c \in Blocks PROVE Content(c)' = Content(c)
    <3>1. PICK W : OnTheWay(c) = W /\ OnTheWay(c)' = W
      BY ZenonT(30), <1>2, OnTheWaySame
    <3>2. c # b => device'[c] = device[c]
      BY ZenonT(30), <1>0, <1>1, <1>2, <2>1
    <3> QED
      BY <1>1, <2>2, <3>1, <3>2 DEF Content, Cached
  <2>5. [c \in Blocks |-> Content(c)]' = [c \in Blocks |-> Content(c)]
    BY ZenonT(30), <2>4
  <2>6. device' = [device EXCEPT ![b] = [c \in Blocks |-> Content(c)][b]]
    BY ZenonT(30), <1>1, <1>2, <1>4, <2>1, <2>3
  <2> QED
    BY ZenonT(30), <1>1, <1>2, <2>1, <2>5, <2>6 DEF Refines, D!Next, D!Persist
<1> QED
  BY ZenonT(30), <1>3, <1>4

(* A read returns what was written last.                                   *)
LEMMA ReadRefines ==
  ASSUME DiskInv, NEW t \in Tasks, ReadDone(t)
  PROVE  Refines
<1>0. CacheInv
  BY ZenonT(30) DEF DiskInv
<1>1. /\ op[t].pc = "evict" /\ op[t].evicted = {} /\ op[t].kind = "read" /\ ~Loads(t)
      /\ answer' = <<op[t].block, Page(t).data[op[t].block]>>
      /\ op' = [op EXCEPT ![t] = Idle] /\ UNCHANGED <<device, pages>>
  BY ZenonT(30) DEF ReadDone, ReadyFor, Runs, Leaves, cache
<1>2. PageOf(op[t].block) \in DOMAIN pages /\ op[t].block \in Blocks
  BY ZenonT(30), <1>0, <1>1, PageIs
<1>3. Cached(op[t].block)
  BY ZenonT(30), <1>1, <1>2 DEF Loads, MustLoad, Cached, Page
<1>4. Content(op[t].block) = Page(t).data[op[t].block]
  BY ZenonT(30), <1>2, <1>3, ReadsIs DEF Reads, Page
<1>5. \A u \in Tasks : Going(u)' = Going(u)
  <2>1. op'[t] = Idle /\ \A u \in Tasks : u # t => op'[u] = op[u]
    BY ZenonT(30), <1>0, <1>1 DEF CacheInv
  <2>2. op'[t].pc # "evict"
    BY <2>1 DEF Idle
  <2> QED
    BY <1>1, <2>1, <2>2 DEF Going
<1>6. \A b \in Blocks : Content(b)' = Content(b)
  BY ZenonT(30), <1>1, <1>5, ContentSame DEF Cached
<1>7. [c \in Blocks |-> Content(c)]' = [c \in Blocks |-> Content(c)]
  BY ZenonT(30), <1>6
<1>8. answer' = <<op[t].block, [c \in Blocks |-> Content(c)][op[t].block]>>
  BY ZenonT(30), <1>1, <1>2, <1>4
<1> QED
  BY ZenonT(30), <1>1, <1>2, <1>7, <1>8 DEF Refines, D!Next, D!Read

(* A sync returns when everything is on the disk.                          *)
LEMMA SyncRefines ==
  ASSUME DiskInv, OneAtATime, NEW t \in Tasks, SyncDone(t)
  PROVE  Refines
<1>0. CacheInv /\ CleanOK /\ device \in [Blocks -> Contents]
  BY ZenonT(30) DEF DiskInv, CacheInv, InStep
<1>1. /\ op[t].pc = "sync" /\ op[t].holds = {} /\ answer' = <<"synced">>
      /\ op' = [op EXCEPT ![t] = Idle] /\ UNCHANGED <<device, pages>>
  BY ZenonT(30) DEF SyncDone, Runs, Leaves, cache
<1>2. \A p \in DOMAIN pages : pages[p].dirty = {}
  BY ZenonT(30), <1>1 DEF DiskInv, OneInOrder
<1>3. \A u \in Tasks : Going(u) = {} /\ Going(u)' = {}
  <2>1. op'[t] = Idle /\ \A u \in Tasks : u # t => op'[u] = op[u]
    BY ZenonT(30), <1>0, <1>1 DEF CacheInv
  <2>2. \A u \in Tasks : op'[u].pc # "evict" /\ op[u].pc # "evict"
    BY <1>1, <2>1, OthersIdle DEF Idle
  <2> QED
    BY ZenonT(30), <2>2 DEF Going
<1>4. \A b \in Blocks : Content(b) = device[b]
  <2>1. \A b \in Blocks : OnTheWay(b) = {}
    BY ZenonT(30), <1>3, OnTheWayIs
  <2>2. \A b \in Blocks : Cached(b) => pages[PageOf(b)].data[b] = device[b]
    BY ZenonT(30), <1>0, <1>2 DEF Cached, CleanOK
  <2> QED
    BY ZenonT(30), <2>1, <2>2, ReadsIs DEF Reads
<1>5. \A b \in Blocks : Content(b)' = Content(b)
  BY ZenonT(30), <1>1, <1>3, ContentSame DEF Cached
<1>6. [c \in Blocks |-> Content(c)]' = [c \in Blocks |-> Content(c)]
  BY ZenonT(30), <1>5
<1>7. device = [c \in Blocks |-> Content(c)]
  BY ZenonT(30), <1>0, <1>4
<1> QED
  BY ZenonT(30), <1>1, <1>6, <1>7 DEF Refines, D!Next, D!Sync

(* An empty cache: everything is read from the disk.                       *)
LEMMA EmptyReads == EmptyCache => [c \in Blocks |-> Content(c)] = device
<1> SUFFICES ASSUME EmptyCache PROVE [c \in Blocks |-> Content(c)] = device
  BY ZenonT(30)
<1>1. \A u \in Tasks : Going(u) = {}
  BY ZenonT(30) DEF EmptyCache, Going, Idle
<1>2. \A b \in Blocks : OnTheWay(b) = {} /\ ~Cached(b)
  BY <1>1, OnTheWayIs DEF EmptyCache, Cached
<1>3. \A b \in Blocks : Content(b) = device[b]
  BY ZenonT(30), <1>2, ReadsIs DEF Reads
<1> QED
  BY ZenonT(30), <1>3 DEF EmptyCache

(* An access up to the eviction: what is evicted dirty is on its way, what *)
(* is evicted clean is on the disk.                                        *)
LEMMA AccessRefines ==
  ASSUME DiskInv, OneAtATime, NEW t \in Tasks, NEW kind, NEW b \in Blocks, NEW v, Access(t, kind, b, v)
  PROVE  Refines
<1> DEFINE o == [pc |-> "evict", kind |-> kind, block |-> b, value |-> v,
                 evicted |-> Evicted(PageOf(b)), holds |-> {PageOf(b)}]
<1>0. CacheInv /\ CleanOK /\ PageOf(b) \in PageNos /\ \A q \in DOMAIN pages : pages[q] \in PagesAt(q)
  BY ZenonT(30) DEF DiskInv, CacheInv, CacheOK, PageNos, InStep
<1>1. Enters(t) /\ GetPage(PageOf(b)) /\ op' = [op EXCEPT ![t] = o] /\ UNCHANGED <<device, answer>>
  BY ZenonT(30) DEF Access
<1>2. GotPage(PageOf(b))
  BY ZenonT(30), <1>0, <1>1, GetPageIs
<1> HIDE DEF o
<1>3. op'[t] = o /\ \A u \in Tasks : u # t => op'[u] = op[u]
  BY ZenonT(30), <1>0, <1>1 DEF CacheInv
<1>4. o.pc = "evict" /\ o.evicted = Evicted(PageOf(b))
  BY ZenonT(30) DEF o
<1>5. \A u \in Tasks : Going(u) = {} /\ op[u].pc = "idle"
  BY <1>0, <1>1, AllIdle DEF Going, Idle
<1>6. Going(t)' = Evicted(PageOf(b)) /\ \A u \in Tasks : u # t => Going(u)' = {}
  BY ZenonT(30), <1>3, <1>4, <1>5 DEF Going
<1>7. OneWay /\ OneWay' /\ Reads /\ Reads'
  BY OneWayIs, ReadsIs, PTL
<1>8. \A c \in Blocks : OnTheWay(c) = {}
  BY ZenonT(30), <1>5, OnTheWayIs
<1>9. \A c \in Blocks : OnTheWay(c)' = {page \in Evicted(PageOf(b)) : c \in page.dirty}
  BY ZenonT(30), <1>6, <1>7 DEF OneWay
<1>10. \A q \in DOMAIN pages : \A c : c \in pages[q].dirty => c \in pages[q].loaded /\ PageOf(c) = q
  BY ZenonT(30), <1>0 DEF PagesAt, BlocksOf
<1>11. ASSUME NEW c \in Blocks PROVE Content(c)' = Content(c)
  <2>1. PICK q : q = PageOf(c)
    BY ZenonT(30)
  <2>2. CASE q \in DOMAIN pages' /\ q \in DOMAIN pages
    <3>1. pages'[q].data = pages[q].data /\ pages'[q].loaded = pages[q].loaded
      BY ZenonT(30), <1>2, <2>2 DEF GotPage
    <3>2. OnTheWay(c)' = {}
      <4>1. ASSUME NEW page \in Evicted(PageOf(b)), c \in page.dirty PROVE FALSE
        <5>1. PICK r \in DOMAIN pages \ DOMAIN pages' : page = pages[r]
          BY <1>2, <4>1 DEF GotPage
        <5> QED
          BY ZenonT(30), <1>10, <2>1, <2>2, <4>1, <5>1
      <4> QED
        BY ZenonT(30), <1>9, <4>1
    <3>3. Cached(c)' <=> Cached(c)
      BY ZenonT(30), <2>1, <2>2, <3>1 DEF Cached
    <3> QED
      BY <1>1, <1>7, <1>8, <2>1, <3>1, <3>2, <3>3 DEF Reads
  <2>3. CASE q \notin DOMAIN pages
    <3>1. ~Cached(c)' /\ ~Cached(c)
      BY <1>2, <2>1, <2>3 DEF GotPage, NewEmpty, Cached
    <3>2. OnTheWay(c)' = {}
      <4>1. ASSUME NEW page \in Evicted(PageOf(b)), c \in page.dirty PROVE FALSE
        <5>1. PICK r \in DOMAIN pages \ DOMAIN pages' : page = pages[r]
          BY <1>2, <4>1 DEF GotPage
        <5> QED
          BY ZenonT(30), <1>10, <2>1, <2>3, <4>1, <5>1
      <4> QED
        BY <1>9, <4>1
    <3> QED
      BY ZenonT(30), <1>1, <1>7, <1>8, <3>1, <3>2 DEF Reads
  <2>4. CASE q \in DOMAIN pages /\ q \notin DOMAIN pages'
    <3>1. Evicted(PageOf(b)) = IF pages[q].dirty # {} THEN {pages[q]} ELSE {}
      BY ZenonT(30), <1>2, <2>4 DEF GotPage
    <3>2. OnTheWay(c)' = IF c \in pages[q].dirty THEN {pages[q]} ELSE {}
      BY ZenonT(30), <1>9, <3>1
    <3>3. ~Cached(c)'
      BY ZenonT(30), <2>1, <2>4 DEF Cached
    <3>4. CASE c \in pages[q].dirty
      <4>1. Content(c)' = pages[q].data[c]
        BY ZenonT(30), <1>7, <3>2, <3>3, <3>4 DEF Reads
      <4>2. Cached(c)
        BY ZenonT(30), <1>10, <2>1, <2>4, <3>4 DEF Cached
      <4> QED
        BY ZenonT(30), <1>7, <2>1, <4>1, <4>2 DEF Reads
    <3>5. CASE c \notin pages[q].dirty
      <4>1. Content(c)' = device[c]
        BY ZenonT(30), <1>1, <1>7, <3>2, <3>3, <3>5 DEF Reads
      <4>2. Cached(c) => pages[q].data[c] = device[c]
        BY ZenonT(30), <1>0, <2>1, <2>4, <3>5 DEF Cached, CleanOK
      <4> QED
        BY ZenonT(30), <1>7, <1>8, <2>1, <4>1, <4>2 DEF Reads
    <3> QED
      BY ZenonT(30), <3>4, <3>5
  <2> QED
    BY ZenonT(30), <2>2, <2>3, <2>4
<1> QED
  BY ZenonT(30), <1>1, <1>11, Stutters

(* Every step under one operation at a time is a step of the disk.         *)
LEMMA NextRefines ==
  ASSUME DiskInv, OneAtATime, Next
  PROVE  Refines
<1>0. CacheInv /\ CacheInv'
  BY ZenonT(30), CacheNext DEF DiskInv
<1>1. ASSUME NEW t \in Tasks, ReadBlock(t) \/ WriteBlock(t) PROVE Refines
  <2>1. uses.blocks \subseteq Blocks
    BY ZenonT(30), <1>0, BlockCacheAssumption DEF CacheInv
  <2>2. PICK kind, b, v : b \in uses.blocks /\ Access(t, kind, b, v)
    BY ZenonT(30), <1>1 DEF ReadBlock, WriteBlock
  <2> QED
    BY ZenonT(30), <2>1, <2>2, AccessRefines
<1>2. ASSUME NEW t \in Tasks, Step(t) PROVE Refines
  BY ZenonT(30), <1>0, <1>2, PlainSteps, TransferRefines, EvictWrittenRefines, LoadedRefines, ReadRefines, StoreRefines,
     WrittenRefines, SyncRefines DEF Step
<1>3. ASSUME NEW t \in Tasks, Sync(t) \/ Spin(t) PROVE Refines
  BY ZenonT(30), <1>3, PlainSteps
<1>4. ASSUME PowerFailure PROVE Refines
  <2>1. EmptyCache' /\ answer' = <<>> /\ device' = device
    BY ZenonT(30), <1>0, <1>4 DEF PowerFailure, CacheInv, EmptyCache
  <2>2. ([c \in Blocks |-> Content(c)] = device)'
    BY <2>1, EmptyReads, PTL
  <2>3. [c \in Blocks |-> Content(c)]' = device
    BY ZenonT(30), <2>1, <2>2
  <2> QED
    BY ZenonT(30), <2>1, <2>3 DEF Refines, D!Next, D!PowerFailure
<1> QED
  BY ZenonT(30), <1>1, <1>2, <1>3, <1>4 DEF Next

(* With write-through nothing is dirty when nobody is at work.             *)
LEMMA NothingDirty == DiskInv => NothingToLose
<1> SUFFICES ASSUME DiskInv, uses.through, \A t \in Tasks : op[t] = Idle, NEW b \in Blocks
             PROVE  Content(b) = device[b]
  BY ZenonT(30) DEF NothingToLose
<1>1. CleanOK /\ WritesThrough
  BY ZenonT(30) DEF DiskInv, InStep
<1>2. \A t \in Tasks : op[t].pc = "idle" /\ Going(t) = {}
  BY DEF Going, Idle
<1>3. OnTheWay(b) = {}
  BY ZenonT(30), <1>2, OnTheWayIs
<1>4. \A p \in DOMAIN pages : pages[p].dirty = {}
  BY ZenonT(30), <1>1, <1>2 DEF WritesThrough
<1>5. Cached(b) => pages[PageOf(b)].data[b] = device[b]
  BY ZenonT(30), <1>1, <1>4 DEF Cached, CleanOK
<1> QED
  BY ZenonT(30), <1>3, <1>5, ReadsIs DEF Reads

(* For every disk, page size, capacity and set of tasks: with one task at  *)
(* a time the cached device is a disk.  Reads return the last write        *)
(* whatever get_page evicted in between, sync returns when everything is   *)
(* on the disk, a power failure leaves each block as it was at some moment *)
(* since the last sync; and with BLOCK_CACHE_WRITE_THROUGH a write that    *)
(* has returned is on the disk, also with several tasks.                   *)
THEOREM CachedDeviceIsADisk == Spec => ActsAsDisk
<1>1. Init => (OneAtATime => D!Init)
  <2> SUFFICES ASSUME Init PROVE D!Init
    BY ZenonT(30)
  <2>1. CacheInv
    BY ZenonT(30), CacheInit
  <2>2. EmptyCache /\ device = [b \in Blocks |-> Zero] /\ answer = <<>>
    BY ZenonT(30), <2>1 DEF Init, EmptyCache, CacheInv
  <2>3. [c \in Blocks |-> Content(c)] = device
    BY ZenonT(30), <2>2, EmptyReads
  <2> QED
    BY ZenonT(30), <2>2, <2>3 DEF D!Init
<1>2. DiskInv /\ [Next]_vars => [OneAtATime => D!Next]_(D!vars)
  <2> SUFFICES ASSUME DiskInv, [Next]_vars, OneAtATime PROVE D!Next \/ UNCHANGED D!vars
    BY ZenonT(30)
  <2>1. CASE Next
    BY ZenonT(30), <2>1, NextRefines DEF Refines
  <2>2. CASE UNCHANGED vars
    <3>1. UNCHANGED <<device, pages, answer, op>>
      BY ZenonT(30), <2>2 DEF vars, cache
    <3> QED
      BY ZenonT(30), <3>1, PlainStutters DEF Refines, Going
  <2> QED
    BY ZenonT(30), <2>1, <2>2
<1>3. DiskInv /\ [Next]_vars => DiskInv'
  BY ZenonT(30), DiskNext
<1> QED
  BY <1>1, <1>2, <1>3, DiskInit, NothingDirty, PTL DEF Spec, ActsAsDisk

=============================================================================
