--------------------------- MODULE BlockCacheDisk ---------------------------
(***************************************************************************)
(* What the blocks in the cache have to do with those of the disk, for     *)
(* every capacity, page size and set of tasks.  DiskInv, which extends     *)
(* CacheInv, says it: which lock and which transfer each step of an        *)
(* operation goes with, that blocks that are not dirty are as on the disk, *)
(* that with write-through every dirty block has a writer, and that one    *)
(* operation at a time writes what it evicted before it loads.             *)
(***************************************************************************)
EXTENDS BlockCacheInvariant

(* The time a prover has for a step, where the step does not say.          *)
USE SMTT(30)

-----------------------------------------------------------------------------
(* The second inductive invariant, of what is where.  A transfer belongs   *)
(* to an operation.                                                        *)
LoadOK(t) ==
  /\ lock[PageOf(op[t].block)] = t
  /\ io[t] # NoIo /\ ~io[t].write /\ io[t].block = op[t].block
  /\ op[t].evicted = {} /\ op[t].block \notin Page(t).loaded
ThroughOK(t) ==
  /\ lock[PageOf(op[t].block)] = t
  /\ io[t] # NoIo /\ io[t].write /\ io[t].block = op[t].block
  /\ op[t].block \in Page(t).dirty /\ io[t].value = Page(t).data[op[t].block]
SyncOK(t) ==
  io[t] # NoIo =>
    /\ op[t].holds # {}
    /\ lock[SyncPage(t)] = t /\ io[t].write
    /\ io[t].block \in pages[SyncPage(t)].dirty /\ io[t].value = pages[SyncPage(t)].data[io[t].block]
EvictOK(t) ==
  /\ \A p, q \in op[t].evicted : p = q
  /\ io[t] # NoIo =>
       io[t].write /\ \E p \in op[t].evicted : io[t].block \in p.dirty /\ io[t].value = p.data[io[t].block]

TaskOK(t) ==
  /\ op[t].pc = "idle" => io[t] = NoIo
  /\ op[t].pc = "load" => LoadOK(t)
  /\ op[t].pc = "through" => ThroughOK(t)
  /\ op[t].pc = "sync" => SyncOK(t)
  /\ op[t].pc = "evict" => EvictOK(t)
TransfersOK == DOMAIN lock = DOMAIN pages /\ \A t \in Tasks : TaskOK(t)

(* A clean block is as on the disk, and so is what a transfer that is done *)
(* has moved.                                                              *)
CleanOK ==
  /\ \A p \in DOMAIN pages : \A b \in pages[p].loaded \ pages[p].dirty : pages[p].data[b] = device[b]
  /\ \A t \in Tasks : io[t].pc = "done" => io[t].value = device[io[t].block]

(* With write-through, a dirty block is being written.                     *)
WritesThrough ==
  /\ \A p \in DOMAIN pages : \A b \in pages[p].dirty : \E t \in Tasks : op[t].pc = "through" /\ op[t].block = b
  /\ \A t \in Tasks : op[t].pc = "evict" => op[t].evicted = {}

(* One at a time, an evicted page is not in the cache, and a sync leaves   *)
(* clean pages behind.                                                     *)
OneInOrder ==
  \A t \in Tasks :
    /\ op[t].pc = "evict" => \A pg \in op[t].evicted : \A b \in pg.dirty : PageOf(b) \notin DOMAIN pages
    /\ op[t].pc = "sync" => \A p \in DOMAIN pages \ op[t].holds : pages[p].dirty = {}

InStep == OneAtATime \/ uses.through

DiskInv ==
  /\ CacheInv
  /\ TransfersOK
  /\ InStep => CleanOK
  /\ uses.through => WritesThrough
  /\ OneAtATime => OneInOrder

(* The pages that a task has locked stay as they are while others run.     *)
Untouched(u) ==
  \A q \in op[u].holds : lock[q] = u =>
    /\ lock'[q] = u
    /\ pages'[q].data = pages[q].data /\ pages'[q].loaded = pages[q].loaded /\ pages'[q].dirty = pages[q].dirty

OneOperation == \A t, u \in Tasks : op[t].pc # "idle" /\ op[u].pc # "idle" => t = u

(* One operation at a time.                                                *)
LEMMA OnlyOne == CacheInv /\ OneAtATime => OneOperation
<1> SUFFICES ASSUME CacheInv, OneAtATime, NEW t \in Tasks, NEW u \in Tasks, op[t].pc # "idle", op[u].pc # "idle"
             PROVE  t = u
  BY ZenonT(30) DEF OneOperation
<1>1. t \in uses.tasks /\ u \in uses.tasks /\ (uses.polling => cpu = t /\ cpu = u)
  BY ZenonT(30) DEF CacheInv
<1> QED
  BY ZenonT(30), <1>1 DEF OneAtATime

(* What get_page does to the cache: the pages that stay keep their blocks, *)
(* a new one has none, and one that goes is held by nobody and handed out  *)
(* if it is dirty.                                                         *)
GotPage(p) ==
  /\ DOMAIN lock' = DOMAIN pages'
  /\ \A q \in DOMAIN pages' : q \in DOMAIN pages \/ (q = p /\ pages'[q] = NewEmpty(p))
  /\ \A q \in DOMAIN pages' \cap DOMAIN pages :
       /\ lock'[q] = lock[q]
       /\ pages'[q].data = pages[q].data /\ pages'[q].loaded = pages[q].loaded /\ pages'[q].dirty = pages[q].dirty
  /\ \A q \in DOMAIN pages \ DOMAIN pages' :
       ~Held(q) /\ q # p /\ Evicted(p) = IF pages[q].dirty # {} THEN {pages[q]} ELSE {}
  /\ Evicted(p) # {} => \E q \in DOMAIN pages \ DOMAIN pages' : pages[q].dirty # {} /\ Evicted(p) = {pages[q]}

(* What get_page does to pages and locks.                                  *)
LEMMA GetPageIs ==
  ASSUME DiskInv, NEW p \in PageNos, GetPage(p)
  PROVE  GotPage(p)
<1>0. CacheInv /\ DOMAIN lock = DOMAIN pages /\ \A q \in DOMAIN pages : pages[q] \in PagesAt(q)
  BY ZenonT(30) DEF DiskInv, TransfersOK, CacheInv, CacheOK
<1>1. CASE p \in DOMAIN pages
  <2>1. pages' = [pages EXCEPT ![p].accessed = TRUE] /\ lock' = lock /\ Evicted(p) = {}
    BY ZenonT(30), <1>1 DEF GetPage, Evicted
  <2>2. DOMAIN pages' = DOMAIN pages
    BY ZenonT(30), <2>1
  <2>3. \A q \in DOMAIN pages : /\ pages'[q].data = pages[q].data /\ pages'[q].loaded = pages[q].loaded
                                /\ pages'[q].dirty = pages[q].dirty
    BY ZenonT(30), <1>0, <2>1 DEF PagesAt
  <2> QED
    BY ZenonT(30), <1>0, <2>1, <2>2, <2>3 DEF GotPage
<1>2. CASE p \notin DOMAIN pages /\ ~Evicts
  <2>1. pages' = With(pages, p, NewEmpty(p)) /\ lock' = With(lock, p, Nobody) /\ Evicted(p) = {}
    BY ZenonT(30), <1>2 DEF GetPage, Evicted
  <2>2. /\ DOMAIN pages' = DOMAIN pages \cup {p} /\ DOMAIN lock' = DOMAIN pages \cup {p} /\ pages'[p] = NewEmpty(p)
        /\ \A q \in DOMAIN pages : pages'[q] = pages[q] /\ lock'[q] = lock[q]
    BY ZenonT(30), <1>0, <1>2, <2>1 DEF With
  <2> QED
    BY ZenonT(30), <2>1, <2>2 DEF GotPage
<1>3. CASE p \notin DOMAIN pages /\ Evicts
  <2>1. /\ pages' = With(PagesLeft, p, NewEmpty(p)) /\ lock' = With(LockLeft, p, Nobody)
        /\ Evicted(p) = IF pages[Victim].dirty # {} THEN {pages[Victim]} ELSE {}
    BY ZenonT(30), <1>3 DEF GetPage, Evicted
  <2>2. Victim \in DOMAIN pages /\ ~Held(Victim)
    BY ZenonT(30), <1>0, <1>3, EvictionIs
  <2>3. PICK ps, ls : ps = PagesLeft /\ ls = LockLeft
    BY ZenonT(30)
  <2>4. /\ DOMAIN ps = DOMAIN pages \ {Victim} /\ DOMAIN ls = DOMAIN pages \ {Victim}
        /\ \A q \in DOMAIN pages \ {Victim} : ls[q] = lock[q]
    BY ZenonT(30), <2>3 DEF PagesLeft, LockLeft
  <2>5. ASSUME NEW q \in DOMAIN pages \ {Victim}
        PROVE  ps[q].data = pages[q].data /\ ps[q].loaded = pages[q].loaded /\ ps[q].dirty = pages[q].dirty
    <3>1. ps[q] \in {pages[q], [pages[q] EXCEPT !.accessed = FALSE]}
      BY ZenonT(30), <2>3 DEF PagesLeft
    <3>2. pages[q] \in PagesAt(q)
      BY ZenonT(30), <1>0
    <3> QED
      BY ZenonT(30), <3>1, <3>2 DEF PagesAt
  <2>6. /\ DOMAIN pages' = (DOMAIN pages \ {Victim}) \cup {p} /\ DOMAIN lock' = DOMAIN pages'
        /\ pages'[p] = NewEmpty(p)
        /\ \A q \in DOMAIN pages \ {Victim} : pages'[q] = ps[q] /\ lock'[q] = ls[q]
    BY ZenonT(30), <1>3, <2>1, <2>3, <2>4 DEF With
  <2>7. \A q : q \in DOMAIN pages \ DOMAIN pages' <=> q = Victim
    BY ZenonT(30), <1>3, <2>2, <2>6
  <2>8. \A q \in DOMAIN pages' \cap DOMAIN pages :
       /\ lock'[q] = lock[q]
       /\ pages'[q].data = pages[q].data /\ pages'[q].loaded = pages[q].loaded /\ pages'[q].dirty = pages[q].dirty
    BY ZenonT(30), <1>3, <2>4, <2>5, <2>6
  <2>9. /\ \A q \in DOMAIN pages \ DOMAIN pages' :
             ~Held(q) /\ q # p /\ Evicted(p) = IF pages[q].dirty # {} THEN {pages[q]} ELSE {}
        /\ Evicted(p) # {} => \E q \in DOMAIN pages \ DOMAIN pages' : pages[q].dirty # {} /\ Evicted(p) = {pages[q]}
    BY <1>3, <2>1, <2>2, <2>7
  <2> QED
    BY ZenonT(30), <2>6, <2>8, <2>9 DEF GotPage
<1> QED
  BY ZenonT(30), <1>1, <1>2, <1>3

(* A transfer to the disk begins.                                          *)
LEMMA SubmitWrite ==
  ASSUME CacheInv, NEW t \in Tasks, NEW b, NEW v, Submit(t, TRUE, b, v)
  PROVE  /\ io'[t] # NoIo /\ io'[t].pc = "busy" /\ io'[t].write /\ io'[t].block = b /\ io'[t].value = v
         /\ \A u \in Tasks : u # t => io'[u] = io[u]
BY ZenonT(30) DEF CacheInv, Submit, NoIo

(* A task resumes after its transfer.                                      *)
LEMMA ResumesIs ==
  ASSUME CacheInv, NEW t \in Tasks, Resumes(t)
  PROVE  /\ io[t] # NoIo /\ io[t].pc = "done" /\ io[t].block \in Blocks
         /\ io'[t] = NoIo /\ io'[t].pc # "done" /\ \A u \in Tasks : u # t => io'[u] = io[u]
BY DEF CacheInv, Resumes, NoIo

(* A block of the evicted page is written.                                 *)
LEMMA EvictWrittenIs ==
  ASSUME CacheInv, NEW t \in Tasks, EvictWritten(t)
  PROVE  /\ op[t].pc = "evict" /\ op'[t].pc = "evict" /\ op'[t].block = op[t].block
         /\ UNCHANGED <<device, pages, lock, uses, answer>>
         /\ \A u \in Tasks : u # t => op'[u] = op[u]
         /\ Resumes(t)
         /\ \A page : page \in op'[t].evicted <=>
              \E pg \in op[t].evicted : page = [pg EXCEPT !.dirty = pg.dirty \ {io[t].block}] /\ page.dirty # {}
<1>1. /\ op[t].pc = "evict" /\ Resumes(t) /\ UNCHANGED <<device, pages, lock, uses, answer>>
      /\ op' = [op EXCEPT ![t].evicted =
              {page \in {[pg EXCEPT !.dirty = @ \ {io[t].block}] : pg \in @} : page.dirty # {}}]
  BY ZenonT(30) DEF EvictWritten, cache
<1>2. op[t] \in Accesses /\ op \in [Tasks -> Accesses \cup Syncs \cup {Idle}]
  BY ZenonT(30), <1>1, PageIs DEF CacheInv
<1>3. op'[t] = [op[t] EXCEPT !.evicted =
              {page \in {[pg EXCEPT !.dirty = pg.dirty \ {io[t].block}] : pg \in op[t].evicted} : page.dirty # {}}]
      /\ \A u \in Tasks : u # t => op'[u] = op[u]
  BY ZenonT(30), <1>1, <1>2
<1>4. PICK E : E = {page \in {[pg EXCEPT !.dirty = pg.dirty \ {io[t].block}] : pg \in op[t].evicted} : page.dirty # {}}
  BY ZenonT(30)
<1>5. op'[t].evicted = E /\ op'[t].pc = op[t].pc /\ op'[t].block = op[t].block
  BY ZenonT(30), <1>2, <1>3, <1>4 DEF Accesses
<1>6. \A page : page \in E <=>
        \E pg \in op[t].evicted : page = [pg EXCEPT !.dirty = pg.dirty \ {io[t].block}] /\ page.dirty # {}
  BY ZenonT(30), <1>4
<1> QED
  BY ZenonT(30), <1>1, <1>3, <1>5, <1>6

(* A transfer from the disk begins.                                        *)
LEMMA SubmitRead ==
  ASSUME CacheInv, NEW t \in Tasks, NEW b, NEW v, Submit(t, FALSE, b, v)
  PROVE  /\ io'[t] # NoIo /\ io'[t].pc = "busy" /\ ~io'[t].write /\ io'[t].block = b /\ io'[t].value = v
         /\ \A u \in Tasks : u # t => io'[u] = io[u]
BY ZenonT(30) DEF CacheInv, Submit, NoIo

(* ensure_block_loaded.                                                    *)
LEMMA LoadIs ==
  ASSUME CacheInv, DOMAIN lock = DOMAIN pages, NEW t \in Tasks, Load(t)
  PROVE  /\ op[t].pc = "evict" /\ op'[t].pc = "load" /\ op'[t].block = op[t].block
         /\ op[t].evicted = {} /\ op'[t].evicted = {}
         /\ \A u \in Tasks : u # t => op'[u] = op[u] /\ io'[u] = io[u]
         /\ io'[t] # NoIo /\ io'[t].pc = "busy" /\ ~io'[t].write /\ io'[t].block = op[t].block
         /\ DOMAIN lock' = DOMAIN pages /\ lock[PageOf(op[t].block)] = Nobody /\ lock'[PageOf(op[t].block)] = t
         /\ \A q \in DOMAIN pages : q # PageOf(op[t].block) => lock'[q] = lock[q]
         /\ UNCHANGED <<device, pages, uses, answer>> /\ op[t].block \notin Page(t).loaded
<1>1. /\ op[t].pc = "evict" /\ op[t].evicted = {} /\ lock[PageOf(op[t].block)] = Nobody
      /\ Submit(t, FALSE, op[t].block, Zero) /\ lock' = [lock EXCEPT ![PageOf(op[t].block)] = t]
      /\ op' = [op EXCEPT ![t].pc = "load"] /\ UNCHANGED <<device, pages, uses, answer>>
      /\ op[t].block \notin Page(t).loaded
  BY ZenonT(30) DEF Load, ReadyFor, Runs, Loads
<1>2. op[t] \in Accesses /\ PageOf(op[t].block) \in DOMAIN pages
  BY ZenonT(30), <1>1, PageIs
<1>3. op'[t] = [op[t] EXCEPT !.pc = "load"] /\ \A u \in Tasks : u # t => op'[u] = op[u]
  BY ZenonT(30), <1>1 DEF CacheInv
<1>4. op'[t].pc = "load" /\ op'[t].block = op[t].block /\ op'[t].evicted = op[t].evicted
  BY ZenonT(30), <1>2, <1>3 DEF Accesses
<1>5. /\ io'[t] # NoIo /\ io'[t].pc = "busy" /\ ~io'[t].write /\ io'[t].block = op[t].block
      /\ \A u \in Tasks : u # t => io'[u] = io[u]
  BY ZenonT(30), <1>1, SubmitRead
<1> QED
  BY ZenonT(30), <1>1, <1>2, <1>3, <1>4, <1>5

(* The block is loaded.                                                    *)
LEMMA LoadedDoes ==
  ASSUME DiskInv, NEW t \in Tasks, Loaded(t)
  PROVE  /\ op[t].pc = "load" /\ op'[t].pc = "evict" /\ op'[t].block = op[t].block
         /\ op[t].evicted = {} /\ op'[t].evicted = {} /\ op[t].block \notin Page(t).loaded
         /\ \A u \in Tasks : u # t => op'[u] = op[u] /\ io'[u] = io[u]
         /\ io[t].pc = "done" /\ io[t].block = op[t].block /\ io'[t] = NoIo /\ io'[t].pc # "done"
         /\ DOMAIN pages' = DOMAIN pages /\ DOMAIN lock' = DOMAIN pages
         /\ lock[PageOf(op[t].block)] = t
         /\ \A q \in DOMAIN pages : q # PageOf(op[t].block) => lock'[q] = lock[q] /\ pages'[q] = pages[q]
         /\ PageOf(op[t].block) \in DOMAIN pages
         /\ pages'[PageOf(op[t].block)].dirty = Page(t).dirty
         /\ pages'[PageOf(op[t].block)].loaded = Page(t).loaded \cup {op[t].block}
         /\ pages'[PageOf(op[t].block)].data[op[t].block] = io[t].value
         /\ \A b \in BlocksOf(PageOf(op[t].block)) \ {op[t].block} :
              pages'[PageOf(op[t].block)].data[b] = Page(t).data[b]
         /\ UNCHANGED <<device, uses, answer>>
<1>0. CacheInv /\ DOMAIN lock = DOMAIN pages /\ TaskOK(t)
  BY ZenonT(30) DEF DiskInv, TransfersOK
<1>1. /\ op[t].pc = "load" /\ Resumes(t) /\ lock' = [lock EXCEPT ![PageOf(op[t].block)] = Nobody]
      /\ op' = [op EXCEPT ![t].pc = "evict"] /\ UNCHANGED <<device, uses, answer>>
  BY ZenonT(30) DEF Loaded
<1>2. LoadOK(t)
  BY ZenonT(30), <1>0, <1>1 DEF TaskOK
<1>3. /\ op[t] \in Accesses /\ PageOf(op[t].block) \in DOMAIN pages /\ op[t].block \in BlocksOf(PageOf(op[t].block))
      /\ Page(t) \in PagesAt(PageOf(op[t].block))
  BY ZenonT(30), <1>0, <1>1, PageIs
<1>4. op'[t] = [op[t] EXCEPT !.pc = "evict"] /\ \A u \in Tasks : u # t => op'[u] = op[u]
  BY ZenonT(30), <1>0, <1>1 DEF CacheInv
<1>5. op'[t].pc = "evict" /\ op'[t].block = op[t].block /\ op'[t].evicted = op[t].evicted
  BY ZenonT(30), <1>3, <1>4 DEF Accesses
<1>6. io[t].pc = "done" /\ io'[t] = NoIo /\ io'[t].pc # "done" /\ \A u \in Tasks : u # t => io'[u] = io[u]
  BY ZenonT(30), <1>0, <1>1, ResumesIs
<1>7. PICK pg \in PagesAt(PageOf(op[t].block)) :
        /\ pages' = [pages EXCEPT ![PageOf(op[t].block)] = pg]
        /\ pg.data = [Page(t).data EXCEPT ![op[t].block] = io[t].value]
        /\ pg.loaded = Page(t).loaded \cup {op[t].block} /\ pg.dirty = Page(t).dirty
  BY ZenonT(30), <1>0, LoadedIs
<1>8. Page(t).data \in [BlocksOf(PageOf(op[t].block)) -> Contents]
  BY ZenonT(30), <1>3 DEF PagesAt
<1>9. pg.data[op[t].block] = io[t].value
      /\ \A b \in BlocksOf(PageOf(op[t].block)) \ {op[t].block} : pg.data[b] = Page(t).data[b]
  BY ZenonT(30), <1>3, <1>7, <1>8
<1>10. /\ DOMAIN pages' = DOMAIN pages /\ pages'[PageOf(op[t].block)] = pg
       /\ \A q \in DOMAIN pages : q # PageOf(op[t].block) => pages'[q] = pages[q]
  BY ZenonT(30), <1>3, <1>7
<1>11. DOMAIN lock' = DOMAIN pages /\ \A q \in DOMAIN pages : q # PageOf(op[t].block) => lock'[q] = lock[q]
  BY ZenonT(30), <1>0, <1>1
<1>12. /\ op[t].evicted = {} /\ io[t].block = op[t].block /\ lock[PageOf(op[t].block)] = t
       /\ op[t].block \notin Page(t).loaded
  BY ZenonT(30), <1>2 DEF LoadOK
<1> QED
  BY ZenonT(30), <1>1, <1>3, <1>4, <1>5, <1>6, <1>7, <1>9, <1>10, <1>11, <1>12

(* A task's operation changes, and no other's.                             *)
LEMMA OpBecomes ==
  ASSUME CacheInv, NEW t \in Tasks, NEW o, op' = [op EXCEPT ![t] = o]
  PROVE  op'[t] = o /\ \A u \in Tasks : u # t => op'[u] = op[u]
BY ZenonT(30) DEF CacheInv

(* A write changes the block in its page.                                  *)
LEMMA StoreDoes ==
  ASSUME DiskInv, NEW t \in Tasks, Store(t)
  PROVE  /\ op[t].pc = "evict" /\ op[t].evicted = {} /\ op[t].block \in Blocks /\ Stored(t) \in Contents
         /\ PageOf(op[t].block) \in DOMAIN pages /\ lock[PageOf(op[t].block)] = Nobody
         /\ DOMAIN pages' = DOMAIN pages /\ DOMAIN lock' = DOMAIN pages
         /\ \A u \in Tasks : u # t => op'[u] = op[u] /\ io'[u] = io[u]
         /\ \A q \in DOMAIN pages : q # PageOf(op[t].block) => lock'[q] = lock[q] /\ pages'[q] = pages[q]
         /\ pages'[PageOf(op[t].block)].dirty = Page(t).dirty \cup {op[t].block}
         /\ pages'[PageOf(op[t].block)].loaded = Page(t).loaded \cup {op[t].block}
         /\ pages'[PageOf(op[t].block)].data[op[t].block] = Stored(t)
         /\ \A b \in BlocksOf(PageOf(op[t].block)) \ {op[t].block} :
              pages'[PageOf(op[t].block)].data[b] = Page(t).data[b]
         /\ UNCHANGED <<device, uses, answer>>
         /\ \/ /\ uses.through /\ op'[t].pc = "through" /\ op'[t].block = op[t].block
               /\ lock'[PageOf(op[t].block)] = t
               /\ io'[t] # NoIo /\ io'[t].pc = "busy" /\ io'[t].write
               /\ io'[t].block = op[t].block /\ io'[t].value = Stored(t)
            \/ ~uses.through /\ op'[t] = Idle /\ io'[t] = NoIo
<1>0. CacheInv /\ DOMAIN lock = DOMAIN pages
  BY ZenonT(30) DEF DiskInv, TransfersOK
<1>1. /\ op[t].pc = "evict" /\ op[t].evicted = {} /\ io[t] = NoIo /\ lock[PageOf(op[t].block)] = Nobody
      /\ UNCHANGED <<device, uses, answer>>
  BY ZenonT(30) DEF Store, ReadyFor, Runs
<1>2. /\ op[t] \in Accesses /\ PageOf(op[t].block) \in DOMAIN pages /\ op[t].block \in BlocksOf(PageOf(op[t].block))
      /\ Page(t) \in PagesAt(PageOf(op[t].block)) /\ op[t].block \in Blocks
  BY ZenonT(30), <1>0, <1>1, PageIs
<1>3. Stored(t) \in Contents
  BY ZenonT(30), <1>0, StoreIs
<1>4. PICK pg \in PagesAt(PageOf(op[t].block)) :
        /\ pages' = [pages EXCEPT ![PageOf(op[t].block)] = pg]
        /\ pg.data = [Page(t).data EXCEPT ![op[t].block] = Stored(t)]
        /\ pg.loaded = Page(t).loaded \cup {op[t].block} /\ pg.dirty = Page(t).dirty \cup {op[t].block}
  BY ZenonT(30), <1>0, StoreIs
<1>5. Page(t).data \in [BlocksOf(PageOf(op[t].block)) -> Contents]
  BY ZenonT(30), <1>2 DEF PagesAt
<1>6. pg.data[op[t].block] = Stored(t)
      /\ \A b \in BlocksOf(PageOf(op[t].block)) \ {op[t].block} : pg.data[b] = Page(t).data[b]
  BY ZenonT(30), <1>2, <1>4, <1>5
<1>7. /\ DOMAIN pages' = DOMAIN pages /\ pages'[PageOf(op[t].block)] = pg
      /\ \A q \in DOMAIN pages : q # PageOf(op[t].block) => pages'[q] = pages[q]
  BY ZenonT(30), <1>2, <1>4
<1>8. CASE uses.through
  <2>1. /\ Submit(t, TRUE, op[t].block, Stored(t)) /\ lock' = [lock EXCEPT ![PageOf(op[t].block)] = t]
        /\ op' = [op EXCEPT ![t].pc = "through"]
    BY ZenonT(30), <1>8 DEF Store, ThroughValue
  <2>2. op'[t] = [op[t] EXCEPT !.pc = "through"] /\ \A u \in Tasks : u # t => op'[u] = op[u]
    BY ZenonT(30), <1>0, <2>1 DEF CacheInv
  <2>3. op'[t].pc = "through" /\ op'[t].block = op[t].block
    BY ZenonT(30), <1>2, <2>2 DEF Accesses
  <2>4. PICK v : v = Stored(t)
    BY ZenonT(30)
  <2>5. Submit(t, TRUE, op[t].block, v)
    BY ZenonT(30), <2>1, <2>4
  <2>6. /\ io'[t] # NoIo /\ io'[t].pc = "busy" /\ io'[t].write /\ io'[t].block = op[t].block /\ io'[t].value = v
        /\ \A u \in Tasks : u # t => io'[u] = io[u]
    BY ZenonT(30), <1>0, <2>5, SubmitWrite
  <2>7. /\ DOMAIN lock' = DOMAIN pages /\ lock'[PageOf(op[t].block)] = t
        /\ \A q \in DOMAIN pages : q # PageOf(op[t].block) => lock'[q] = lock[q]
    BY ZenonT(30), <1>0, <1>2, <2>1
  <2> QED
    BY ZenonT(30), <1>1, <1>2, <1>3, <1>4, <1>6, <1>7, <1>8, <2>2, <2>3, <2>4, <2>6, <2>7
<1>9. CASE ~uses.through
  <2>1. op' = [op EXCEPT ![t] = Idle] /\ UNCHANGED <<lock, io>>
    BY ZenonT(30), <1>9 DEF Store, Leaves
  <2>2. op'[t] = Idle /\ \A u \in Tasks : u # t => op'[u] = op[u]
    BY ZenonT(30), <1>0, <2>1, OpBecomes
  <2> QED
    BY ZenonT(30), <1>0, <1>1, <1>2, <1>3, <1>4, <1>6, <1>7, <1>9, <2>1, <2>2
<1> QED
  BY ZenonT(30), <1>8, <1>9

(* A block has been written from its page.                                 *)
LEMMA CleanDoes ==
  ASSUME CacheInv, NEW p \in DOMAIN pages, NEW b, pages' = Clean(p, b)
  PROVE  /\ DOMAIN pages' = DOMAIN pages /\ \A q \in DOMAIN pages : q # p => pages'[q] = pages[q]
         /\ pages'[p].data = pages[p].data /\ pages'[p].loaded = pages[p].loaded
         /\ pages'[p].dirty = pages[p].dirty \ {b}
<1>1. PICK pg \in PagesAt(p) : /\ pages' = [pages EXCEPT ![p] = pg]
                               /\ pg.data = pages[p].data /\ pg.loaded = pages[p].loaded
                               /\ pg.dirty = pages[p].dirty \ {b}
  BY ZenonT(30), CleanIs
<1> QED
  BY ZenonT(30), <1>1

(* What the end of a write-through does.                                   *)
LEMMA WrittenThroughDoes ==
  ASSUME DiskInv, NEW t \in Tasks, WrittenThrough(t)
  PROVE  /\ op[t].pc = "through" /\ Resumes(t) /\ io[t].pc = "done" /\ io'[t] = NoIo /\ io'[t].pc # "done"
         /\ PageOf(op[t].block) \in DOMAIN pages /\ lock[PageOf(op[t].block)] = t
         /\ io[t].block = op[t].block /\ io[t].value = Page(t).data[io[t].block]
         /\ pages' = Clean(PageOf(op[t].block), io[t].block)
         /\ DOMAIN lock' = DOMAIN pages
         /\ \A q \in DOMAIN pages : q # PageOf(op[t].block) => lock'[q] = lock[q]
         /\ op'[t] = Idle /\ \A u \in Tasks : u # t => op'[u] = op[u] /\ io'[u] = io[u]
         /\ UNCHANGED <<device, answer, uses>>
<1>0. CacheInv /\ DOMAIN lock = DOMAIN pages /\ TaskOK(t)
  BY DEF DiskInv, TransfersOK
<1>1. /\ op[t].pc = "through" /\ Resumes(t) /\ lock' = [lock EXCEPT ![PageOf(op[t].block)] = Nobody]
      /\ pages' = Clean(PageOf(op[t].block), op[t].block)
      /\ op' = [op EXCEPT ![t] = Idle] /\ UNCHANGED <<device, uses, answer>>
  BY ZenonT(30) DEF WrittenThrough, Leaves
<1>2. ThroughOK(t)
  BY ZenonT(30), <1>0, <1>1 DEF TaskOK
<1>3. PageOf(op[t].block) \in DOMAIN pages
  BY ZenonT(30), <1>0, <1>1, PageIs
<1>4. io[t].pc = "done" /\ io'[t] = NoIo /\ io'[t].pc # "done" /\ \A u \in Tasks : u # t => io'[u] = io[u]
  BY ZenonT(30), <1>0, <1>1, ResumesIs
<1>5. op'[t] = Idle /\ \A u \in Tasks : u # t => op'[u] = op[u]
  BY ZenonT(30), <1>0, <1>1 DEF CacheInv
<1>6. DOMAIN lock' = DOMAIN pages /\ \A q \in DOMAIN pages : q # PageOf(op[t].block) => lock'[q] = lock[q]
  BY ZenonT(30), <1>0, <1>1
<1> QED
  BY ZenonT(30), <1>1, <1>2, <1>3, <1>4, <1>5, <1>6 DEF ThroughOK

(* The block is written.                                                   *)
LEMMA SyncWrittenDoes ==
  ASSUME DiskInv, NEW t \in Tasks, SyncWritten(t)
  PROVE  /\ op[t].pc = "sync" /\ op[t].holds # {} /\ io[t].pc = "done" /\ io'[t] = NoIo /\ io'[t].pc # "done"
         /\ SyncPage(t) \in DOMAIN pages /\ lock[SyncPage(t)] = t /\ pages' = Clean(SyncPage(t), io[t].block)
         /\ io[t].value = pages[SyncPage(t)].data[io[t].block] /\ \A u \in Tasks : u # t => io'[u] = io[u]
         /\ UNCHANGED <<device, lock, op, answer, uses>>
<1>0. CacheInv /\ TaskOK(t)
  BY ZenonT(30) DEF DiskInv, TransfersOK
<1>1. /\ op[t].pc = "sync" /\ Resumes(t) /\ pages' = Clean(SyncPage(t), io[t].block)
      /\ UNCHANGED <<device, lock, op, answer, uses>>
  BY ZenonT(30) DEF SyncWritten
<1>2. io[t] # NoIo /\ io[t].pc = "done" /\ io'[t] = NoIo /\ io'[t].pc # "done" /\ \A u \in Tasks : u # t => io'[u] = io[u]
  BY ZenonT(30), <1>0, <1>1, ResumesIs
<1>3. op[t].holds # {} /\ lock[SyncPage(t)] = t /\ io[t].value = pages[SyncPage(t)].data[io[t].block]
  BY ZenonT(30), <1>0, <1>1, <1>2 DEF TaskOK, SyncOK
<1>4. SyncPage(t) \in DOMAIN pages
  BY ZenonT(30), <1>0, <1>1, <1>3, SyncPageIs
<1> QED
  BY ZenonT(30), <1>1, <1>2, <1>3, <1>4

(* A transfer that is not of an evicted page has the page of its block     *)
(* locked.                                                                 *)
LEMMA LocksBlock ==
  ASSUME DiskInv, NEW u \in Tasks, io[u] # NoIo, op[u].pc # "evict"
  PROVE  /\ op[u].pc \in {"load", "through", "sync"} /\ lock[PageOf(io[u].block)] = u
         /\ io[u].write => /\ PageOf(io[u].block) \in DOMAIN pages
                           /\ io[u].block \in pages[PageOf(io[u].block)].dirty
                           /\ io[u].value = pages[PageOf(io[u].block)].data[io[u].block]
<1>0. CacheInv /\ TaskOK(u)
  BY ZenonT(30) DEF DiskInv, TransfersOK
<1>1. op[u].pc \in {"load", "through", "sync"}
  <2>1. op[u].pc \in {"idle", "load", "through", "sync", "evict"}
    BY <1>0 DEF CacheInv, Accesses, Syncs, Idle
  <2> QED
    BY ZenonT(30), <1>0, <2>1 DEF TaskOK
<1>2. CASE op[u].pc \in {"load", "through"}
  <2>1. PageOf(op[u].block) \in DOMAIN pages
    BY ZenonT(30), <1>0, <1>2, PageIs
  <2> QED
    BY ZenonT(30), <1>0, <1>2, <2>1 DEF TaskOK, LoadOK, ThroughOK, Page
<1>3. CASE op[u].pc = "sync"
  <2>1. /\ op[u].holds # {} /\ lock[SyncPage(u)] = u
        /\ io[u].block \in pages[SyncPage(u)].dirty /\ io[u].value = pages[SyncPage(u)].data[io[u].block]
    BY ZenonT(30), <1>0, <1>3 DEF TaskOK, SyncOK
  <2>2. SyncPage(u) \in DOMAIN pages /\ pages[SyncPage(u)] \in PagesAt(SyncPage(u))
    BY ZenonT(30), <1>0, <1>3, <2>1, SyncPageIs
  <2>3. PageOf(io[u].block) = SyncPage(u)
    BY ZenonT(30), <2>1, <2>2 DEF PagesAt, BlocksOf
  <2> QED
    BY ZenonT(30), <1>1, <2>1, <2>2, <2>3
<1> QED
  BY ZenonT(30), <1>1, <1>2, <1>3

(* The cache is empty.                                                     *)
LEMMA EmptyDisk == EmptyCache => DiskInv
<1> SUFFICES ASSUME EmptyCache PROVE DiskInv
  BY ZenonT(30)
<1>1. CacheInv
  BY ZenonT(30), EmptyIs
<1>2. DOMAIN pages = {} /\ DOMAIN lock = {} /\ \A t \in Tasks : op[t].pc = "idle" /\ io[t] = NoIo /\ io[t].pc # "done"
  BY DEF EmptyCache, Idle, NoIo
<1>3. TransfersOK
  BY ZenonT(30), <1>2 DEF TransfersOK, TaskOK
<1>4. CleanOK /\ WritesThrough /\ OneInOrder
  BY ZenonT(30), <1>2 DEF CleanOK, WritesThrough, OneInOrder
<1> QED
  BY ZenonT(30), <1>1, <1>3, <1>4 DEF DiskInv

(* Every step keeps the second invariant.                                  *)
LEMMA DiskNext ==
  ASSUME DiskInv, [Next]_vars
  PROVE  DiskInv'
  (* A task whose own state stays is as before if its locked pages are.      *)
<1>OtherTask. ASSUME NEW u \in Tasks, op'[u] = op[u], io'[u] = io[u], op[u].pc # "idle" => Untouched(u)
              PROVE  TaskOK(u)'
  <2> USE <1>OtherTask
  <2>1. TaskOK(u)
    BY ZenonT(30) DEF DiskInv, TransfersOK
  <2>2. CacheInv
    BY ZenonT(30) DEF DiskInv
  <2>3. CASE op[u].pc = "idle"
    BY ZenonT(30), <2>1, <2>3 DEF TaskOK
  <2>4. CASE op[u].pc \in {"load", "through"}
    <3>1. op[u].holds = {PageOf(op[u].block)}
      BY ZenonT(30), <2>2, <2>4, OpIs
    <3>2. lock[PageOf(op[u].block)] = u
      BY ZenonT(30), <2>1, <2>4 DEF TaskOK, LoadOK, ThroughOK
    <3>3. /\ lock'[PageOf(op[u].block)] = u
          /\ pages'[PageOf(op[u].block)].data = pages[PageOf(op[u].block)].data
          /\ pages'[PageOf(op[u].block)].loaded = pages[PageOf(op[u].block)].loaded
          /\ pages'[PageOf(op[u].block)].dirty = pages[PageOf(op[u].block)].dirty
      BY ZenonT(30), <2>4, <3>1, <3>2 DEF Untouched
    <3>4. op[u].pc = "load" => LoadOK(u)'
      BY ZenonT(30), <2>1, <3>3 DEF TaskOK, LoadOK, Page
    <3>5. op[u].pc = "through" => ThroughOK(u)'
      BY <2>1, <3>3 DEF TaskOK, ThroughOK, Page
    <3> QED
      BY ZenonT(30), <2>4, <3>4, <3>5 DEF TaskOK
  <2>5. CASE op[u].pc = "sync"
    <3> SUFFICES ASSUME io[u] # NoIo PROVE SyncOK(u)'
      BY ZenonT(30), <2>5 DEF TaskOK, SyncOK
    <3>1. /\ op[u].holds # {} /\ lock[SyncPage(u)] = u /\ io[u].write
          /\ io[u].block \in pages[SyncPage(u)].dirty /\ io[u].value = pages[SyncPage(u)].data[io[u].block]
      BY ZenonT(30), <2>1, <2>5 DEF TaskOK, SyncOK
    <3>2. SyncPage(u) \in op[u].holds
      BY ZenonT(30), <2>2, <2>5, <3>1, SyncPageIs
    <3>3. SyncPage(u)' = SyncPage(u)
      BY ZenonT(30) DEF SyncPage
    <3>4. /\ lock'[SyncPage(u)] = u /\ pages'[SyncPage(u)].data = pages[SyncPage(u)].data
          /\ pages'[SyncPage(u)].dirty = pages[SyncPage(u)].dirty
      BY ZenonT(30), <2>5, <3>1, <3>2 DEF Untouched
    <3> QED
      BY ZenonT(30), <3>1, <3>3, <3>4 DEF SyncOK
  <2>6. CASE op[u].pc = "evict"
    BY ZenonT(30), <2>1, <2>6 DEF TaskOK, EvictOK
  <2>7. op[u].pc \in {"idle", "load", "through", "sync", "evict"}
    BY <2>2 DEF CacheInv, Accesses, Syncs, Idle
  <2> QED
    BY ZenonT(30), <2>3, <2>4, <2>5, <2>6, <2>7
  (* A step of t that changes no page and no lock but those that are t's or  *)
  (* nobody's.                                                               *)
<1>OtherTasks. ASSUME NEW t \in Tasks, \A u \in Tasks : u # t => op'[u] = op[u] /\ io'[u] = io[u],
                      \A q \in DOMAIN pages : lock[q] \notin {t, Nobody} => lock'[q] = lock[q] /\ pages'[q] = pages[q]
               PROVE  \A u \in Tasks : u # t => TaskOK(u)'
  <2> USE <1>OtherTasks
  <2> SUFFICES ASSUME NEW u \in Tasks, u # t PROVE TaskOK(u)'
    BY ZenonT(30)
  <2>1. op[u].pc # "idle" => op[u].holds \subseteq DOMAIN pages
    BY ZenonT(30) DEF DiskInv, CacheInv
  <2>2. u # Nobody
    BY ZenonT(30), BlockCacheAssumption
  <2>3. op[u].pc # "idle" => Untouched(u)
    BY ZenonT(30), <2>1, <2>2 DEF Untouched
  <2> QED
    BY ZenonT(30), <2>3, <1>OtherTask
  (* Clean blocks stay clean, or are loaded or written.                      *)
<1>CleanKept. ASSUME InStep, UNCHANGED device, \A u \in Tasks : io'[u] = io[u] \/ io'[u].pc # "done",
                     \A p \in DOMAIN pages' : \A b \in pages'[p].loaded \ pages'[p].dirty :
                       \/ p \in DOMAIN pages /\ b \in pages[p].loaded \ pages[p].dirty /\ pages'[p].data[b] = pages[p].data[b]
                       \/ pages'[p].data[b] = device[b]
              PROVE  CleanOK'
  BY <1>CleanKept DEF DiskInv, CleanOK
  (* One at a time, the order has to be shown of the task at work only.      *)
<1>OrderKept. ASSUME CacheInv', OneAtATime, UNCHANGED uses, NEW t \in Tasks, op'[t].pc # "idle",
                     op'[t].pc = "evict" => \A pg \in op'[t].evicted : \A b \in pg.dirty : PageOf(b) \notin DOMAIN pages',
                     op'[t].pc = "sync" => \A p \in DOMAIN pages' \ op'[t].holds : pages'[p].dirty = {}
              PROVE  OneInOrder'
  <2> USE <1>OrderKept
  <2>1. OneAtATime'
    BY ZenonT(30) DEF OneAtATime
  <2>2. OneOperation'
    BY <2>1, OnlyOne, PTL
  <2> QED
    BY ZenonT(30), <2>2 DEF OneInOrder, OneOperation
  (* The invariant, of a step of t.                                          *)
<1>DiskKeeps. ASSUME CacheInv', NEW t \in Tasks, UNCHANGED uses, DOMAIN lock' = DOMAIN pages',
                     \A u \in Tasks : u # t => TaskOK(u)', TaskOK(t)',
                     InStep => CleanOK', uses.through => WritesThrough', OneAtATime => OneInOrder'
              PROVE  DiskInv'
  <2> USE <1>DiskKeeps
  <2>1. (OneAtATime' <=> OneAtATime) /\ (InStep' <=> InStep)
    BY ZenonT(30) DEF OneAtATime, InStep
  <2> QED
    BY ZenonT(30), <2>1 DEF DiskInv, TransfersOK
  (* With write-through, what t leaves dirty is written by others or by t.   *)
<1>ThroughKept. ASSUME uses.through, NEW t \in Tasks, \A u \in Tasks : u # t => op'[u] = op[u],
                       \A p \in DOMAIN pages' : \A b \in pages'[p].dirty :
                         \/ p \in DOMAIN pages /\ b \in pages[p].dirty /\ ~(op[t].pc = "through" /\ op[t].block = b)
                         \/ op'[t].pc = "through" /\ op'[t].block = b,
                       op'[t].pc = "evict" => op'[t].evicted = {}
                PROVE  WritesThrough'
  <2> USE <1>ThroughKept
  <2>1. WritesThrough
    BY ZenonT(30) DEF DiskInv
  <2>2. ASSUME NEW p \in DOMAIN pages', NEW b \in pages'[p].dirty
        PROVE  \E u \in Tasks : op'[u].pc = "through" /\ op'[u].block = b
    <3>1. CASE p \in DOMAIN pages /\ b \in pages[p].dirty /\ ~(op[t].pc = "through" /\ op[t].block = b)
      <4>1. PICK u \in Tasks : op[u].pc = "through" /\ op[u].block = b
        BY ZenonT(30), <2>1, <3>1 DEF WritesThrough
      <4> QED
        BY ZenonT(30), <3>1, <4>1
    <3> QED
      BY ZenonT(30), <3>1
  <2>3. \A u \in Tasks : op'[u].pc = "evict" => op'[u].evicted = {}
    BY ZenonT(30), <2>1 DEF WritesThrough
  <2> QED
    BY ZenonT(30), <2>2, <2>3 DEF WritesThrough
  (* What a task at work has locked.                                         *)
<1>HeldIs. ASSUME CacheInv, NEW u \in Tasks, op[u].pc # "idle", NEW q \in op[u].holds
           PROVE  q \in DOMAIN pages /\ Held(q)
  BY ZenonT(30), <1>HeldIs DEF CacheInv, Held
  (* read_block and write_block, up to the eviction.                         *)
<1>AccessDisk. ASSUME CacheInv', NEW t \in Tasks, NEW kind, NEW b \in Blocks, NEW v, Access(t, kind, b, v)
               PROVE  DiskInv'
  <2> USE <1>AccessDisk
  <2> DEFINE o == [pc |-> "evict", kind |-> kind, block |-> b, value |-> v,
                   evicted |-> Evicted(PageOf(b)), holds |-> {PageOf(b)}]
  <2>0. CacheInv /\ op \in [Tasks -> Accesses \cup Syncs \cup {Idle}] /\ PageOf(b) \in PageNos
    BY ZenonT(30) DEF DiskInv, CacheInv, PageNos
  <2>1. /\ op[t] = Idle /\ op[t].pc = "idle" /\ GetPage(PageOf(b)) /\ op' = [op EXCEPT ![t] = o]
        /\ UNCHANGED <<device, io, answer, uses>>
    BY DEF Access, Enters, Idle
  <2>2. GotPage(PageOf(b))
    BY ZenonT(30), <2>0, <2>1, GetPageIs
  <2> HIDE DEF o
  <2>3. op'[t] = o /\ \A u \in Tasks : u # t => op'[u] = op[u] /\ io'[u] = io[u]
    BY ZenonT(30), <2>0, <2>1
  <2>4. o.pc = "evict" /\ o.evicted = Evicted(PageOf(b)) /\ o.block = b
    BY ZenonT(30) DEF o
  <2>5. io[t] = NoIo /\ io'[t] = NoIo
    BY ZenonT(30), <2>1 DEF DiskInv, TransfersOK, TaskOK
  <2>6. DOMAIN lock' = DOMAIN pages'
    BY ZenonT(30), <2>2 DEF GotPage
  <2>7. ASSUME NEW u \in Tasks, u # t PROVE TaskOK(u)'
    <3>1. ASSUME op[u].pc # "idle" PROVE Untouched(u)
      <4>1. ASSUME NEW q \in op[u].holds
            PROVE  /\ lock'[q] = lock[q]
                   /\ pages'[q].data = pages[q].data /\ pages'[q].loaded = pages[q].loaded
                   /\ pages'[q].dirty = pages[q].dirty
        <5>1. q \in DOMAIN pages /\ Held(q)
          BY ZenonT(30), <2>0, <3>1, <4>1, <1>HeldIs
        <5> QED
          BY ZenonT(30), <2>2, <5>1 DEF GotPage
      <4> QED
        BY ZenonT(30), <4>1 DEF Untouched
    <3> QED
      BY ZenonT(30), <2>3, <2>7, <3>1, <1>OtherTask
  <2>8. TaskOK(t)'
    <3>1. \A p, q \in Evicted(PageOf(b)) : p = q
      BY ZenonT(30), <2>2 DEF GotPage
    <3> QED
      BY ZenonT(30), <2>3, <2>4, <2>5, <3>1 DEF TaskOK, EvictOK
  <2>9. ASSUME InStep PROVE CleanOK'
    <3>1. ASSUME NEW p \in DOMAIN pages', NEW c \in pages'[p].loaded \ pages'[p].dirty
          PROVE  p \in DOMAIN pages /\ c \in pages[p].loaded \ pages[p].dirty /\ pages'[p].data[c] = pages[p].data[c]
      BY <2>2 DEF GotPage, NewEmpty
    <3> QED
      BY ZenonT(30), <2>1, <2>9, <3>1, <1>CleanKept
  <2>10. ASSUME uses.through PROVE WritesThrough'
    <3>1. ASSUME NEW p \in DOMAIN pages', NEW c \in pages'[p].dirty
          PROVE  p \in DOMAIN pages /\ c \in pages[p].dirty
      BY <2>2 DEF GotPage, NewEmpty
    <3>2. ASSUME Evicted(PageOf(b)) # {} PROVE FALSE
      <4>1. PICK q \in DOMAIN pages : ~Held(q) /\ pages[q].dirty # {}
        BY ZenonT(30), <2>2, <3>2 DEF GotPage
      <4>2. PICK c \in pages[q].dirty : TRUE
        BY ZenonT(30), <4>1
      <4>3. PICK u \in Tasks : op[u].pc = "through" /\ op[u].block = c
        BY ZenonT(30), <2>10, <4>2 DEF DiskInv, WritesThrough
      <4>4. pages[q] \in PagesAt(q)
        BY ZenonT(30), <2>0 DEF CacheInv, CacheOK
      <4>5. PageOf(c) = q
        BY ZenonT(30), <4>2, <4>4 DEF PagesAt, BlocksOf
      <4>6. op[u].holds = {q}
        BY ZenonT(30), <2>0, <4>3, <4>5, OpIs
      <4> QED
        BY ZenonT(30), <2>0, <4>1, <4>3, <4>6, <1>HeldIs
    <3> QED
      BY ZenonT(30), <2>1, <2>3, <2>4, <2>10, <3>1, <3>2, <1>ThroughKept
  <2>11. ASSUME OneAtATime PROVE OneInOrder'
    <3>1. ASSUME NEW pg \in Evicted(PageOf(b)), NEW c \in pg.dirty PROVE PageOf(c) \notin DOMAIN pages'
      <4>1. PICK q \in DOMAIN pages \ DOMAIN pages' : pg = pages[q]
        BY <2>2 DEF GotPage
      <4>2. pages[q] \in PagesAt(q)
        BY ZenonT(30), <2>0 DEF CacheInv, CacheOK
      <4> QED
        BY ZenonT(30), <4>1, <4>2 DEF PagesAt, BlocksOf
    <3> QED
      BY ZenonT(30), <2>1, <2>3, <2>4, <2>11, <3>1, <1>OrderKept
  <2> QED
    BY ZenonT(30), <2>1, <2>6, <2>7, <2>8, <2>9, <2>10, <2>11, <1>DiskKeeps
  (* CachedBlockDevice::sync takes its snapshot.                             *)
<1>SyncDisk. ASSUME CacheInv', NEW t \in Tasks, Sync(t)
             PROVE  DiskInv'
  <2> USE <1>SyncDisk
  <2>0. CacheInv /\ op \in [Tasks -> Accesses \cup Syncs \cup {Idle}] /\ DOMAIN lock = DOMAIN pages
    BY ZenonT(30) DEF DiskInv, CacheInv, TransfersOK
  <2>1. /\ op[t] = Idle /\ op[t].pc = "idle" /\ op' = [op EXCEPT ![t] = [pc |-> "sync", holds |-> DOMAIN pages]]
        /\ UNCHANGED <<device, pages, lock, io, answer, uses>>
    BY DEF Sync, Enters, Idle, cache
  <2>2. op'[t] = [pc |-> "sync", holds |-> DOMAIN pages] /\ \A u \in Tasks : u # t => op'[u] = op[u] /\ io'[u] = io[u]
    BY ZenonT(30), <2>0, <2>1
  <2>3. op'[t].pc = "sync" /\ op'[t].holds = DOMAIN pages'
    BY <2>1, <2>2
  <2>4. io'[t] = NoIo
    BY ZenonT(30), <2>1 DEF DiskInv, TransfersOK, TaskOK
  <2>5. \A u \in Tasks : u # t => TaskOK(u)'
    BY ZenonT(30), <2>1, <2>2, <1>OtherTasks
  <2>6. TaskOK(t)'
    BY ZenonT(30), <2>3, <2>4 DEF TaskOK, SyncOK
  <2>7. InStep => CleanOK'
    BY ZenonT(30), <2>1, <1>CleanKept
  <2>8. uses.through => WritesThrough'
    BY ZenonT(30), <2>1, <2>2, <2>3, <1>ThroughKept
  <2>9. OneAtATime => OneInOrder'
    BY ZenonT(30), <2>1, <2>3, <1>OrderKept
  <2> QED
    BY ZenonT(30), <2>0, <2>1, <2>5, <2>6, <2>7, <2>8, <2>9, <1>DiskKeeps
  (* One operation at a time, and it ends.                                   *)
<1>OrderEnds. ASSUME OneAtATime, NEW t \in Tasks, op[t].pc # "idle", op'[t].pc = "idle",
                     \A u \in Tasks : u # t => op'[u] = op[u]
              PROVE  OneInOrder'
  <2> USE <1>OrderEnds
  <2>1. OneOperation
    BY ZenonT(30), OnlyOne DEF DiskInv
  <2> QED
    BY ZenonT(30), <2>1 DEF OneInOrder, OneOperation
  (* sync_evicted_pages asks for a write.                                    *)
<1>EvictWriteDisk. ASSUME CacheInv', NEW t \in Tasks, EvictWrite(t)
                   PROVE  DiskInv'
  <2> USE <1>EvictWriteDisk
  <2>0. CacheInv /\ DOMAIN lock = DOMAIN pages
    BY ZenonT(30) DEF DiskInv, TransfersOK
  <2>1. op[t].pc = "evict" /\ UNCHANGED <<device, pages, lock, op, uses>>
    BY ZenonT(30) DEF EvictWrite, Runs, cache
  <2>2. PICK page \in op[t].evicted : Submit(t, TRUE, Least(page.dirty), page.data[Least(page.dirty)])
    BY ZenonT(30) DEF EvictWrite
  <2>3. PICK c, v : c = Least(page.dirty) /\ v = page.data[c]
    BY ZenonT(30)
  <2>4. Submit(t, TRUE, c, v)
    BY ZenonT(30), <2>2, <2>3
  <2>5. /\ io'[t] # NoIo /\ io'[t].pc = "busy" /\ io'[t].write /\ io'[t].block = c /\ io'[t].value = v
        /\ \A u \in Tasks : u # t => io'[u] = io[u]
    BY ZenonT(30), <2>0, <2>4, SubmitWrite
  <2>6. c \in page.dirty
    <3>1. op[t] \in Accesses
      BY ZenonT(30), <2>0, <2>1, PageIs
    <3>2. page \in Evictions
      BY ZenonT(30), <2>2, <3>1 DEF Accesses
    <3>3. PICK p : page \in PagesAt(p) /\ page.dirty # {}
      BY ZenonT(30), <3>2 DEF Evictions
    <3> QED
      BY ZenonT(30), <2>0, <2>3, <3>3, SyncBlockIs
  <2>7. TaskOK(t)
    BY ZenonT(30) DEF DiskInv, TransfersOK
  <2>8. TaskOK(t)'
    BY ZenonT(30), <2>1, <2>3, <2>5, <2>6, <2>7 DEF TaskOK, EvictOK
  <2>9. \A u \in Tasks : u # t => TaskOK(u)'
    BY ZenonT(30), <2>1, <2>5, <1>OtherTasks
  <2>10. InStep => CleanOK'
    BY ZenonT(30), <2>1, <2>5, <1>CleanKept
  <2>11. uses.through => WritesThrough'
    BY ZenonT(30), <2>1 DEF DiskInv, WritesThrough
  <2>12. OneAtATime => OneInOrder'
    BY ZenonT(30), <2>1 DEF DiskInv, OneInOrder
  <2> QED
    BY ZenonT(30), <2>0, <2>1, <2>8, <2>9, <2>10, <2>11, <2>12, <1>DiskKeeps
  (* A block of the evicted page is written.                                 *)
<1>EvictWrittenDisk. ASSUME CacheInv', NEW t \in Tasks, EvictWritten(t)
                     PROVE  DiskInv'
  <2> USE <1>EvictWrittenDisk
  <2>0. CacheInv /\ DOMAIN lock = DOMAIN pages /\ TaskOK(t)
    BY ZenonT(30) DEF DiskInv, TransfersOK
  <2>1. /\ op[t].pc = "evict" /\ op'[t].pc = "evict" /\ UNCHANGED <<device, pages, lock, uses>> /\ Resumes(t)
        /\ \A u \in Tasks : u # t => op'[u] = op[u]
        /\ \A page : page \in op'[t].evicted <=>
             \E pg \in op[t].evicted : page = [pg EXCEPT !.dirty = pg.dirty \ {io[t].block}] /\ page.dirty # {}
    BY ZenonT(30), <2>0, EvictWrittenIs
  <2>2. io'[t] = NoIo /\ io'[t].pc # "done" /\ \A u \in Tasks : u # t => io'[u] = io[u]
    BY ZenonT(30), <2>0, <2>1, ResumesIs
  <2>3. TaskOK(t)'
    <3>1. \A p, q \in op[t].evicted : p = q
      BY ZenonT(30), <2>0, <2>1 DEF TaskOK, EvictOK
    <3>2. ASSUME NEW p \in op'[t].evicted, NEW q \in op'[t].evicted PROVE p = q
      <4>1. PICK a \in op[t].evicted : p = [a EXCEPT !.dirty = a.dirty \ {io[t].block}]
        BY ZenonT(30), <2>1
      <4>2. PICK c \in op[t].evicted : q = [c EXCEPT !.dirty = c.dirty \ {io[t].block}]
        BY ZenonT(30), <2>1
      <4> QED
        BY ZenonT(30), <3>1, <4>1, <4>2
    <3> QED
      BY ZenonT(30), <2>1, <2>2, <3>2 DEF TaskOK, EvictOK
  <2>4. \A u \in Tasks : u # t => TaskOK(u)'
    BY ZenonT(30), <2>1, <2>2, <1>OtherTasks
  <2>5. InStep => CleanOK'
    BY ZenonT(30), <2>1, <2>2, <1>CleanKept
  <2>6. ASSUME uses.through PROVE WritesThrough'
    <3>1. op[t].evicted = {}
      BY ZenonT(30), <2>1, <2>6 DEF DiskInv, WritesThrough
    <3>2. op'[t].evicted = {}
      BY ZenonT(30), <2>1, <3>1
    <3> QED
      BY ZenonT(30), <2>1, <2>6, <3>2, <1>ThroughKept
  <2>7. ASSUME OneAtATime PROVE OneInOrder'
    <3>1. \A pg \in op[t].evicted : \A b \in pg.dirty : PageOf(b) \notin DOMAIN pages
      BY ZenonT(30), <2>1, <2>7 DEF DiskInv, OneInOrder
    <3>2. ASSUME NEW page \in op'[t].evicted, NEW b \in page.dirty PROVE PageOf(b) \notin DOMAIN pages'
      <4>1. PICK pg \in op[t].evicted : page = [pg EXCEPT !.dirty = pg.dirty \ {io[t].block}]
        BY ZenonT(30), <2>1
      <4>2. pg \in Evictions
        BY ZenonT(30), <2>0, <2>1, PageIs DEF Accesses
      <4>3. PICK p : pg \in PagesAt(p)
        BY ZenonT(30), <4>2 DEF Evictions
      <4>4. page.dirty = pg.dirty \ {io[t].block}
        BY ZenonT(30), <4>1, <4>3 DEF PagesAt
      <4> QED
        BY ZenonT(30), <2>1, <3>1, <4>4
    <3> QED
      BY ZenonT(30), <2>1, <2>7, <3>2, <1>OrderKept
  <2> QED
    BY ZenonT(30), <2>0, <2>1, <2>3, <2>4, <2>5, <2>6, <2>7, <1>DiskKeeps
  (* A block is asked for: its page is locked and does not have it.          *)
<1>LoadDisk. ASSUME CacheInv', NEW t \in Tasks, Load(t)
             PROVE  DiskInv'
  <2> USE <1>LoadDisk
  <2>0. CacheInv /\ DOMAIN lock = DOMAIN pages /\ t # Nobody
    BY ZenonT(30), BlockCacheAssumption DEF DiskInv, TransfersOK
  <2>1. /\ op[t].pc = "evict" /\ op'[t].pc = "load" /\ op'[t].block = op[t].block
        /\ op[t].evicted = {} /\ op'[t].evicted = {}
        /\ \A u \in Tasks : u # t => op'[u] = op[u] /\ io'[u] = io[u]
        /\ io'[t] # NoIo /\ io'[t].pc = "busy" /\ ~io'[t].write /\ io'[t].block = op[t].block
        /\ DOMAIN lock' = DOMAIN pages /\ lock[PageOf(op[t].block)] = Nobody /\ lock'[PageOf(op[t].block)] = t
        /\ \A q \in DOMAIN pages : q # PageOf(op[t].block) => lock'[q] = lock[q]
        /\ UNCHANGED <<device, pages, uses>> /\ op[t].block \notin Page(t).loaded
    BY <2>0, LoadIs
  <2>2. \A u \in Tasks : u # t => TaskOK(u)'
    BY ZenonT(30), <2>1, <1>OtherTasks
  <2>3. TaskOK(t)'
    BY ZenonT(30), <2>1 DEF TaskOK, LoadOK, Page
  <2>4. InStep => CleanOK'
    BY ZenonT(30), <2>1, <1>CleanKept
  <2>5. uses.through => WritesThrough'
    BY ZenonT(30), <2>1, <1>ThroughKept
  <2>6. OneAtATime => OneInOrder'
    BY ZenonT(30), <2>1, <1>OrderKept
  <2> QED
    BY ZenonT(30), <2>0, <2>1, <2>2, <2>3, <2>4, <2>5, <2>6, <1>DiskKeeps
  (* The block that is loaded is as on the disk.                             *)
<1>LoadedDisk. ASSUME CacheInv', NEW t \in Tasks, Loaded(t)
               PROVE  DiskInv'
  <2> USE <1>LoadedDisk
  <2>0. CacheInv /\ t # Nobody /\ \A q \in DOMAIN pages : pages[q] \in PagesAt(q)
    BY ZenonT(30), BlockCacheAssumption DEF DiskInv, CacheInv, CacheOK
  <2>1. PICK p, b : p = PageOf(op[t].block) /\ b = op[t].block
    BY ZenonT(30)
  <2>2. /\ op[t].pc = "load" /\ op'[t].pc = "evict" /\ op'[t].evicted = {}
        /\ \A u \in Tasks : u # t => op'[u] = op[u] /\ io'[u] = io[u]
        /\ io[t].pc = "done" /\ io[t].block = b /\ io'[t] = NoIo /\ io'[t].pc # "done"
        /\ DOMAIN pages' = DOMAIN pages /\ DOMAIN lock' = DOMAIN pages
        /\ lock[p] = t
        /\ \A q \in DOMAIN pages : q # p => lock'[q] = lock[q] /\ pages'[q] = pages[q]
        /\ p \in DOMAIN pages
        /\ pages'[p].dirty = pages[p].dirty
        /\ pages'[p].loaded = pages[p].loaded \cup {b}
        /\ pages'[p].data[b] = io[t].value
        /\ \A c \in BlocksOf(p) \ {b} : pages'[p].data[c] = pages[p].data[c]
        /\ UNCHANGED <<device, uses>>
    BY <2>1, LoadedDoes DEF Page
  <2>3. \A u \in Tasks : u # t => TaskOK(u)'
    BY ZenonT(30), <2>2, <1>OtherTasks
  <2>4. TaskOK(t)'
    BY ZenonT(30), <2>2 DEF TaskOK, EvictOK
  <2>5. ASSUME InStep PROVE CleanOK'
    <3>1. io[t].value = device[b]
      BY ZenonT(30), <2>2, <2>5 DEF DiskInv, CleanOK
    <3>2. pages[p].loaded \subseteq BlocksOf(p)
      BY ZenonT(30), <2>0, <2>2 DEF PagesAt
    <3>3. ASSUME NEW q \in DOMAIN pages', NEW c \in pages'[q].loaded \ pages'[q].dirty
          PROVE  \/ q \in DOMAIN pages /\ c \in pages[q].loaded \ pages[q].dirty /\ pages'[q].data[c] = pages[q].data[c]
                 \/ pages'[q].data[c] = device[c]
      BY <2>2, <3>1, <3>2
    <3>4. \A u \in Tasks : io'[u] = io[u] \/ io'[u].pc # "done"
      BY ZenonT(30), <2>2
    <3> QED
      BY ZenonT(30), <2>2, <2>5, <3>3, <3>4, <1>CleanKept
  <2>6. uses.through => WritesThrough'
    BY <2>2, <1>ThroughKept
  <2>7. OneAtATime => OneInOrder'
    BY ZenonT(30), <2>2, <1>OrderKept
  <2> QED
    BY ZenonT(30), <2>2, <2>3, <2>4, <2>5, <2>6, <2>7, <1>DiskKeeps
  (* A read, and a sync, returns.                                            *)
<1>QuietLeaves. ASSUME CacheInv', NEW t \in Tasks, op[t].pc \notin {"idle", "through"}, io[t] = NoIo, Leaves(t),
                       UNCHANGED <<device, pages, lock, io, uses>>
                PROVE  DiskInv'
  <2> USE <1>QuietLeaves
  <2>0. CacheInv /\ DOMAIN lock' = DOMAIN pages'
    BY ZenonT(30) DEF DiskInv, TransfersOK
  <2>1. op'[t] = Idle /\ op'[t].pc = "idle" /\ \A u \in Tasks : u # t => op'[u] = op[u]
    BY ZenonT(30), <2>0 DEF CacheInv, Leaves, Idle
  <2>2. \A u \in Tasks : u # t => TaskOK(u)'
    BY ZenonT(30), <2>1, <1>OtherTasks
  <2>3. TaskOK(t)'
    BY ZenonT(30), <2>1 DEF TaskOK
  <2>4. InStep => CleanOK'
    BY ZenonT(30), <1>CleanKept
  <2>5. uses.through => WritesThrough'
    BY ZenonT(30), <2>1, <1>ThroughKept
  <2>6. OneAtATime => OneInOrder'
    BY ZenonT(30), <2>1, <1>OrderEnds
  <2> QED
    BY ZenonT(30), <2>0, <2>2, <2>3, <2>4, <2>5, <2>6, <1>DiskKeeps
  (* A read or a sync returns.                                               *)
<1>ReturnsDisk. ASSUME CacheInv', NEW t \in Tasks, ReadDone(t) \/ SyncDone(t)
                PROVE  DiskInv'
  <2> USE <1>ReturnsDisk
  <2>1. /\ op[t].pc \notin {"idle", "through"} /\ io[t] = NoIo /\ Leaves(t)
        /\ UNCHANGED <<device, pages, lock, io, uses>>
    BY ZenonT(30) DEF ReadDone, SyncDone, ReadyFor, Runs, cache
  <2> QED
    BY ZenonT(30), <2>1, <1>QuietLeaves
  (* A write makes its block dirty, and with write-through asks for it to be *)
  (* written.                                                                *)
<1>StoreDisk. ASSUME CacheInv', NEW t \in Tasks, Store(t)
              PROVE  DiskInv'
  <2> USE <1>StoreDisk
  <2>0. CacheInv /\ t # Nobody /\ \A q \in DOMAIN pages : pages[q] \in PagesAt(q)
    BY BlockCacheAssumption DEF DiskInv, CacheInv, CacheOK
  <2>1. PICK p, b, v : p = PageOf(op[t].block) /\ b = op[t].block /\ v = Stored(t)
    BY ZenonT(30)
  <2>2. /\ op[t].pc = "evict" /\ p \in DOMAIN pages /\ lock[p] = Nobody
        /\ DOMAIN pages' = DOMAIN pages /\ DOMAIN lock' = DOMAIN pages
        /\ \A u \in Tasks : u # t => op'[u] = op[u] /\ io'[u] = io[u]
        /\ \A q \in DOMAIN pages : q # p => lock'[q] = lock[q] /\ pages'[q] = pages[q]
        /\ pages'[p].dirty = pages[p].dirty \cup {b}
        /\ pages'[p].loaded = pages[p].loaded \cup {b}
        /\ pages'[p].data[b] = v
        /\ \A c \in BlocksOf(p) \ {b} : pages'[p].data[c] = pages[p].data[c]
        /\ UNCHANGED <<device, uses>>
        /\ \/ /\ uses.through /\ op'[t].pc = "through" /\ op'[t].block = b /\ lock'[p] = t
              /\ io'[t] # NoIo /\ io'[t].pc = "busy" /\ io'[t].write /\ io'[t].block = b /\ io'[t].value = v
           \/ ~uses.through /\ op'[t] = Idle /\ io'[t] = NoIo
    BY ZenonT(30), <2>1, StoreDoes DEF Page
  <2>3. \A u \in Tasks : u # t => TaskOK(u)'
    BY ZenonT(30), <2>2, <1>OtherTasks
  <2>4. TaskOK(t)'
    <3>1. CASE uses.through
      <4>1. Page(t)' = pages'[p]
        BY ZenonT(30), <2>1, <2>2, <3>1 DEF Page
      <4> QED
        BY ZenonT(30), <2>1, <2>2, <3>1, <4>1 DEF TaskOK, ThroughOK
    <3>2. CASE ~uses.through
      BY <2>2, <3>2 DEF TaskOK, Idle
    <3> QED
      BY ZenonT(30), <3>1, <3>2
  <2>5. ASSUME InStep PROVE CleanOK'
    <3>1. pages[p].loaded \subseteq BlocksOf(p)
      BY ZenonT(30), <2>0, <2>2 DEF PagesAt
    <3>2. ASSUME NEW q \in DOMAIN pages', NEW c \in pages'[q].loaded \ pages'[q].dirty
          PROVE  q \in DOMAIN pages /\ c \in pages[q].loaded \ pages[q].dirty /\ pages'[q].data[c] = pages[q].data[c]
      BY ZenonT(30), <2>2, <3>1
    <3>3. \A u \in Tasks : io'[u] = io[u] \/ io'[u].pc # "done"
      BY <2>2 DEF NoIo
    <3>4. UNCHANGED device
      BY ZenonT(30), <2>2
    <3> QED
      BY ZenonT(30), <2>5, <3>2, <3>3, <3>4, <1>CleanKept
  <2>6. uses.through => WritesThrough'
    BY <2>2, <1>ThroughKept
  <2>7. ASSUME OneAtATime PROVE OneInOrder'
    <3>1. CASE uses.through
      BY ZenonT(30), <2>2, <2>7, <3>1, <1>OrderKept
    <3>2. CASE ~uses.through
      BY <2>2, <2>7, <3>2, <1>OrderEnds DEF Idle
    <3> QED
      BY ZenonT(30), <3>1, <3>2
  <2> QED
    BY ZenonT(30), <2>2, <2>3, <2>4, <2>5, <2>6, <2>7, <1>DiskKeeps
  (* A block becomes clean when what it holds has been written.              *)
<1>CleanStays. ASSUME InStep, UNCHANGED device, NEW t \in Tasks, NEW p \in DOMAIN pages, pages' = Clean(p, io[t].block),
                      io[t].pc = "done", io[t].value = pages[p].data[io[t].block],
                      \A u \in Tasks : io'[u] = io[u] \/ io'[u].pc # "done"
               PROVE  CleanOK'
  <2> USE <1>CleanStays
  <2>1. PICK b : b = io[t].block
    BY ZenonT(30)
  <2>2. /\ DOMAIN pages' = DOMAIN pages /\ \A q \in DOMAIN pages : q # p => pages'[q] = pages[q]
        /\ pages'[p].data = pages[p].data /\ pages'[p].loaded = pages[p].loaded
        /\ pages'[p].dirty = pages[p].dirty \ {b}
    BY ZenonT(30), <2>1, CleanDoes DEF DiskInv
  <2>3. pages[p].data[b] = device[b]
    BY ZenonT(30), <2>1 DEF DiskInv, CleanOK
  <2>4. ASSUME NEW q \in DOMAIN pages', NEW c \in pages'[q].loaded \ pages'[q].dirty
        PROVE  \/ q \in DOMAIN pages /\ c \in pages[q].loaded \ pages[q].dirty /\ pages'[q].data[c] = pages[q].data[c]
               \/ pages'[q].data[c] = device[c]
    BY ZenonT(30), <2>2, <2>3
  <2> QED
    BY ZenonT(30), <2>4, <1>CleanKept
  (* The block written through is clean.                                     *)
<1>WrittenThroughDisk. ASSUME CacheInv', NEW t \in Tasks, WrittenThrough(t)
                       PROVE  DiskInv'
  <2> USE <1>WrittenThroughDisk
  <2>0. CacheInv /\ t # Nobody
    BY ZenonT(30), BlockCacheAssumption DEF DiskInv
  <2>1. PICK p, b : p = PageOf(op[t].block) /\ b = op[t].block
    OBVIOUS
  <2>2. /\ op[t].pc = "through" /\ io[t].pc = "done" /\ io'[t] = NoIo /\ io'[t].pc # "done"
        /\ p \in DOMAIN pages /\ lock[p] = t /\ io[t].block = b /\ io[t].value = pages[p].data[io[t].block]
        /\ pages' = Clean(p, io[t].block)
        /\ DOMAIN lock' = DOMAIN pages /\ \A q \in DOMAIN pages : q # p => lock'[q] = lock[q]
        /\ op'[t] = Idle /\ op'[t].pc = "idle" /\ \A u \in Tasks : u # t => op'[u] = op[u] /\ io'[u] = io[u]
        /\ UNCHANGED <<device, uses>>
    BY <2>1, WrittenThroughDoes DEF Page, Idle
  <2>3. /\ DOMAIN pages' = DOMAIN pages /\ \A q \in DOMAIN pages : q # p => pages'[q] = pages[q]
        /\ pages'[p].dirty = pages[p].dirty \ {b}
    BY ZenonT(30), <2>0, <2>2, CleanDoes
  <2>4. \A u \in Tasks : u # t => TaskOK(u)'
    BY ZenonT(30), <2>2, <2>3, <1>OtherTasks
  <2>5. TaskOK(t)'
    BY ZenonT(30), <2>2 DEF TaskOK
  <2>6. ASSUME InStep PROVE CleanOK'
    <3>1. \A u \in Tasks : io'[u] = io[u] \/ io'[u].pc # "done"
      BY ZenonT(30), <2>2
    <3> QED
      BY ZenonT(30), <2>2, <2>6, <3>1, <1>CleanStays
  <2>7. ASSUME uses.through PROVE WritesThrough'
    <3>1. ASSUME NEW q \in DOMAIN pages', NEW c \in pages'[q].dirty
          PROVE  q \in DOMAIN pages /\ c \in pages[q].dirty /\ c # b
      <4>1. pages[q] \in PagesAt(q)
        BY ZenonT(30), <2>0, <2>3 DEF CacheInv, CacheOK
      <4>2. c \in pages[q].dirty
        BY ZenonT(30), <2>3
      <4>3. PageOf(c) = q
        BY ZenonT(30), <4>1, <4>2 DEF PagesAt, BlocksOf
      <4> QED
        BY ZenonT(30), <2>1, <2>3, <4>2, <4>3
    <3> QED
      BY <2>1, <2>2, <2>7, <3>1, <1>ThroughKept
  <2>8. OneAtATime => OneInOrder'
    BY ZenonT(30), <2>2, <1>OrderEnds
  <2> QED
    BY ZenonT(30), <2>2, <2>3, <2>4, <2>5, <2>6, <2>7, <2>8, <1>DiskKeeps
  (* CachedPage::sync asks for a write.                                      *)
<1>SyncWriteDisk. ASSUME CacheInv', NEW t \in Tasks, SyncWrite(t)
                  PROVE  DiskInv'
  <2> USE <1>SyncWriteDisk
  <2>0. CacheInv /\ DOMAIN lock = DOMAIN pages /\ t # Nobody /\ TaskOK(t)
    BY ZenonT(30), BlockCacheAssumption DEF DiskInv, TransfersOK
  <2>1. PICK p, b, v : p = SyncPage(t) /\ b = Least(pages[p].dirty) /\ v = pages[p].data[b]
    BY ZenonT(30)
  <2>2. /\ op[t].pc = "sync" /\ op[t].holds # {} /\ lock[p] \in {t, Nobody} /\ pages[p].dirty # {}
        /\ Submit(t, TRUE, b, v) /\ lock' = [lock EXCEPT ![p] = t] /\ UNCHANGED <<device, pages, op, uses>>
    BY ZenonT(30), <2>1 DEF SyncWrite, Runs
  <2>3. p \in DOMAIN pages /\ pages[p] \in PagesAt(p)
    BY ZenonT(30), <2>0, <2>1, <2>2, SyncPageIs
  <2>4. b \in pages[p].dirty
    BY ZenonT(30), <2>0, <2>1, <2>2, <2>3, SyncBlockIs
  <2>5. /\ io'[t] # NoIo /\ io'[t].pc = "busy" /\ io'[t].write /\ io'[t].block = b /\ io'[t].value = v
        /\ \A u \in Tasks : u # t => io'[u] = io[u]
    BY ZenonT(30), <2>0, <2>2, SubmitWrite
  <2>6. DOMAIN lock' = DOMAIN pages /\ lock'[p] = t /\ \A q \in DOMAIN pages : q # p => lock'[q] = lock[q]
    BY ZenonT(30), <2>0, <2>2, <2>3
  <2>7. \A u \in Tasks : u # t => TaskOK(u)'
    BY ZenonT(30), <2>2, <2>5, <2>6, <1>OtherTasks
  <2>8. SyncPage(t)' = p
    BY ZenonT(30), <2>1, <2>2 DEF SyncPage
  <2>9. TaskOK(t)'
    BY ZenonT(30), <2>1, <2>2, <2>4, <2>5, <2>6, <2>8 DEF TaskOK, SyncOK
  <2>10. InStep => CleanOK'
    BY ZenonT(30), <2>2, <2>5, <1>CleanKept
  <2>11. uses.through => WritesThrough'
    BY ZenonT(30), <2>2 DEF DiskInv, WritesThrough
  <2>12. OneAtATime => OneInOrder'
    BY ZenonT(30), <2>2 DEF DiskInv, OneInOrder
  <2> QED
    BY ZenonT(30), <2>2, <2>6, <2>7, <2>9, <2>10, <2>11, <2>12, <1>DiskKeeps
  (* The block that sync has written is clean.                               *)
<1>SyncWrittenDisk. ASSUME CacheInv', NEW t \in Tasks, SyncWritten(t)
                    PROVE  DiskInv'
  <2> USE <1>SyncWrittenDisk
  <2>0. CacheInv /\ DOMAIN lock = DOMAIN pages /\ t # Nobody
    BY BlockCacheAssumption DEF DiskInv, TransfersOK
  <2>1. PICK p : p = SyncPage(t)
    BY ZenonT(30)
  <2>2. /\ op[t].pc = "sync" /\ io[t].pc = "done" /\ io'[t] = NoIo /\ io'[t].pc # "done"
        /\ p \in DOMAIN pages /\ lock[p] = t /\ pages' = Clean(p, io[t].block)
        /\ io[t].value = pages[p].data[io[t].block] /\ \A u \in Tasks : u # t => io'[u] = io[u]
        /\ UNCHANGED <<device, lock, op, uses>>
    BY ZenonT(30), <2>1, SyncWrittenDoes
  <2>3. /\ DOMAIN pages' = DOMAIN pages /\ \A q \in DOMAIN pages : q # p => pages'[q] = pages[q]
        /\ pages'[p].dirty = pages[p].dirty \ {io[t].block}
    BY ZenonT(30), <2>0, <2>2, CleanDoes
  <2>4. \A u \in Tasks : u # t => TaskOK(u)'
    BY ZenonT(30), <2>2, <2>3, <1>OtherTasks
  <2>5. TaskOK(t)'
    BY ZenonT(30), <2>2 DEF TaskOK, SyncOK
  <2>6. ASSUME InStep PROVE CleanOK'
    <3>1. \A u \in Tasks : io'[u] = io[u] \/ io'[u].pc # "done"
      BY ZenonT(30), <2>2
    <3> QED
      BY ZenonT(30), <2>2, <2>6, <3>1, <1>CleanStays
  <2>7. \A q \in DOMAIN pages' : pages'[q].dirty \subseteq pages[q].dirty
    BY ZenonT(30), <2>3
  <2>8. uses.through => WritesThrough'
    BY <2>2, <2>3, <2>7 DEF DiskInv, WritesThrough
  <2>9. ASSUME OneAtATime PROVE OneInOrder'
    <3>1. \A q \in DOMAIN pages \ op[t].holds : pages[q].dirty = {}
      BY ZenonT(30), <2>2, <2>9 DEF DiskInv, OneInOrder
    <3>2. DOMAIN pages' = DOMAIN pages /\ op' = op
      BY ZenonT(30), <2>2, <2>3
    <3>3. \A q \in DOMAIN pages' \ op'[t].holds : pages'[q].dirty = {}
      BY ZenonT(30), <2>7, <3>1, <3>2
    <3> QED
      BY ZenonT(30), <2>2, <2>9, <3>3, <1>OrderKept
  <2> QED
    BY ZenonT(30), <2>0, <2>2, <2>3, <2>4, <2>5, <2>6, <2>8, <2>9, <1>DiskKeeps
  (* The next page of the snapshot.                                          *)
<1>SyncNextDisk. ASSUME CacheInv', NEW t \in Tasks, SyncNext(t)
                 PROVE  DiskInv'
  <2> USE <1>SyncNextDisk
  <2>0. CacheInv /\ DOMAIN lock = DOMAIN pages /\ t # Nobody
    BY BlockCacheAssumption DEF DiskInv, TransfersOK
  <2>1. PICK p : p = SyncPage(t)
    OBVIOUS
  <2>2. /\ op[t].pc = "sync" /\ io[t] = NoIo /\ op[t].holds # {} /\ lock[p] \in {t, Nobody} /\ pages[p].dirty = {}
        /\ lock' = [lock EXCEPT ![p] = Nobody] /\ op' = [op EXCEPT ![t].holds = @ \ {p}]
        /\ UNCHANGED <<device, pages, io, uses>>
    BY ZenonT(30), <2>1 DEF SyncNext, Runs
  <2>3. p \in DOMAIN pages /\ op[t] \in Syncs
    BY ZenonT(30), <2>0, <2>1, <2>2, SyncPageIs
  <2>4. op'[t] = [op[t] EXCEPT !.holds = op[t].holds \ {p}] /\ \A u \in Tasks : u # t => op'[u] = op[u]
    BY ZenonT(30), <2>0, <2>2 DEF CacheInv
  <2>5. op'[t].pc = "sync" /\ op'[t].holds = op[t].holds \ {p}
    BY <2>2, <2>3, <2>4 DEF Syncs
  <2>6. DOMAIN lock' = DOMAIN pages /\ \A q \in DOMAIN pages : q # p => lock'[q] = lock[q]
    BY ZenonT(30), <2>0, <2>2
  <2>7. \A u \in Tasks : u # t => TaskOK(u)'
    BY ZenonT(30), <2>2, <2>4, <2>6, <1>OtherTasks
  <2>8. TaskOK(t)'
    BY ZenonT(30), <2>2, <2>5 DEF TaskOK, SyncOK
  <2>9. InStep => CleanOK'
    BY ZenonT(30), <2>2, <1>CleanKept
  <2>10. uses.through => WritesThrough'
    BY ZenonT(30), <2>2, <2>4, <2>5, <1>ThroughKept
  <2>11. ASSUME OneAtATime PROVE OneInOrder'
    <3>1. \A q \in DOMAIN pages \ op[t].holds : pages[q].dirty = {}
      BY ZenonT(30), <2>2, <2>11 DEF DiskInv, OneInOrder
    <3>2. \A q \in DOMAIN pages' \ op'[t].holds : pages'[q].dirty = {}
      BY ZenonT(30), <2>2, <2>5, <3>1
    <3> QED
      BY ZenonT(30), <2>2, <2>5, <2>11, <3>2, <1>OrderKept
  <2> QED
    BY ZenonT(30), <2>2, <2>6, <2>7, <2>8, <2>9, <2>10, <2>11, <1>DiskKeeps
  (* In step, a block that is being written is clean nowhere, and no other   *)
  (* transfer is about it.                                                   *)
<1>WriterIs. ASSUME InStep, NEW t \in Tasks, io[t] # NoIo, io[t].write
             PROVE  /\ \A p \in DOMAIN pages : io[t].block \notin pages[p].loaded \ pages[p].dirty
                    /\ \A u \in Tasks : u # t /\ io[u] # NoIo => io[u].block # io[t].block
  <2> USE <1>WriterIs
  <2>0. CacheInv /\ TaskOK(t) /\ \A p \in DOMAIN pages : pages[p] \in PagesAt(p)
    BY ZenonT(30) DEF DiskInv, TransfersOK, CacheInv, CacheOK
  <2>1. \A u \in Tasks : io[u] # NoIo => op[u].pc # "idle"
    BY ZenonT(30) DEF DiskInv, TransfersOK, TaskOK
  <2>2. \A p \in DOMAIN pages : io[t].block \in pages[p].loaded => PageOf(io[t].block) = p
    BY ZenonT(30), <2>0 DEF PagesAt, BlocksOf
  <2>3. ASSUME uses.through, NEW u \in Tasks, io[u] # NoIo PROVE op[u].pc # "evict"
    BY ZenonT(30), <2>3 DEF DiskInv, TransfersOK, WritesThrough, TaskOK, EvictOK
  <2>4. CASE OneAtATime
    <3>1. OneOperation
      BY ZenonT(30), <2>0, <2>4, OnlyOne
    <3>2. \A u \in Tasks : u # t /\ io[u] # NoIo => io[u].block # io[t].block
      BY ZenonT(30), <2>1, <3>1 DEF OneOperation
    <3>3. CASE op[t].pc = "evict"
      <4>1. PICK pg \in op[t].evicted : io[t].block \in pg.dirty
        BY ZenonT(30), <2>0, <3>3 DEF TaskOK, EvictOK
      <4>2. PageOf(io[t].block) \notin DOMAIN pages
        BY ZenonT(30), <2>4, <3>3, <4>1 DEF DiskInv, OneInOrder
      <4> QED
        BY ZenonT(30), <2>2, <3>2, <4>2
    <3>4. CASE op[t].pc # "evict"
      BY ZenonT(30), <2>2, <3>2, <3>4, LocksBlock
    <3> QED
      BY ZenonT(30), <3>3, <3>4
  <2>5. CASE uses.through
    <3>1. lock[PageOf(io[t].block)] = t /\ io[t].block \in pages[PageOf(io[t].block)].dirty
      BY ZenonT(30), <2>3, <2>5, LocksBlock
    <3>2. \A u \in Tasks : io[u] # NoIo => lock[PageOf(io[u].block)] = u
      BY ZenonT(30), <2>3, <2>5, LocksBlock
    <3> QED
      BY ZenonT(30), <2>2, <3>1, <3>2
  <2> QED
    BY ZenonT(30), <2>4, <2>5 DEF InStep
  (* A transfer takes place.                                                 *)
<1>TransferDisk. ASSUME CacheInv', NEW t \in Tasks, Transfer(t)
                 PROVE  DiskInv'
  <2> USE <1>TransferDisk
  <2>0. CacheInv /\ DOMAIN lock = DOMAIN pages /\ TaskOK(t)
    BY DEF DiskInv, TransfersOK
  <2>1. /\ io[t] \in Transfers /\ io[t].pc = "busy"
        /\ io'[t] \in Transfers /\ io'[t].pc = "done" /\ io'[t].write = io[t].write /\ io'[t].block = io[t].block
        /\ io'[t].value = (IF io[t].write THEN io[t].value ELSE device[io[t].block])
        /\ \A u \in Tasks : u # t => io'[u] = io[u]
        /\ device' = IF io[t].write THEN [device EXCEPT ![io[t].block] = io[t].value] ELSE device
        /\ UNCHANGED <<pages, queue, lock, op, cpu, answer, uses>>
    BY ZenonT(30), <2>0, TransferIs
  <2>2. io[t] # NoIo /\ io'[t] # NoIo
    BY <2>1 DEF NoIo
  <2>3. \A u \in Tasks : u # t => TaskOK(u)'
    BY ZenonT(30), <2>1, <1>OtherTasks
  <2>4. TaskOK(t)'
    <3>1. op[t].pc = "load" => LoadOK(t)'
      BY ZenonT(30), <2>0, <2>1, <2>2 DEF TaskOK, LoadOK, Page
    <3>2. op[t].pc = "through" => ThroughOK(t)'
      BY ZenonT(30), <2>0, <2>1, <2>2 DEF TaskOK, ThroughOK, Page
    <3>3. op[t].pc = "sync" => SyncOK(t)'
      <4>1. SyncPage(t)' = SyncPage(t)
        BY ZenonT(30), <2>1 DEF SyncPage
      <4> QED
        BY ZenonT(30), <2>0, <2>1, <2>2, <4>1 DEF TaskOK, SyncOK
    <3>4. op[t].pc = "evict" => EvictOK(t)'
      BY ZenonT(30), <2>0, <2>1, <2>2 DEF TaskOK, EvictOK
    <3> QED
      BY ZenonT(30), <2>0, <2>1, <2>2, <3>1, <3>2, <3>3, <3>4 DEF TaskOK
  <2>5. ASSUME InStep PROVE CleanOK'
    <3>1. CleanOK /\ device \in [Blocks -> Contents] /\ io[t].block \in Blocks
      BY ZenonT(30), <2>0, <2>1, <2>5 DEF DiskInv, CacheInv, Transfers
    <3>2. CASE ~io[t].write
      BY ZenonT(30), <2>1, <3>1, <3>2 DEF CleanOK
    <3>3. CASE io[t].write
      <4>1. /\ \A p \in DOMAIN pages : io[t].block \notin pages[p].loaded \ pages[p].dirty
            /\ \A u \in Tasks : u # t /\ io[u] # NoIo => io[u].block # io[t].block
        BY ZenonT(30), <2>2, <2>5, <3>3, <1>WriterIs
      <4>2. device'[io[t].block] = io[t].value /\ \A b : b # io[t].block => device'[b] = device[b]
        BY <2>1, <3>1, <3>3
      <4>3. \A p \in DOMAIN pages' : \A b \in pages'[p].loaded \ pages'[p].dirty : pages'[p].data[b] = device'[b]
        BY <2>1, <3>1, <4>1, <4>2 DEF CleanOK
      <4>4. ASSUME NEW u \in Tasks, io'[u].pc = "done" PROVE io'[u].value = device'[io'[u].block]
        <5>1. CASE u = t
          BY ZenonT(30), <2>1, <3>3, <4>2, <5>1
        <5>2. CASE u # t
          <6>1. io'[u] = io[u] /\ io[u] # NoIo
            BY <2>1, <4>4, <5>2 DEF NoIo
          <6> QED
            BY <3>1, <4>1, <4>2, <4>4, <5>2, <6>1 DEF CleanOK
        <5> QED
          BY ZenonT(30), <5>1, <5>2
      <4> QED
        BY ZenonT(30), <4>3, <4>4 DEF CleanOK
    <3> QED
      BY ZenonT(30), <3>2, <3>3
  <2>6. uses.through => WritesThrough'
    BY <2>1 DEF DiskInv, WritesThrough
  <2>7. OneAtATime => OneInOrder'
    BY ZenonT(30), <2>1 DEF DiskInv, OneInOrder
  <2> QED
    BY ZenonT(30), <2>0, <2>1, <2>3, <2>4, <2>5, <2>6, <2>7, <1>DiskKeeps
<1>0. CacheInv /\ CacheInv'
  BY ZenonT(30), CacheNext DEF DiskInv
<1>1. ASSUME NEW t \in Tasks, ReadBlock(t) \/ WriteBlock(t) PROVE DiskInv'
  <2>1. uses.blocks \subseteq Blocks
    BY ZenonT(30), <1>0, BlockCacheAssumption DEF CacheInv
  <2>2. PICK kind, b, v : b \in uses.blocks /\ Access(t, kind, b, v)
    BY ZenonT(30), <1>1 DEF ReadBlock, WriteBlock
  <2> QED
    BY ZenonT(30), <1>0, <2>1, <2>2, <1>AccessDisk
<1>2. ASSUME NEW t \in Tasks, Step(t) PROVE DiskInv'
  BY ZenonT(30), <1>0, <1>2, <1>TransferDisk, <1>EvictWriteDisk, <1>EvictWrittenDisk, <1>LoadDisk, <1>LoadedDisk, <1>ReturnsDisk, <1>StoreDisk,
     <1>WrittenThroughDisk, <1>SyncWriteDisk, <1>SyncWrittenDisk, <1>SyncNextDisk DEF Step
<1>3. ASSUME UNCHANGED vars PROVE DiskInv'
  <2>1. UNCHANGED <<device, pages, queue, lock, op, io, cpu, answer, uses>>
    BY ZenonT(30), <1>3 DEF vars, cache
  <2>2. TransfersOK'
    <3>1. ASSUME NEW t \in Tasks PROVE LoadOK(t) => LoadOK(t)'
      BY <2>1 DEF LoadOK, Page
    <3>2. ASSUME NEW t \in Tasks PROVE ThroughOK(t) => ThroughOK(t)'
      BY <2>1 DEF ThroughOK, Page
    <3>3. ASSUME NEW t \in Tasks PROVE SyncOK(t) => SyncOK(t)'
      BY <2>1 DEF SyncOK, SyncPage
    <3>4. ASSUME NEW t \in Tasks PROVE EvictOK(t) => EvictOK(t)'
      BY <2>1 DEF EvictOK
    <3>5. ASSUME NEW t \in Tasks PROVE TaskOK(t) => TaskOK(t)'
      BY ZenonT(30), <2>1, <3>1, <3>2, <3>3, <3>4 DEF TaskOK
    <3> QED
      BY ZenonT(30), <2>1, <3>5 DEF DiskInv, TransfersOK
  <2>3. (InStep => CleanOK') /\ (uses.through => WritesThrough') /\ (OneAtATime => OneInOrder')
    BY <2>1 DEF DiskInv, CleanOK, WritesThrough, OneInOrder
  <2>4. (InStep' => InStep) /\ (OneAtATime' => OneAtATime)
    BY ZenonT(30), <2>1 DEF InStep, OneAtATime
  <2> QED
    BY ZenonT(30), <1>0, <2>1, <2>2, <2>3, <2>4 DEF DiskInv
<1>4. ASSUME PowerFailure PROVE DiskInv'
  <2>1. EmptyCache'
    BY ZenonT(30), <1>0, <1>4 DEF PowerFailure, CacheInv, EmptyCache
  <2> QED
    BY <2>1, EmptyDisk, PTL
<1>5. ASSUME NEW t \in Tasks, Sync(t) PROVE DiskInv'
  BY ZenonT(30), <1>0, <1>5, <1>SyncDisk
<1> QED
  BY ZenonT(30), <1>1, <1>2, <1>3, <1>4, <1>5 DEF Next, Spin

(* Nothing is cached, and nothing was written, at the start.               *)
LEMMA DiskInit == Init => DiskInv
<1> SUFFICES ASSUME Init PROVE DiskInv
  OBVIOUS
<1>1. CacheInv
  BY ZenonT(30), CacheInit
<1> QED
  BY ZenonT(30), <1>1, EmptyDisk DEF Init, EmptyCache, CacheInv
=============================================================================
