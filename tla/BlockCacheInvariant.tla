------------------------ MODULE BlockCacheInvariant -------------------------
(***************************************************************************)
(* The block cache's queue, for every capacity, page size and set of       *)
(* tasks: whatever the tasks' operations interleave to, each page of the   *)
(* cache is in the queue once, and where tasks take turns the cache keeps  *)
(* to its capacity. CacheInv is the invariant by induction; the lemmas     *)
(* before its actions are about the second-chance scan, which turns the    *)
(* queue until it finds a page nobody holds.                               *)
(***************************************************************************)
EXTENDS BlockCache, FiniteSetTheorems, TLAPS

(* The time a prover has for a step, where the step does not say.          *)
USE SMTT(30)

PageNos == {PageOf(b) : b \in Blocks}

(* The pages numbered p; those that were evicted with something to write.  *)
PagesAt(p) == {pg \in [data : [BlocksOf(p) -> Contents], loaded : SUBSET BlocksOf(p),
                       dirty : SUBSET BlocksOf(p), accessed : BOOLEAN] : pg.dirty \subseteq pg.loaded}
Evictions == {pg \in UNION {PagesAt(p) : p \in PageNos} : pg.dirty # {}}

(* The queue q has each member of Q once.                                  *)
Exactly(q, Q) ==
  /\ q \in Seq(Q)
  /\ \A i, j \in 1 .. Len(q) : q[i] = q[j] => i = j
  /\ \A p \in Q : \E i \in 1 .. Len(q) : q[i] = p

CacheOK(pg, q) ==
  /\ DOMAIN pg \subseteq PageNos
  /\ \A p \in DOMAIN pg : pg[p] \in PagesAt(p)
  /\ Exactly(q, DOMAIN pg)

(* An operation that works on pages of Q, and a transfer.                  *)
Accesses == [pc : {"evict", "load", "through"}, kind : {"read", "full", "part"}, block : Blocks,
             value : Bytes, evicted : SUBSET Evictions, holds : SUBSET PageNos]
Syncs == [pc : {"sync"}, holds : SUBSET PageNos]
OpOK(o) == o = Idle \/ o \in Syncs \/ (o \in Accesses /\ o.holds = {PageOf(o.block)})
IoOK(x) == x = NoIo \/ x \in [pc : {"busy", "done"}, write : BOOLEAN, block : Blocks, value : Contents]

(* The inductive invariant.  That the cache keeps to its capacity rests on *)
(* nobody holding a page when a page is asked for, that is on the driver   *)
(* that polls keeping the CPU.                                             *)
CacheInv ==
  /\ uses \in Repertoires
  /\ device \in [Blocks -> Contents]
  /\ CacheOK(pages, queue)
  /\ op \in [Tasks -> Accesses \cup Syncs \cup {Idle}] /\ \A t \in Tasks : OpOK(op[t])
  /\ io \in [Tasks -> [pc : {"busy", "done"}, write : BOOLEAN, block : Blocks, value : Contents] \cup {NoIo}]
  /\ cpu \in Tasks \cup {Nobody}
  /\ \A t \in Tasks : op[t].pc # "idle" => op[t].holds \subseteq DOMAIN pages
  /\ \A t \in Tasks : op[t].pc # "idle" => t \in uses.tasks /\ (uses.polling => cpu = t)
  /\ OneAtATime => Len(queue) <= uses.capacity

-----------------------------------------------------------------------------
(* The least member of a set of numbers.                                   *)
LEMMA LeastIs ==
  ASSUME NEW S, S \subseteq Nat, S # {}
  PROVE  /\ \E x \in S : \A y \in S : x <= y
         /\ Least(S) \in S /\ \A y \in S : Least(S) <= y
<1> DEFINE R == OpToRel(<, Nat)
<1>1. IsWellFoundedOn(R, Nat)
  BY ZenonT(30), NatLessThanWellFounded
<1>2. R = {ss \in Nat \X Nat : ss[1] < ss[2]}
  BY ZenonT(30) DEF R, OpToRel
<1> HIDE DEF R
<1>3. PICK i \in S : \A j \in S : ~ (<<j, i>> \in R)
  BY ZenonT(30), <1>1, WFMin
<1>4. ASSUME NEW j \in S PROVE i <= j
  <2>1. i \in Nat /\ j \in Nat /\ ~ (<<j, i>> \in R)
    BY ZenonT(30), <1>3
  <2>2. ~ (j < i)
    BY ZenonT(30), <2>1, <1>2
  <2> QED
    BY <2>1, <2>2
<1> QED
  BY ZenonT(30), <1>4 DEF Least

(* A queue that has each member of a set once is as long as the set.       *)
LEMMA ExactCount ==
  ASSUME NEW q, NEW Q, Exactly(q, Q)
  PROVE  IsFiniteSet(Q) /\ Cardinality(Q) = Len(q) /\ Len(q) \in Nat /\ Range(q) = Q
<1>1. Len(q) \in Nat /\ DOMAIN q = 1 .. Len(q) /\ q \in [1 .. Len(q) -> Q]
  BY DEF Exactly
<1>2. q \in Bijection(1 .. Len(q), Q)
  BY ZenonT(30), <1>1 DEF Exactly, Bijection, Injection, Surjection, IsInjective
<1>3. ExistsBijection(1 .. Len(q), Q)
  BY ZenonT(30), <1>2 DEF ExistsBijection
<1>4. IsFiniteSet(1 .. Len(q)) /\ Cardinality(1 .. Len(q)) = Len(q)
  BY <1>1, FS_Interval
<1>5. IsFiniteSet(Q) /\ Cardinality(Q) = Len(q)
  BY ZenonT(30), <1>3, <1>4, FS_Bijection
<1>6. Range(q) = Q
  BY <1>1 DEF Exactly, Range
<1> QED
  BY ZenonT(30), <1>1, <1>5, <1>6

(* The scan leaves the queue turned, without the page it stopped at.       *)
Turned(q, v) == SubSeq(q, v + 1, Len(q)) \o SubSeq(q, 1, v - 1)

(* Pages have numbers.                                                     *)
LEMMA NumbersAre == PageNos \subseteq Nat /\ \A b \in Blocks : PageOf(b) \in PageNos /\ b \in BlocksOf(PageOf(b))
<1>0. \A a \in Nat, n \in Nat \ {0} : a \div n \in Nat
  OBVIOUS
<1>1. \A b \in Blocks : PageOf(b) \in Nat
  BY ZenonT(30), <1>0, BlockCacheAssumption DEF PageOf
<1> QED
  BY ZenonT(30), <1>1 DEF PageNos, BlocksOf

(* What an operation in progress is.                                       *)
LEMMA OpIs ==
  ASSUME CacheInv, NEW t \in Tasks
  PROVE  /\ op[t].pc \in {"evict", "load", "through"} => op[t] \in Accesses /\ op[t].holds = {PageOf(op[t].block)}
                                                        /\ PageOf(op[t].block) \in DOMAIN pages
         /\ op[t].pc = "sync" => op[t] \in Syncs /\ op[t].holds \subseteq DOMAIN pages
         /\ op[t].pc = "idle" => op[t] = Idle
<1>1. OpOK(op[t])
  BY ZenonT(30) DEF CacheInv
<1>2. /\ op[t] = Idle => op[t].pc = "idle"
      /\ op[t] \in Syncs => op[t].pc = "sync"
      /\ op[t] \in Accesses => op[t].pc \in {"evict", "load", "through"}
  BY DEF Idle, Syncs, Accesses
<1>3. op[t].pc # "idle" => op[t].holds \subseteq DOMAIN pages
  BY ZenonT(30) DEF CacheInv
<1> QED
  BY ZenonT(30), <1>1, <1>2, <1>3 DEF OpOK

(* evict_if_needed takes out a page that nobody holds, and its entry.      *)
LEMMA EvictionIs ==
  ASSUME CacheInv, Evicts
  PROVE  /\ Victim \in DOMAIN pages /\ ~Held(Victim)
         /\ CacheOK(PagesLeft, QueueLeft)
         /\ DOMAIN PagesLeft = DOMAIN pages \ {Victim}
         /\ Len(QueueLeft) = Len(queue) - 1
  (* So it has each other page once.                                         *)
<1>TurnedExact. ASSUME NEW Q, NEW q, Exactly(q, Q), NEW v \in 1 .. Len(q)
                PROVE  Exactly(Turned(q, v), Q \ {q[v]}) /\ Len(Turned(q, v)) = Len(q) - 1
  <2>0. PICK n, s : n = Len(q) /\ s = Turned(q, v)
    BY ZenonT(30)
  <2>1. q \in Seq(Q) /\ n \in Nat /\ v \in 1 .. n /\ \A a, b \in 1 .. n : q[a] = q[b] => a = b
    BY <1>TurnedExact, <2>0 DEF Exactly
  <2>2. /\ s \in Seq(Q) /\ Len(s) = n - 1
        /\ \A k \in 1 .. n - 1 : s[k] = IF k <= n - v THEN q[v + k] ELSE q[k - (n - v)]
    <3>2. PICK a, b : a = SubSeq(q, v + 1, n) /\ b = SubSeq(q, 1, v - 1)
      BY ZenonT(30)
    <3>3. a \in Seq(Q) /\ Len(a) = n - v /\ \A j \in 1 .. n - v : a[j] = q[v + j]
      BY <2>0, <2>1, <3>2
    <3>4. b \in Seq(Q) /\ Len(b) = v - 1 /\ \A j \in 1 .. v - 1 : b[j] = q[j]
      BY <2>0, <2>1, <3>2
    <3>5. s = a \o b
      BY ZenonT(30), <2>0, <3>2 DEF Turned
    <3>6. s \in Seq(Q) /\ Len(s) = Len(a) + Len(b)
      <4>1. a \in Seq(Q) /\ b \in Seq(Q)
        BY ZenonT(30), <3>3, <3>4
      <4> QED
        BY <3>5, <4>1
    <3>7. \A k \in 1 .. n - 1 : s[k] = IF k <= n - v THEN a[k] ELSE b[k - (n - v)]
      BY <2>1, <3>3, <3>4, <3>5
    <3>8. \A k \in 1 .. n - 1 : ~(k <= n - v) => k - (n - v) \in 1 .. v - 1
      BY <2>1
    <3>9. \A k \in 1 .. n - 1 : s[k] = IF k <= n - v THEN q[v + k] ELSE q[k - (n - v)]
      BY <2>1, <3>3, <3>4, <3>7, <3>8
    <3> QED
      BY <2>1, <3>3, <3>4, <3>6, <3>9
  <2> DEFINE at(k) == IF k <= n - v THEN v + k ELSE k - (n - v)
  <2>3. \A k \in 1 .. n - 1 : at(k) \in 1 .. n /\ at(k) # v /\ s[k] = q[at(k)]
    <3> SUFFICES ASSUME NEW k \in 1 .. n - 1 PROVE at(k) \in 1 .. n /\ at(k) # v /\ s[k] = q[at(k)]
      BY ZenonT(30)
    <3>1. at(k) \in 1 .. n /\ at(k) # v
      BY <2>1
    <3>2. s[k] = q[at(k)]
      BY ZenonT(30), <2>2
    <3> QED
      BY ZenonT(30), <3>1, <3>2
  <2>4. \A k, l \in 1 .. n - 1 : at(k) = at(l) => k = l
    BY <2>1
  <2>5. \A j \in 1 .. n : j # v => \E k \in 1 .. n - 1 : at(k) = j
    <3> SUFFICES ASSUME NEW j \in 1 .. n, j # v PROVE \E k \in 1 .. n - 1 : at(k) = j
      BY ZenonT(30)
    <3>1. CASE j > v
      <4>1. j - v \in 1 .. n - 1 /\ at(j - v) = j
        BY <2>1, <3>1
      <4> QED
        BY ZenonT(30), <4>1
    <3>2. CASE j < v
      <4>1. j + (n - v) \in 1 .. n - 1 /\ at(j + (n - v)) = j
        BY <2>1, <3>2
      <4> QED
        BY ZenonT(30), <4>1
    <3> QED
      BY <2>1, <3>1, <3>2
  <2> HIDE DEF at
  <2>6. \A k, l \in 1 .. n - 1 : s[k] = s[l] => k = l
    BY ZenonT(30), <2>1, <2>3, <2>4
  <2>7. \A k \in 1 .. n - 1 : s[k] \in Q \ {q[v]}
    <3> SUFFICES ASSUME NEW k \in 1 .. n - 1 PROVE s[k] \in Q \ {q[v]}
      BY ZenonT(30)
    <3>1. s[k] = q[at(k)] /\ at(k) \in 1 .. n /\ at(k) # v
      BY ZenonT(30), <2>3
    <3>2. q[at(k)] \in Q /\ q[at(k)] # q[v]
      BY <2>0, <2>1, <3>1
    <3> QED
      BY ZenonT(30), <3>1, <3>2
  <2>8. s \in Seq(Q \ {q[v]})
    BY <2>2, <2>7
  <2>9. \A p \in Q \ {q[v]} : \E k \in 1 .. n - 1 : s[k] = p
    <3> SUFFICES ASSUME NEW p \in Q \ {q[v]} PROVE \E k \in 1 .. n - 1 : s[k] = p
      BY ZenonT(30)
    <3>1. PICK j \in 1 .. n : q[j] = p
      BY ZenonT(30), <1>TurnedExact, <2>0 DEF Exactly
    <3>2. PICK k \in 1 .. n - 1 : at(k) = j
      BY ZenonT(30), <2>5, <3>1
    <3> QED
      BY ZenonT(30), <2>3, <3>1, <3>2
  <2> QED
    BY ZenonT(30), <2>0, <2>2, <2>6, <2>8, <2>9 DEF Exactly
<1>1. PICK n : n = Len(queue)
  BY ZenonT(30)
<1>2. queue \in Seq(DOMAIN pages) /\ Exactly(queue, DOMAIN pages)
  BY ZenonT(30) DEF CacheInv, CacheOK, Exactly
<1>3. n \in Nat
  BY <1>1, <1>2
<1>4. Stops \subseteq 1 .. 2 * n /\ Stops # {} /\ Stops \subseteq Nat
  BY <1>1, <1>3 DEF Stops, Evicts
<1>5. Stop \in Stops
  <2>1. Stop = Least(Stops)
    BY ZenonT(30) DEF Stop, Least
  <2> QED
    BY ZenonT(30), <1>4, <2>1, LeastIs
<1>6. ~Held(Victim)
  BY ZenonT(30), <1>5 DEF Stops, Evictable, Victim
<1>7. PICK v : v = Place(Stop)
  BY ZenonT(30)
<1>8. Stop \in 1 .. 2 * n
  BY ZenonT(30), <1>4, <1>5
<1>9. v \in 1 .. n
  BY <1>1, <1>3, <1>7, <1>8 DEF Place
<1>10. Victim = queue[v]
  BY ZenonT(30), <1>7 DEF Victim, Scanned
<1>11. QueueLeft = Turned(queue, v)
  BY ZenonT(30), <1>7 DEF QueueLeft, Turned
<1>12. Exactly(QueueLeft, DOMAIN pages \ {Victim}) /\ Len(QueueLeft) = n - 1
  <2>1. v \in 1 .. Len(queue)
    BY ZenonT(30), <1>1, <1>9
  <2> QED
    BY ZenonT(30), <1>1, <1>2, <1>10, <1>11, <2>1, <1>TurnedExact
<1>14. Victim \in DOMAIN pages
  BY <1>1, <1>2, <1>9, <1>10
<1>15. DOMAIN PagesLeft = DOMAIN pages \ {Victim}
  BY ZenonT(30) DEF PagesLeft
<1>16. \A p \in DOMAIN PagesLeft : PagesLeft[p] \in PagesAt(p)
  <2> SUFFICES ASSUME NEW p \in DOMAIN pages \ {Victim} PROVE PagesLeft[p] \in PagesAt(p)
    BY ZenonT(30), <1>15
  <2>1. pages[p] \in PagesAt(p)
    BY ZenonT(30) DEF CacheInv, CacheOK
  <2>2. [pages[p] EXCEPT !.accessed = FALSE] \in PagesAt(p)
    BY ZenonT(30), <2>1 DEF PagesAt
  <2>3. PagesLeft[p] \in {pages[p], [pages[p] EXCEPT !.accessed = FALSE]}
    BY ZenonT(30) DEF PagesLeft
  <2> QED
    BY ZenonT(30), <2>1, <2>2, <2>3
<1>17. DOMAIN PagesLeft \subseteq PageNos
  BY ZenonT(30), <1>15 DEF CacheInv, CacheOK
<1> QED
  BY ZenonT(30), <1>1, <1>6, <1>12, <1>14, <1>15, <1>16, <1>17 DEF CacheOK

(* With one operation at a time, nobody holds a page when one begins.      *)
LEMMA AllIdle ==
  ASSUME CacheInv, NEW t \in Tasks, Enters(t), OneAtATime
  PROVE  \A u \in Tasks : op[u] = Idle
<1> SUFFICES ASSUME NEW u \in Tasks, op[u] # Idle PROVE FALSE
  BY ZenonT(30)
<1>1. op[u].pc # "idle"
  BY ZenonT(30), OpIs
<1>2. u \in uses.tasks /\ (uses.polling => cpu = u) /\ Nobody \notin Tasks
  BY ZenonT(30), <1>1, BlockCacheAssumption DEF CacheInv
<1> QED
  BY ZenonT(30), <1>2 DEF OneAtATime, Enters

Transfers == [pc : {"busy", "done"}, write : BOOLEAN, block : Blocks, value : Contents]

(* A transfer takes place.                                                 *)
LEMMA TransferIs ==
  ASSUME CacheInv, NEW t \in Tasks, Transfer(t)
  PROVE  /\ io[t] \in Transfers /\ io[t].pc = "busy" /\ io' \in [Tasks -> Transfers \cup {NoIo}]
         /\ io'[t] \in Transfers /\ io'[t].pc = "done" /\ io'[t].write = io[t].write /\ io'[t].block = io[t].block
         /\ io'[t].value = (IF io[t].write THEN io[t].value ELSE device[io[t].block])
         /\ \A u \in Tasks : u # t => io'[u] = io[u]
         /\ device' \in [Blocks -> Contents]
         /\ device' = IF io[t].write THEN [device EXCEPT ![io[t].block] = io[t].value] ELSE device
         /\ UNCHANGED <<pages, queue, lock, op, cpu, answer, uses>>
<1>1. io[t] \in Transfers /\ io[t].pc = "busy" /\ io \in [Tasks -> Transfers \cup {NoIo}]
  BY DEF CacheInv, Transfer, Transfers, NoIo
<1>2. device \in [Blocks -> Contents] /\ io[t].block \in Blocks /\ io[t].value \in Contents
  BY ZenonT(30), <1>1 DEF CacheInv, Transfers
<1>3. PICK v : v = (IF io[t].write THEN io[t].value ELSE device[io[t].block])
  BY ZenonT(30)
<1>4. v \in Contents
  BY ZenonT(30), <1>2, <1>3
<1>5. PICK x : x = [io[t] EXCEPT !.pc = "done", !.value = v]
  BY ZenonT(30)
<1>6. x \in Transfers /\ x.pc = "done" /\ x.write = io[t].write /\ x.block = io[t].block /\ x.value = v
  BY ZenonT(30), <1>1, <1>4, <1>5 DEF Transfers
<1>7. io' = [io EXCEPT ![t] = x]
  BY ZenonT(30), <1>1, <1>3, <1>5 DEF Transfer, Transfers
<1>8. io'[t] = x /\ io' \in [Tasks -> Transfers \cup {NoIo}] /\ \A u \in Tasks : u # t => io'[u] = io[u]
  BY ZenonT(30), <1>1, <1>6, <1>7
<1>9. device' = IF io[t].write THEN [device EXCEPT ![io[t].block] = io[t].value] ELSE device
  BY ZenonT(30) DEF Transfer
<1>10. device' \in [Blocks -> Contents]
  BY ZenonT(30), <1>2, <1>9
<1>11. UNCHANGED <<pages, queue, lock, op, cpu, answer, uses>>
  BY ZenonT(30) DEF Transfer, cache
<1> QED
  BY ZenonT(30), <1>1, <1>3, <1>6, <1>8, <1>9, <1>10, <1>11

(* The page an operation works on.                                         *)
LEMMA PageIs ==
  ASSUME CacheInv, NEW t \in Tasks, op[t].pc \in {"evict", "load", "through"}
  PROVE  /\ op[t] \in Accesses /\ op[t].block \in Blocks /\ OpOK(op[t])
         /\ PageOf(op[t].block) \in DOMAIN pages /\ op[t].block \in BlocksOf(PageOf(op[t].block))
         /\ Page(t) \in PagesAt(PageOf(op[t].block))
<1>1. op[t] \in Accesses /\ PageOf(op[t].block) \in DOMAIN pages
  BY ZenonT(30), OpIs
<1>2. op[t].block \in Blocks
  BY ZenonT(30), <1>1 DEF Accesses
<1>3. OpOK(op[t])
  BY ZenonT(30) DEF CacheInv
<1> QED
  BY ZenonT(30), <1>1, <1>2, <1>3, NumbersAre DEF Page, CacheInv, CacheOK

(* What the end of a load does to the page.                                *)
LEMMA LoadedIs ==
  ASSUME CacheInv, NEW t \in Tasks, Loaded(t)
  PROVE  \E pg \in PagesAt(PageOf(op[t].block)) :
           /\ pages' = [pages EXCEPT ![PageOf(op[t].block)] = pg]
           /\ pg.data = [Page(t).data EXCEPT ![op[t].block] = io[t].value]
           /\ pg.loaded = Page(t).loaded \cup {op[t].block} /\ pg.dirty = Page(t).dirty
<1>1. op[t].pc = "load" /\ io[t].value \in Contents
  BY DEF Loaded, Resumes, CacheInv, NoIo
<1>2. /\ op[t].block \in BlocksOf(PageOf(op[t].block)) /\ PageOf(op[t].block) \in DOMAIN pages
      /\ Page(t) \in PagesAt(PageOf(op[t].block))
  BY ZenonT(30), <1>1, PageIs
<1>3. PICK pg : pg = [Page(t) EXCEPT !.data[op[t].block] = io[t].value, !.loaded = @ \cup {op[t].block}]
  BY ZenonT(30)
<1>4. /\ pg \in PagesAt(PageOf(op[t].block))
      /\ pg.data = [Page(t).data EXCEPT ![op[t].block] = io[t].value]
      /\ pg.loaded = Page(t).loaded \cup {op[t].block} /\ pg.dirty = Page(t).dirty
  BY ZenonT(30), <1>1, <1>2, <1>3 DEF PagesAt
<1>5. pages' = [pages EXCEPT ![PageOf(op[t].block)] = pg]
  BY ZenonT(30), <1>2, <1>3 DEF Loaded, Page
<1> QED
  BY ZenonT(30), <1>4, <1>5

(* What a write does to the page.                                          *)
LEMMA StoreIs ==
  ASSUME CacheInv, NEW t \in Tasks, Store(t)
  PROVE  /\ Stored(t) \in Contents
         /\ \E pg \in PagesAt(PageOf(op[t].block)) :
              /\ pages' = [pages EXCEPT ![PageOf(op[t].block)] = pg]
              /\ pg.data = [Page(t).data EXCEPT ![op[t].block] = Stored(t)]
              /\ pg.loaded = Page(t).loaded \cup {op[t].block} /\ pg.dirty = Page(t).dirty \cup {op[t].block}
<1>1. op[t].pc = "evict"
  BY ZenonT(30) DEF Store, ReadyFor, Runs
<1>2. /\ op[t].block \in BlocksOf(PageOf(op[t].block)) /\ PageOf(op[t].block) \in DOMAIN pages
      /\ Page(t) \in PagesAt(PageOf(op[t].block)) /\ op[t] \in Accesses
  BY ZenonT(30), <1>1, PageIs
<1>3. op[t].value \in Bytes /\ Page(t).data[op[t].block] \in Contents
  BY ZenonT(30), <1>2 DEF PagesAt, Accesses
<1>4. Stored(t) \in Contents
  BY ZenonT(30), <1>3 DEF Stored, Contents
<1>5. PICK v : v = Stored(t)
  BY ZenonT(30)
<1>6. PICK pg : pg = [Page(t) EXCEPT !.data[op[t].block] = v, !.loaded = @ \cup {op[t].block},
                                     !.dirty = @ \cup {op[t].block}]
  BY ZenonT(30)
<1>7. /\ pg \in PagesAt(PageOf(op[t].block))
      /\ pg.data = [Page(t).data EXCEPT ![op[t].block] = v]
      /\ pg.loaded = Page(t).loaded \cup {op[t].block} /\ pg.dirty = Page(t).dirty \cup {op[t].block}
  BY ZenonT(30), <1>2, <1>4, <1>5, <1>6 DEF PagesAt
<1>8. pages' = [pages EXCEPT ![PageOf(op[t].block)] = pg]
  BY ZenonT(30), <1>2, <1>5, <1>6 DEF Store
<1> QED
  BY ZenonT(30), <1>4, <1>5, <1>7, <1>8

(* A block that is on the disk is no longer dirty.                         *)
LEMMA CleanIs ==
  ASSUME CacheInv, NEW p \in DOMAIN pages, NEW b, pages' = Clean(p, b)
  PROVE  \E pg \in PagesAt(p) : /\ pages' = [pages EXCEPT ![p] = pg]
                                /\ pg.data = pages[p].data /\ pg.loaded = pages[p].loaded
                                /\ pg.dirty = pages[p].dirty \ {b}
<1>1. pages[p] \in PagesAt(p)
  BY ZenonT(30) DEF CacheInv, CacheOK
<1>2. PICK pg : pg = [pages[p] EXCEPT !.dirty = @ \ {b}]
  BY ZenonT(30)
<1>3. pg \in PagesAt(p) /\ pg.data = pages[p].data /\ pg.loaded = pages[p].loaded /\ pg.dirty = pages[p].dirty \ {b}
  BY ZenonT(30), <1>1, <1>2 DEF PagesAt
<1>4. pages' = [pages EXCEPT ![p] = pg]
  BY ZenonT(30), <1>2 DEF Clean
<1> QED
  BY ZenonT(30), <1>3, <1>4

(* The page a sync is at, and the block it writes.                         *)
LEMMA SyncPageIs ==
  ASSUME CacheInv, NEW t \in Tasks, op[t].pc = "sync", op[t].holds # {}
  PROVE  /\ op[t] \in Syncs /\ SyncPage(t) \in op[t].holds /\ SyncPage(t) \in DOMAIN pages
         /\ pages[SyncPage(t)] \in PagesAt(SyncPage(t))
<1>1. op[t] \in Syncs /\ op[t].holds \subseteq DOMAIN pages
  BY ZenonT(30), OpIs
<1>2. op[t].holds \subseteq Nat
  BY ZenonT(30), <1>1, NumbersAre DEF CacheInv, CacheOK
<1>3. SyncPage(t) \in op[t].holds
  BY ZenonT(30), <1>2, LeastIs DEF SyncPage
<1> QED
  BY ZenonT(30), <1>1, <1>3 DEF CacheInv, CacheOK

(* The dirty block that sync writes next.                                  *)
LEMMA SyncBlockIs ==
  ASSUME CacheInv, NEW p, NEW pg \in PagesAt(p), pg.dirty # {}
  PROVE  Least(pg.dirty) \in pg.dirty /\ Least(pg.dirty) \in Blocks /\ pg.data[Least(pg.dirty)] \in Contents
<1>1. pg.dirty \subseteq BlocksOf(p) /\ pg.data \in [BlocksOf(p) -> Contents]
  BY ZenonT(30) DEF PagesAt
<1>2. BlocksOf(p) \subseteq Blocks /\ Blocks \subseteq Nat
  BY ZenonT(30), BlockCacheAssumption DEF BlocksOf
<1>3. Least(pg.dirty) \in pg.dirty
  BY ZenonT(30), <1>1, <1>2, LeastIs
<1> QED
  BY ZenonT(30), <1>1, <1>2, <1>3

(* The cache is empty.                                                     *)
EmptyCache ==
  /\ uses \in Repertoires /\ device \in [Blocks -> Contents]
  /\ pages = <<>> /\ queue = <<>> /\ lock = <<>>
  /\ op = [t \in Tasks |-> Idle] /\ io = [t \in Tasks |-> NoIo] /\ cpu = Nobody

(* As it is at the start and after a power failure.                        *)
LEMMA EmptyIs == EmptyCache => CacheInv
<1> SUFFICES ASSUME EmptyCache PROVE CacheInv
  BY ZenonT(30)
<1> USE DEF EmptyCache
<1>1. DOMAIN pages = {} /\ Len(queue) = 0
  OBVIOUS
<1>2. CacheOK(pages, queue)
  BY <1>1 DEF CacheOK, Exactly
<1>3. uses.capacity \in Nat
  BY ZenonT(30), BlockCacheAssumption
<1> QED
  BY <1>1, <1>2, <1>3 DEF CacheInv, OpOK, Idle

(* Every step keeps the invariant.                                         *)
LEMMA CacheNext ==
  ASSUME CacheInv, [Next]_vars
  PROVE  CacheInv'
  (* A step of an operation in progress leaves the queue alone.              *)
<1>StepKeeps. ASSUME NEW t \in Tasks, op[t].pc # "idle", UNCHANGED <<uses, queue>>, device' \in [Blocks -> Contents],
                     DOMAIN pages' = DOMAIN pages, \A p \in DOMAIN pages : pages'[p] \in PagesAt(p),
                     NEW o, OpOK(o), op' = [op EXCEPT ![t] = o], o.pc # "idle" => o.holds \subseteq op[t].holds,
                     NEW x, IoOK(x), io' = [io EXCEPT ![t] = x],
                     cpu' \in {t, Nobody}, (uses.polling /\ o.pc # "idle") => cpu' = t
              PROVE  CacheInv'
  <2> USE <1>StepKeeps
  <2>1. o \in Accesses \cup Syncs \cup {Idle}
    BY ZenonT(30) DEF OpOK
  <2>2. /\ op' \in [Tasks -> Accesses \cup Syncs \cup {Idle}] /\ op'[t] = o
        /\ \A u \in Tasks : u # t => op'[u] = op[u]
    BY ZenonT(30), <2>1 DEF CacheInv
  <2>3. \A u \in Tasks : OpOK(op'[u])
    BY ZenonT(30), <2>2 DEF CacheInv
  <2>4. io' \in [Tasks -> [pc : {"busy", "done"}, write : BOOLEAN, block : Blocks, value : Contents] \cup {NoIo}]
    BY ZenonT(30) DEF CacheInv, IoOK
  <2>5. CacheOK(pages', queue')
    BY ZenonT(30) DEF CacheInv, CacheOK
  <2>6. \A u \in Tasks : op'[u].pc # "idle" => op'[u].holds \subseteq DOMAIN pages'
    BY ZenonT(30), <2>2 DEF CacheInv
  <2>7. \A u \in Tasks : op'[u].pc # "idle" => u \in uses.tasks /\ (uses.polling => cpu' = u)
    <3>1. uses.polling => cpu = t
      BY ZenonT(30) DEF CacheInv
    <3>2. Nobody \notin Tasks
      BY ZenonT(30), BlockCacheAssumption
    <3> QED
      BY ZenonT(30), <2>2, <3>1, <3>2 DEF CacheInv
  <2>8. OneAtATime' => Len(queue') <= uses.capacity
    BY ZenonT(30) DEF CacheInv, OneAtATime
  <2>9. cpu' \in Tasks \cup {Nobody} /\ uses' \in Repertoires
    BY ZenonT(30) DEF CacheInv
  <2> QED
    BY ZenonT(30), <2>2, <2>3, <2>4, <2>5, <2>6, <2>7, <2>8, <2>9 DEF CacheInv, OpOK
  (* A page at the front of the queue.                                       *)
<1>FrontExact. ASSUME NEW Q, NEW q, Exactly(q, Q), NEW p, p \notin Q
               PROVE  Exactly(<<p>> \o q, Q \cup {p}) /\ Len(<<p>> \o q) = Len(q) + 1
  <2> USE <1>FrontExact
  <2>1. PICK s, n : s = <<p>> \o q /\ n = Len(q)
    BY ZenonT(30)
  <2>2. q \in Seq(Q) /\ n \in Nat
    BY <2>1 DEF Exactly
  <2>3. q \in Seq(Q \cup {p}) /\ <<p>> \in Seq(Q \cup {p})
    BY <2>2
  <2>4. s \in Seq(Q \cup {p}) /\ Len(s) = n + 1 /\ s[1] = p /\ \A i \in 1 .. n : s[i + 1] = q[i]
    BY <2>1, <2>2, <2>3
  <2>5. \A i \in 1 .. n + 1 : i = 1 \/ \E j \in 1 .. n : i = j + 1 /\ s[i] = q[j] /\ q[j] # p
    <3> SUFFICES ASSUME NEW i \in 1 .. n + 1, i # 1 PROVE \E j \in 1 .. n : i = j + 1 /\ s[i] = q[j] /\ q[j] # p
      BY ZenonT(30)
    <3>1. i - 1 \in 1 .. n /\ i = (i - 1) + 1
      BY <2>2
    <3>2. s[i] = q[i - 1] /\ q[i - 1] \in Q
      BY <2>1, <2>2, <2>4, <3>1
    <3> QED
      BY ZenonT(30), <3>1, <3>2
  <2>6. \A i, j \in 1 .. n : q[i] = q[j] => i = j
    BY ZenonT(30), <2>1 DEF Exactly
  <2>7. \A i, j \in 1 .. n + 1 : s[i] = s[j] => i = j
    BY <2>4, <2>5, <2>6
  <2>8. \A r \in Q \cup {p} : \E i \in 1 .. n + 1 : s[i] = r
    <3> SUFFICES ASSUME NEW r \in Q \cup {p} PROVE \E i \in 1 .. n + 1 : s[i] = r
      BY ZenonT(30)
    <3>1. CASE r = p
      BY <2>2, <2>4, <3>1
    <3>2. CASE r # p
      <4>1. PICK j \in 1 .. n : q[j] = r
        BY ZenonT(30), <2>1, <3>2 DEF Exactly
      <4>2. j + 1 \in 1 .. n + 1 /\ s[j + 1] = r
        BY <2>2, <2>4, <4>1
      <4> QED
        BY ZenonT(30), <4>2
    <3> QED
      BY ZenonT(30), <3>1, <3>2
  <2> QED
    BY ZenonT(30), <2>1, <2>4, <2>7, <2>8 DEF Exactly
  (* The page of block b is in the cache, once, and so are those that tasks  *)
  (* hold; the cache keeps to its capacity if there is one task at a time.   *)
<1>GetPageKeeps. ASSUME NEW t \in Tasks, Enters(t), NEW p \in PageNos, GetPage(p)
                 PROVE  /\ CacheOK(pages', queue') /\ p \in DOMAIN pages'
                        /\ \A q \in DOMAIN pages : Held(q) => q \in DOMAIN pages'
                        /\ OneAtATime => Len(queue') <= uses.capacity
  <2> USE <1>GetPageKeeps
  <2>0. CacheOK(pages, queue) /\ Exactly(queue, DOMAIN pages)
    BY ZenonT(30) DEF CacheInv, CacheOK
  <2>1. CASE p \in DOMAIN pages
    <3>1. pages' = [pages EXCEPT ![p].accessed = TRUE] /\ queue' = queue
      BY ZenonT(30), <2>1 DEF GetPage
    <3>2. \A q \in DOMAIN pages : pages[q] \in PagesAt(q)
      BY ZenonT(30) DEF CacheInv, CacheOK
    <3>3. [pages[p] EXCEPT !.accessed = TRUE] \in PagesAt(p)
      BY ZenonT(30), <2>1, <3>2 DEF PagesAt
    <3>4. DOMAIN pages' = DOMAIN pages /\ \A q \in DOMAIN pages : pages'[q] \in PagesAt(q)
      BY ZenonT(30), <3>1, <3>2, <3>3
    <3> QED
      BY ZenonT(30), <2>0, <2>1, <3>1, <3>4 DEF CacheOK, CacheInv
  <2>2. CASE p \notin DOMAIN pages
    <3>1. PICK ps, qs : ps = (IF Evicts THEN PagesLeft ELSE pages) /\ qs = (IF Evicts THEN QueueLeft ELSE queue)
      BY ZenonT(30)
    <3>2. pages' = With(ps, p, NewEmpty(p)) /\ queue' = <<p>> \o qs
      BY ZenonT(30), <2>2, <3>1 DEF GetPage
    <3>3. /\ CacheOK(ps, qs) /\ DOMAIN ps \subseteq DOMAIN pages
          /\ \A q \in DOMAIN pages : Held(q) => q \in DOMAIN ps
          /\ Len(qs) = IF Evicts THEN Len(queue) - 1 ELSE Len(queue)
      <4>1. CASE Evicts
        BY ZenonT(30), <3>1, <4>1, EvictionIs
      <4>2. CASE ~Evicts
        BY ZenonT(30), <2>0, <3>1, <4>2
      <4> QED
        BY ZenonT(30), <4>1, <4>2
    <3>4. Exactly(qs, DOMAIN ps) /\ p \notin DOMAIN ps
      BY ZenonT(30), <2>2, <3>3 DEF CacheOK
    <3>5. Exactly(queue', DOMAIN ps \cup {p}) /\ Len(queue') = Len(qs) + 1
      BY ZenonT(30), <3>2, <3>4, <1>FrontExact
    <3>6. NewEmpty(p) \in PagesAt(p)
      BY ZenonT(30) DEF NewEmpty, PagesAt, Contents, Zero, Bytes
    <3>7. DOMAIN pages' = DOMAIN ps \cup {p} /\ \A q \in DOMAIN pages' : pages'[q] \in PagesAt(q)
      BY ZenonT(30), <3>2, <3>3, <3>6 DEF With, CacheOK
    <3>8. CacheOK(pages', queue')
      BY ZenonT(30), <3>3, <3>5, <3>7 DEF CacheOK
    <3>9. ASSUME OneAtATime PROVE Len(queue') <= uses.capacity
      <4>1. Cardinality(DOMAIN pages) = Len(queue) /\ Len(queue) \in Nat
        BY ZenonT(30), <2>0, ExactCount
      <4>2. uses.capacity \in Nat \ {0} /\ Len(queue) <= uses.capacity
        BY ZenonT(30), <3>9, BlockCacheAssumption DEF CacheInv
      <4>3. ASSUME Len(queue) >= uses.capacity PROVE Evicts
        <5>2. Len(queue) + 1 \in 1 .. 2 * Len(queue) /\ Len(queue) + 1 > Len(queue)
          BY <4>1, <4>2, <4>3
        <5>3. \A q : ~Held(q)
          BY <3>9, AllIdle DEF Held, Idle
        <5>4. Len(queue) + 1 \in Stops
          BY ZenonT(30), <5>2, <5>3 DEF Stops, Evictable
        <5> QED
          BY ZenonT(30), <4>1, <4>3, <5>4 DEF Evicts
      <4> QED
        BY <3>3, <3>5, <4>1, <4>2, <4>3
    <3> QED
      BY ZenonT(30), <3>3, <3>7, <3>8, <3>9
  <2> QED
    BY ZenonT(30), <2>1, <2>2
  (* read_block and write_block begin.                                       *)
<1>AccessKeeps. ASSUME NEW t \in Tasks, NEW kind \in {"read", "full", "part"}, NEW b \in Blocks, NEW v \in Bytes,
                       Access(t, kind, b, v)
                PROVE  CacheInv'
  <2> USE <1>AccessKeeps
  <2>1. PICK p : p = PageOf(b)
    BY ZenonT(30)
  <2>2. Enters(t) /\ p \in PageNos /\ GetPage(p) /\ UNCHANGED <<device, io, uses>> /\ cpu' = t
    BY ZenonT(30), <2>1, NumbersAre DEF Access, Enters
  <2>3. /\ CacheOK(pages', queue') /\ p \in DOMAIN pages'
        /\ \A q \in DOMAIN pages : Held(q) => q \in DOMAIN pages'
        /\ OneAtATime => Len(queue') <= uses.capacity
    BY ZenonT(30), <2>2, <1>GetPageKeeps
  <2>4. PICK e : e = Evicted(p)
    BY ZenonT(30)
  <2>5. e \in SUBSET Evictions
    <3>1. ASSUME Evicts, pages[Victim].dirty # {} PROVE pages[Victim] \in Evictions
      <4>1. Victim \in DOMAIN pages
        BY ZenonT(30), <3>1, EvictionIs
      <4>2. Victim \in PageNos /\ pages[Victim] \in PagesAt(Victim)
        BY ZenonT(30), <4>1 DEF CacheInv, CacheOK
      <4> QED
        BY ZenonT(30), <3>1, <4>2 DEF Evictions
    <3> QED
      BY ZenonT(30), <2>4, <3>1 DEF Evicted
  <2>6. PICK o : o = [pc |-> "evict", kind |-> kind, block |-> b, value |-> v, evicted |-> e, holds |-> {p}]
    BY ZenonT(30)
  <2>7. op' = [op EXCEPT ![t] = o] /\ o \in Accesses /\ OpOK(o) /\ o.pc = "evict" /\ o.holds = {p}
    BY ZenonT(30), <2>1, <2>2, <2>4, <2>5, <2>6 DEF Access, Accesses, OpOK
  <2>8. /\ op' \in [Tasks -> Accesses \cup Syncs \cup {Idle}] /\ op'[t] = o
        /\ \A u \in Tasks : u # t => op'[u] = op[u]
    BY ZenonT(30), <2>7 DEF CacheInv
  <2>9. \A u \in Tasks : OpOK(op'[u])
    BY ZenonT(30), <2>7, <2>8 DEF CacheInv
  <2>10. ASSUME NEW u \in Tasks, op'[u].pc # "idle" PROVE op'[u].holds \subseteq DOMAIN pages'
    <3>1. CASE u = t
      BY ZenonT(30), <2>3, <2>7, <2>8, <3>1
    <3>2. CASE u # t
      <4>1. op[u].pc # "idle" /\ op[u].holds \subseteq DOMAIN pages
        BY ZenonT(30), <2>8, <2>10, <3>2 DEF CacheInv
      <4> QED
        BY ZenonT(30), <2>3, <2>8, <3>2, <4>1 DEF Held
    <3> QED
      BY ZenonT(30), <3>1, <3>2
  <2>11. ASSUME NEW u \in Tasks, op'[u].pc # "idle" PROVE u \in uses.tasks /\ (uses.polling => cpu' = u)
    <3>1. cpu = Nobody /\ Nobody \notin Tasks /\ t \in uses.tasks
      BY ZenonT(30), <2>2, BlockCacheAssumption DEF Enters
    <3> QED
      BY ZenonT(30), <2>2, <2>8, <2>11, <3>1 DEF CacheInv
  <2> QED
    BY ZenonT(30), <2>2, <2>3, <2>8, <2>9, <2>10, <2>11 DEF CacheInv, OneAtATime, OpOK
  (* A sync begins.                                                          *)
<1>SyncKeeps. ASSUME NEW t \in Tasks, Sync(t)
              PROVE  CacheInv'
  <2> USE <1>SyncKeeps
  <2>1. PICK o : o = [pc |-> "sync", holds |-> DOMAIN pages]
    BY ZenonT(30)
  <2>2. /\ op' = [op EXCEPT ![t] = o] /\ o \in Syncs /\ OpOK(o) /\ o.pc = "sync" /\ o.holds = DOMAIN pages
        /\ UNCHANGED <<device, pages, queue, io, uses>> /\ cpu = Nobody /\ cpu' = t /\ t \in uses.tasks
    BY ZenonT(30), <2>1 DEF Sync, Enters, Syncs, OpOK, CacheInv, CacheOK, cache
  <2>3. /\ op' \in [Tasks -> Accesses \cup Syncs \cup {Idle}] /\ op'[t] = o
        /\ \A u \in Tasks : u # t => op'[u] = op[u]
    BY ZenonT(30), <2>2 DEF CacheInv
  <2>4. \A u \in Tasks : OpOK(op'[u])
    BY ZenonT(30), <2>2, <2>3 DEF CacheInv
  <2>5. \A u \in Tasks : op'[u].pc # "idle" => op'[u].holds \subseteq DOMAIN pages'
    BY ZenonT(30), <2>2, <2>3 DEF CacheInv
  <2>6. \A u \in Tasks : op'[u].pc # "idle" => u \in uses.tasks /\ (uses.polling => cpu' = u)
    BY ZenonT(30), <2>2, <2>3, BlockCacheAssumption DEF CacheInv
  <2> QED
    BY ZenonT(30), <2>2, <2>3, <2>4, <2>5, <2>6 DEF CacheInv, OneAtATime, OpOK
  (* The device moves a block of a transfer that was asked for.              *)
<1>TransferKeeps. ASSUME NEW t \in Tasks, Transfer(t)
                  PROVE  CacheInv'
  <2>1. /\ io' \in [Tasks -> Transfers \cup {NoIo}] /\ device' \in [Blocks -> Contents]
        /\ UNCHANGED <<pages, queue, op, cpu, uses>>
    BY ZenonT(30), <1>TransferKeeps, TransferIs
  <2> QED
    BY ZenonT(30), <2>1 DEF CacheInv, OneAtATime, OpOK, Transfers
  (* What a step that only asks for a transfer, or ends one, does to the     *)
  (* rest.                                                                   *)
<1>SubmitKeeps. ASSUME NEW t \in Tasks, op[t].pc # "idle", UNCHANGED <<uses, queue, device>>,
                       DOMAIN pages' = DOMAIN pages, \A p \in DOMAIN pages : pages'[p] \in PagesAt(p),
                       NEW o, OpOK(o), op' = [op EXCEPT ![t] = o], o.pc # "idle" => o.holds \subseteq op[t].holds,
                       NEW w \in BOOLEAN, NEW b \in Blocks, NEW v \in Contents, Submit(t, w, b, v)
                PROVE  CacheInv'
  <2> USE <1>SubmitKeeps
  <2>1. PICK x : x = [pc |-> "busy", write |-> w, block |-> b, value |-> v]
    BY ZenonT(30)
  <2>2. IoOK(x) /\ io' = [io EXCEPT ![t] = x] /\ cpu' \in {t, Nobody} /\ (uses.polling => cpu' = t)
    BY ZenonT(30), <2>1 DEF IoOK, Submit
  <2>3. device' \in [Blocks -> Contents]
    BY ZenonT(30) DEF CacheInv
  <2> QED
    BY ZenonT(30), <2>2, <2>3, <1>StepKeeps
  (* A step of an operation that leaves the queue and the device alone,      *)
  (* changes blocks within pages, and holds no page that it did not hold.    *)
<1>QuietKeeps. ASSUME NEW t \in Tasks, op[t].pc # "idle", UNCHANGED <<uses, queue, device>>,
                      DOMAIN pages' = DOMAIN pages, \A p \in DOMAIN pages : pages'[p] \in PagesAt(p),
                      NEW o, OpOK(o), op' = [op EXCEPT ![t] = o], o.pc # "idle" => o.holds \subseteq op[t].holds,
                      io' = io \/ io' = [io EXCEPT ![t] = NoIo],
                      cpu' \in {t, Nobody}, o.pc # "idle" => cpu' = t
               PROVE  CacheInv'
  <2> USE <1>QuietKeeps
  <2>1. PICK x : IoOK(x) /\ io' = [io EXCEPT ![t] = x]
    <3>1. IoOK(io[t]) /\ IoOK(NoIo) /\ io = [io EXCEPT ![t] = io[t]]
      BY ZenonT(30) DEF CacheInv, IoOK
    <3> QED
      BY ZenonT(30), <3>1
  <2>2. device' \in [Blocks -> Contents]
    BY ZenonT(30) DEF CacheInv
  <2> QED
    BY ZenonT(30), <2>1, <2>2, <1>StepKeeps
  (* Pages that stay as they are, or one page that changes.                  *)
<1>PagesSame. ASSUME pages' = pages
              PROVE  DOMAIN pages' = DOMAIN pages /\ \A p \in DOMAIN pages : pages'[p] \in PagesAt(p)
  BY ZenonT(30), <1>PagesSame DEF CacheInv, CacheOK
  (* A change to one page of the cache leaves pages of the right shape.      *)
<1>OnePage. ASSUME NEW p \in DOMAIN pages, NEW pg \in PagesAt(p), pages' = [pages EXCEPT ![p] = pg]
            PROVE  DOMAIN pages' = DOMAIN pages /\ \A q \in DOMAIN pages : pages'[q] \in PagesAt(q)
  BY ZenonT(30), <1>OnePage DEF CacheInv, CacheOK
  (* A step that leaves the operations alone, as an update of t's.           *)
<1>OpSame. ASSUME NEW t \in Tasks, op' = op
           PROVE  OpOK(op[t]) /\ op' = [op EXCEPT ![t] = op[t]]
  BY ZenonT(30), <1>OpSame DEF CacheInv
  (* get_page asks for the next dirty block of the evicted page to be        *)
  (* written.                                                                *)
<1>EvictWriteKeeps. ASSUME NEW t \in Tasks, EvictWrite(t)
                    PROVE  CacheInv'
  <2> USE <1>EvictWriteKeeps
  <2>1. op[t].pc = "evict" /\ UNCHANGED <<device, pages, queue, lock, op, uses>>
    BY ZenonT(30) DEF EvictWrite, Runs, cache
  <2>2. op[t] \in Accesses
    BY ZenonT(30), <2>1, PageIs
  <2>3. PICK page \in op[t].evicted : Submit(t, TRUE, Least(page.dirty), page.data[Least(page.dirty)])
    BY ZenonT(30) DEF EvictWrite
  <2>a. PICK b : b = Least(page.dirty)
    BY ZenonT(30)
  <2>4. page \in Evictions
    BY ZenonT(30), <2>2 DEF Accesses
  <2>5. PICK p \in PageNos : page \in PagesAt(p)
    BY ZenonT(30), <2>4 DEF Evictions
  <2>6. page.dirty # {} /\ page.dirty \subseteq BlocksOf(p) /\ page.data \in [BlocksOf(p) -> Contents]
    BY ZenonT(30), <2>4, <2>5 DEF Evictions, PagesAt
  <2>7. BlocksOf(p) \subseteq Blocks /\ Blocks \subseteq Nat
    BY ZenonT(30), BlockCacheAssumption DEF BlocksOf
  <2>8. b \in page.dirty
    BY ZenonT(30), <2>a, <2>6, <2>7, LeastIs
  <2>9. b \in Blocks /\ page.data[b] \in Contents
    BY ZenonT(30), <2>6, <2>7, <2>8
  <2>10. OpOK(op[t]) /\ op' = [op EXCEPT ![t] = op[t]]
    BY ZenonT(30), <2>1, <1>OpSame
  <2> QED
    BY ZenonT(30), <2>1, <2>3, <2>a, <2>9, <2>10, <1>PagesSame, <1>SubmitKeeps
  (* The block is written: it is dirty in the evicted page no more.          *)
<1>EvictWrittenKeeps. ASSUME NEW t \in Tasks, EvictWritten(t)
                      PROVE  CacheInv'
  <2> USE <1>EvictWrittenKeeps
  <2>1. op[t].pc = "evict" /\ UNCHANGED <<device, pages, queue, lock, uses>> /\ cpu' = t /\ io' = [io EXCEPT ![t] = NoIo]
    BY ZenonT(30) DEF EvictWritten, Resumes, cache
  <2>2. op[t] \in Accesses /\ OpOK(op[t]) /\ op[t].holds = {PageOf(op[t].block)}
    BY ZenonT(30), <2>1, PageIs, OpIs
  <2>3. PICK e : e = {page \in {[pg EXCEPT !.dirty = @ \ {io[t].block}] : pg \in op[t].evicted} : page.dirty # {}}
    BY ZenonT(30)
  <2>4. e \in SUBSET Evictions
    <3> SUFFICES ASSUME NEW page \in e PROVE page \in Evictions
      BY ZenonT(30)
    <3>1. PICK pg \in op[t].evicted : page = [pg EXCEPT !.dirty = @ \ {io[t].block}] /\ page.dirty # {}
      BY ZenonT(30), <2>3
    <3>2. pg \in Evictions
      BY ZenonT(30), <2>2, <3>1 DEF Accesses
    <3>3. PICK p \in PageNos : pg \in PagesAt(p)
      BY ZenonT(30), <3>2 DEF Evictions
    <3>4. page \in PagesAt(p)
      BY ZenonT(30), <3>1, <3>3 DEF PagesAt
    <3> QED
      BY ZenonT(30), <3>1, <3>4 DEF Evictions
  <2>5. PICK o : o = [op[t] EXCEPT !.evicted = e]
    BY ZenonT(30)
  <2>6. op' = [op EXCEPT ![t] = o]
    BY ZenonT(30), <2>3, <2>5 DEF EvictWritten, CacheInv
  <2>7. o \in Accesses /\ o.holds = op[t].holds /\ o.block = op[t].block /\ o.pc = "evict"
    BY ZenonT(30), <2>1, <2>2, <2>4, <2>5 DEF Accesses
  <2>8. OpOK(o)
    BY ZenonT(30), <2>2, <2>7 DEF OpOK
  <2> QED
    BY ZenonT(30), <2>1, <2>6, <2>7, <2>8, <1>PagesSame, <1>QuietKeeps
  (* A block that is not in its page is asked for.                           *)
<1>LoadKeeps. ASSUME NEW t \in Tasks, Load(t)
              PROVE  CacheInv'
  <2> USE <1>LoadKeeps
  <2>1. op[t].pc = "evict" /\ UNCHANGED <<device, pages, queue, uses>> /\ Submit(t, FALSE, op[t].block, Zero)
    BY ZenonT(30) DEF Load, ReadyFor, Runs
  <2>2. op[t] \in Accesses /\ op[t].block \in Blocks /\ op[t].holds = {PageOf(op[t].block)}
    BY ZenonT(30), <2>1, PageIs, OpIs
  <2>3. PICK o : o = [op[t] EXCEPT !.pc = "load"]
    BY ZenonT(30)
  <2>4. op' = [op EXCEPT ![t] = o]
    BY ZenonT(30), <2>3 DEF Load, CacheInv
  <2>5. OpOK(o) /\ o.holds = op[t].holds
    BY ZenonT(30), <2>2, <2>3 DEF Accesses, OpOK
  <2>6. Zero \in Contents
    BY ZenonT(30) DEF Zero, Contents, Bytes
  <2> QED
    BY ZenonT(30), <2>1, <2>2, <2>4, <2>5, <2>6, <1>PagesSame, <1>SubmitKeeps
  (* The block is loaded, and read or overwritten in part.                   *)
<1>LoadedKeeps. ASSUME NEW t \in Tasks, Loaded(t)
                PROVE  CacheInv'
  <2> USE <1>LoadedKeeps
  <2>1. op[t].pc = "load" /\ UNCHANGED <<device, queue, uses>> /\ io' = [io EXCEPT ![t] = NoIo] /\ cpu' = t
    BY ZenonT(30) DEF Loaded, Resumes
  <2>2. op[t] \in Accesses /\ PageOf(op[t].block) \in DOMAIN pages /\ op[t].holds = {PageOf(op[t].block)}
    BY ZenonT(30), <2>1, OpIs
  <2>3. PICK pg \in PagesAt(PageOf(op[t].block)) : pages' = [pages EXCEPT ![PageOf(op[t].block)] = pg]
    BY ZenonT(30), LoadedIs
  <2>4. DOMAIN pages' = DOMAIN pages /\ \A p \in DOMAIN pages : pages'[p] \in PagesAt(p)
    BY ZenonT(30), <2>2, <2>3, <1>OnePage
  <2>5. PICK o : o = [op[t] EXCEPT !.pc = "evict"]
    BY ZenonT(30)
  <2>6. op' = [op EXCEPT ![t] = o]
    BY ZenonT(30), <2>5 DEF Loaded, CacheInv
  <2>7. OpOK(o) /\ o.holds = op[t].holds
    BY ZenonT(30), <2>2, <2>5 DEF Accesses, OpOK
  <2> QED
    BY ZenonT(30), <2>1, <2>4, <2>6, <2>7, <1>QuietKeeps
  (* An operation ends.                                                      *)
<1>LeavesKeeps. ASSUME NEW t \in Tasks, op[t].pc # "idle", UNCHANGED <<uses, queue, device>>,
                       DOMAIN pages' = DOMAIN pages, \A p \in DOMAIN pages : pages'[p] \in PagesAt(p),
                       Leaves(t), io' = io \/ io' = [io EXCEPT ![t] = NoIo]
                PROVE  CacheInv'
  <2> USE <1>LeavesKeeps
  <2>1. OpOK(Idle) /\ Idle.pc = "idle"
    BY ZenonT(30) DEF OpOK, Idle
  <2>2. op' = [op EXCEPT ![t] = Idle] /\ cpu' \in {t, Nobody}
    BY ZenonT(30) DEF Leaves
  <2> QED
    BY ZenonT(30), <2>1, <2>2, <1>QuietKeeps
  (* A read returns what the page holds.                                     *)
<1>ReadDoneKeeps. ASSUME NEW t \in Tasks, ReadDone(t)
                  PROVE  CacheInv'
  <2> USE <1>ReadDoneKeeps
  <2>1. op[t].pc # "idle" /\ UNCHANGED <<device, pages, queue, io, uses>> /\ Leaves(t)
    BY ZenonT(30) DEF ReadDone, ReadyFor, Runs, cache
  <2> QED
    BY ZenonT(30), <2>1, <1>PagesSame, <1>LeavesKeeps
  (* A write changes the page, and returns or writes through.                *)
<1>StoreKeeps. ASSUME NEW t \in Tasks, Store(t)
               PROVE  CacheInv'
  <2> USE <1>StoreKeeps
  <2>1. op[t].pc = "evict" /\ UNCHANGED <<device, queue, uses>>
    BY ZenonT(30) DEF Store, ReadyFor, Runs
  <2>2. /\ op[t] \in Accesses /\ PageOf(op[t].block) \in DOMAIN pages /\ op[t].holds = {PageOf(op[t].block)}
        /\ op[t].block \in Blocks
    BY ZenonT(30), <2>1, PageIs, OpIs
  <2>3. PICK pg \in PagesAt(PageOf(op[t].block)) : pages' = [pages EXCEPT ![PageOf(op[t].block)] = pg]
    BY ZenonT(30), StoreIs
  <2>4. DOMAIN pages' = DOMAIN pages /\ \A p \in DOMAIN pages : pages'[p] \in PagesAt(p)
    BY ZenonT(30), <2>2, <2>3, <1>OnePage
  <2>5. CASE uses.through
    <3>1. Submit(t, TRUE, op[t].block, Stored(t)) /\ Stored(t) \in Contents
      BY ZenonT(30), <2>5, StoreIs DEF Store, ThroughValue
    <3>2. PICK o : o = [op[t] EXCEPT !.pc = "through"]
      BY ZenonT(30)
    <3>3. op' = [op EXCEPT ![t] = o]
      BY ZenonT(30), <2>5, <3>2 DEF Store, CacheInv
    <3>4. OpOK(o) /\ o.holds = op[t].holds
      BY ZenonT(30), <2>2, <3>2 DEF Accesses, OpOK
    <3> QED
      BY ZenonT(30), <2>1, <2>2, <2>4, <3>1, <3>3, <3>4, <1>SubmitKeeps
  <2>6. CASE ~uses.through
    <3>1. Leaves(t) /\ io' = io
      BY ZenonT(30), <2>6 DEF Store
    <3> QED
      BY ZenonT(30), <2>1, <2>4, <3>1, <1>LeavesKeeps
  <2> QED
    BY ZenonT(30), <2>5, <2>6
  (* The block is written through.                                           *)
<1>WrittenThroughKeeps. ASSUME NEW t \in Tasks, WrittenThrough(t)
                        PROVE  CacheInv'
  <2> USE <1>WrittenThroughKeeps
  <2>1. /\ op[t].pc = "through" /\ UNCHANGED <<device, queue, uses>> /\ io' = [io EXCEPT ![t] = NoIo] /\ Leaves(t)
        /\ pages' = Clean(PageOf(op[t].block), op[t].block)
    BY ZenonT(30) DEF WrittenThrough, Resumes
  <2>2. PageOf(op[t].block) \in DOMAIN pages
    BY ZenonT(30), <2>1, OpIs
  <2>3. PICK pg \in PagesAt(PageOf(op[t].block)) : pages' = [pages EXCEPT ![PageOf(op[t].block)] = pg]
    BY ZenonT(30), <2>1, <2>2, CleanIs
  <2>4. DOMAIN pages' = DOMAIN pages /\ \A p \in DOMAIN pages : pages'[p] \in PagesAt(p)
    BY ZenonT(30), <2>2, <2>3, <1>OnePage
  <2> QED
    BY ZenonT(30), <2>1, <2>4, <1>LeavesKeeps
  (* sync asks for a dirty block to be written.                              *)
<1>SyncWriteKeeps. ASSUME NEW t \in Tasks, SyncWrite(t)
                   PROVE  CacheInv'
  <2> USE <1>SyncWriteKeeps
  <2>1. op[t].pc = "sync" /\ op[t].holds # {} /\ UNCHANGED <<device, pages, queue, op, uses>>
    BY ZenonT(30) DEF SyncWrite, Runs
  <2>2. PICK p, b : p = SyncPage(t) /\ b = Least(pages[p].dirty)
    BY ZenonT(30)
  <2>3. pages[p].dirty # {} /\ Submit(t, TRUE, b, pages[p].data[b])
    BY ZenonT(30), <2>2 DEF SyncWrite
  <2>4. b \in Blocks /\ pages[p].data[b] \in Contents
    BY ZenonT(30), <2>1, <2>2, <2>3, SyncPageIs, SyncBlockIs
  <2>5. OpOK(op[t]) /\ op' = [op EXCEPT ![t] = op[t]]
    BY ZenonT(30), <2>1, <1>OpSame
  <2> QED
    BY ZenonT(30), <2>1, <2>3, <2>4, <2>5, <1>PagesSame, <1>SubmitKeeps
  (* The block is written, and clean.                                        *)
<1>SyncWrittenKeeps. ASSUME NEW t \in Tasks, SyncWritten(t)
                     PROVE  CacheInv'
  <2> USE <1>SyncWrittenKeeps
  <2>1. /\ op[t].pc = "sync" /\ UNCHANGED <<device, queue, op, uses>> /\ io' = [io EXCEPT ![t] = NoIo] /\ cpu' = t
        /\ pages' = Clean(SyncPage(t), io[t].block)
    BY ZenonT(30) DEF SyncWritten, Resumes
  <2>4. DOMAIN pages' = DOMAIN pages /\ \A p \in DOMAIN pages : pages'[p] \in PagesAt(p)
    <3>1. CASE SyncPage(t) \in DOMAIN pages
      <4>1. PICK pg \in PagesAt(SyncPage(t)) : pages' = [pages EXCEPT ![SyncPage(t)] = pg]
        BY ZenonT(30), <2>1, <3>1, CleanIs
      <4> QED
        BY ZenonT(30), <3>1, <4>1, <1>OnePage
    <3>2. CASE SyncPage(t) \notin DOMAIN pages
      <4>1. DOMAIN pages' = DOMAIN pages /\ \A p \in DOMAIN pages : pages'[p] = pages[p]
        BY ZenonT(30), <2>1, <3>2 DEF Clean
      <4> QED
        BY ZenonT(30), <4>1 DEF CacheInv, CacheOK
    <3> QED
      BY ZenonT(30), <3>1, <3>2
  <2>5. OpOK(op[t]) /\ op' = [op EXCEPT ![t] = op[t]]
    BY ZenonT(30), <2>1, <1>OpSame
  <2> QED
    BY ZenonT(30), <2>1, <2>4, <2>5, <1>QuietKeeps
  (* sync turns to the next page of its list.                                *)
<1>SyncNextKeeps. ASSUME NEW t \in Tasks, SyncNext(t)
                  PROVE  CacheInv'
  <2> USE <1>SyncNextKeeps
  <2>1. op[t].pc = "sync" /\ cpu = t /\ UNCHANGED <<device, pages, queue, io, cpu, uses>>
    BY ZenonT(30) DEF SyncNext, Runs
  <2>2. PICK o : o = [op[t] EXCEPT !.holds = @ \ {SyncPage(t)}]
    BY ZenonT(30)
  <2>3. op' = [op EXCEPT ![t] = o]
    BY ZenonT(30), <2>2 DEF SyncNext, CacheInv
  <2>4. OpOK(o) /\ o.holds \subseteq op[t].holds
    BY ZenonT(30), <2>1, <2>2, OpIs DEF Syncs, OpOK
  <2> QED
    BY ZenonT(30), <2>1, <2>3, <2>4, <1>PagesSame, <1>QuietKeeps
  (* sync has no pages left and returns.                                     *)
<1>SyncDoneKeeps. ASSUME NEW t \in Tasks, SyncDone(t)
                  PROVE  CacheInv'
  <2> USE <1>SyncDoneKeeps
  <2>1. op[t].pc # "idle" /\ UNCHANGED <<device, pages, queue, io, uses>> /\ Leaves(t)
    BY ZenonT(30) DEF SyncDone, Runs, cache
  <2> QED
    BY <2>1, <1>PagesSame, <1>LeavesKeeps
<1>1. ASSUME NEW t \in Tasks, ReadBlock(t) \/ WriteBlock(t) PROVE CacheInv'
  <2>1. uses.blocks \subseteq Blocks /\ uses.writes \subseteq {"full", "part"} \X {0, 1}
    BY ZenonT(30), BlockCacheAssumption DEF CacheInv
  <2>2. CASE ReadBlock(t)
    <3>1. PICK b \in uses.blocks : Access(t, "read", b, 0)
      BY ZenonT(30), <2>2 DEF ReadBlock
    <3> QED
      BY ZenonT(30), <2>1, <3>1, <1>AccessKeeps DEF Bytes
  <2>3. CASE WriteBlock(t)
    <3>1. PICK b \in uses.blocks, w \in uses.writes : Access(t, w[1], b, w[2])
      BY ZenonT(30), <2>3 DEF WriteBlock
    <3>2. w[1] \in {"read", "full", "part"} /\ w[2] \in Bytes /\ b \in Blocks
      BY ZenonT(30), <2>1, <3>1 DEF Bytes
    <3> QED
      BY ZenonT(30), <3>1, <3>2, <1>AccessKeeps
  <2> QED
    BY ZenonT(30), <1>1, <2>2, <2>3
<1>2. ASSUME NEW t \in Tasks, Step(t) PROVE CacheInv'
  BY ZenonT(30), <1>2, <1>TransferKeeps, <1>EvictWriteKeeps, <1>EvictWrittenKeeps, <1>LoadKeeps, <1>LoadedKeeps, <1>ReadDoneKeeps, <1>StoreKeeps,
     <1>WrittenThroughKeeps, <1>SyncWriteKeeps, <1>SyncWrittenKeeps, <1>SyncNextKeeps, <1>SyncDoneKeeps DEF Step
<1>3. ASSUME UNCHANGED vars PROVE CacheInv'
  BY ZenonT(30), <1>3 DEF vars, cache, CacheInv, OneAtATime
<1>4. ASSUME PowerFailure PROVE CacheInv'
  <2>1. EmptyCache'
    BY ZenonT(30), <1>4 DEF PowerFailure, CacheInv, EmptyCache
  <2> QED
    BY <2>1, EmptyIs, PTL
<1> QED
  BY ZenonT(30), <1>1, <1>2, <1>3, <1>4, <1>SyncKeeps DEF Next, Spin

(* The invariant holds in an empty cache.                                  *)
LEMMA CacheInit == Init => CacheInv
<1> SUFFICES ASSUME Init PROVE CacheInv
  BY ZenonT(30)
<1>1. Zero \in Contents
  BY ZenonT(30) DEF Zero, Contents, Bytes
<1>2. device \in [Blocks -> Contents]
  BY ZenonT(30), <1>1 DEF Init
<1> QED
  BY ZenonT(30), <1>2, EmptyIs DEF Init, EmptyCache

(* What the invariant says of the queue and the cache.                     *)
LEMMA QueueIs == CacheInv => QueueExact
<1> SUFFICES ASSUME CacheInv PROVE QueueExact
  OBVIOUS
<1>1. CacheOK(pages, queue) /\ Exactly(queue, DOMAIN pages)
  BY ZenonT(30) DEF CacheInv, CacheOK
<1>2. Cardinality(DOMAIN pages) = Len(queue) /\ Range(queue) = DOMAIN pages
  BY ZenonT(30), <1>1, ExactCount
<1>3. TypeOK
  <2>1. \A p \in DOMAIN pages : pages[p].dirty \subseteq pages[p].loaded /\ pages[p].loaded \subseteq BlocksOf(p)
    BY ZenonT(30), <1>1 DEF CacheOK, PagesAt
  <2> QED
    BY ZenonT(30), <1>1, <2>1 DEF TypeOK, CacheInv, CacheOK, PageNos
<1> QED
  BY ZenonT(30), <1>2, <1>3 DEF QueueExact, CacheInv

(* For every disk, page size, set of tasks and capacity: each page of the  *)
(* cache is once in the second-chance queue, no page is evicted while a    *)
(* task holds it, and CACHE_PAGE_CAPACITY is kept as long as one task at a *)
(* time uses the device (CacheManager::get_page and evict_if_needed).      *)
THEOREM CacheQueueStaysExact == Spec => []QueueExact
<1>1. CacheInv /\ [Next]_vars => CacheInv'
  BY ZenonT(30), CacheNext
<1> QED
  BY <1>1, CacheInit, QueueIs, PTL DEF Spec
=============================================================================
