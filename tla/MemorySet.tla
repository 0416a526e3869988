------------------------------ MODULE MemorySet ------------------------------
(***************************************************************************)
(* User address spaces (mm/memory_set.rs): areas and page tables, lazy and *)
(* eager mappings, copy-on-write fork, demand faults, mmap, munmap,        *)
(* mprotect, brk, msync, exec, exit and the vfork copy-back.               *)
(*                                                                         *)
(* Addresses are page numbers and a page holds one value.  A page table is *)
(* a partial function from pages to a frame and its W bit: every user      *)
(* entry reloads satp and flushes the TLB, so the TLB is left out.  The    *)
(* areas of a process are a set, since they are disjoint (PteTracked);     *)
(* an Arc<FrameTracker> is an entry of `frames`, and a frame is free when  *)
(* no entry is left.                                                       *)
(***************************************************************************)
EXTENDS Integers, FiniteSets, Functions

CONSTANTS Procs, NPages, Frames, Values, FilePages,
          HeapBottom,      \* first page of the heap
          Repertoires,     \* bounds: what the programs of a behaviour may do
          Nobody

(* A repertoire bounds the calls that programs make: the calls, the pages  *)
(* they use, the kinds (anon, file, shanon, shfile) and lengths of their   *)
(* mappings, MAP_FIXED addresses, and the arguments of munmap (and msync)  *)
(* and mprotect.                                                           *)

ASSUME MemoryAssumption ==
  /\ NPages \in Nat \ {0} /\ HeapBottom \in 1 .. NPages
  /\ {0, 1} \subseteq Values /\ Values \subseteq Nat /\ 0 \in FilePages /\ FilePages \subseteq Nat
  /\ Nobody \notin Procs
  /\ \A r \in Repertoires :
       /\ r.pages \in 1 .. NPages /\ r.perms \subseteq BOOLEAN /\ r.kinds \subseteq {"anon", "file", "shanon", "shfile"}
       /\ r.lengths \subseteq Nat \ {0} /\ r.fixed \subseteq Nat
       /\ \A x \in r.unmap \cup r.protect : x[1] \in Nat /\ x[2] \in Nat /\ x[1] < x[2]

VARIABLES areas,     \* MemorySet.areas of each process
          pte,       \* its page table
          mem,       \* contents of the frames
          brk,       \* program_brk
          live,      \* processes that exist
          vparent,   \* vfork_vm_parent
          borrows,   \* vparent of a child that has not called exec (history)
          file,      \* the file's pages
          cache,     \* SHARED_FILE_PAGE_CACHE
          uses       \* the repertoire of the behaviour

vars == <<areas, pte, mem, brk, live, vparent, borrows, file, cache, uses>>

Pages == 0 .. NPages - 1
Garbage == -2
Hole == -1
Untouched(k) == 1000 + k
Empty == [v \in {} |-> 0]
With(f, v, x) == [u \in DOMAIN f \cup {v} |-> IF u = v THEN x ELSE f[u]]
Kept(f, S) == Restrict(f, DOMAIN f \cap S)
FilePage(k) == IF k \in FilePages THEN file[k] ELSE 0

(* MapArea.                                                                *)
Span(a) == a.lo .. a.hi - 1
Protected(a) == a.type \in {"heap", "elf"}
Overlaps(a, lo, hi) == a.lo < hi /\ a.hi > lo
AreasAt(p, v) == {a \in areas[p] : v \in Span(a)}
NewArea(lo, hi, w, kind, base) ==
  [lo |-> lo, hi |-> hi, frames |-> Empty, w |-> w, shared |-> kind \in {"shanon", "shfile"},
   lazy |-> kind \in {"anon", "file", "heap"}, type |-> kind, base |-> base]

(* The references to a frame, that is the strong count of its Arc.         *)
Refs(f) == {r \in live \X (UNION {areas[p] : p \in live}) \X Pages :
              r[2] \in areas[r[1]] /\ r[3] \in DOMAIN r[2].frames /\ r[2].frames[r[3]] = f}
           \cup {<<"cache", k>> : k \in {j \in DOMAIN cache : cache[j] = f}}
SoleOwner_Always(f) == TRUE
SoleOwner(f) == \E r \in Refs(f) : Refs(f) = {r}
FramesOf(S) == UNION {Range(a.frames) : a \in S}
Used == (UNION {FramesOf(areas[p]) : p \in live}) \cup Range(cache)
Free == Frames \ Used

UsedElsewhere(p) == (UNION {FramesOf(areas[q]) : q \in live \ {p}}) \cup Range(cache)

(* The frames keep the contents m; a frame without references is free.     *)
Contents(m) == mem' = [f \in Frames |-> IF f \in Used' THEN m[f] ELSE Garbage]

Program(f) == [NewArea(0, 1, TRUE, "elf", 0) EXCEPT !.frames = [v \in {0} |-> f]]

Init ==
  \E p \in Procs, f \in Frames :
    /\ live = {p}
    /\ areas = [q \in Procs |-> IF q = p THEN {Program(f)} ELSE {}]
    /\ pte = [q \in Procs |-> IF q = p THEN [v \in {0} |-> [f |-> f, w |-> TRUE]] ELSE Empty]
    /\ mem = [g \in Frames |-> IF g = f THEN 0 ELSE Garbage]
    /\ brk = [q \in Procs |-> HeapBottom]
    /\ vparent = [q \in Procs |-> Nobody] /\ borrows = [q \in Procs |-> Nobody]
    /\ file = [k \in FilePages |-> 1]
    /\ cache = Empty
    /\ uses \in Repertoires

-----------------------------------------------------------------------------
(* A store by the program to a page that the page table lets it write.     *)
Store(p, v, x) ==
  /\ p \in live /\ v \in DOMAIN pte[p] /\ pte[p][v].w
  /\ mem' = [mem EXCEPT ![pte[p][v].f] = x]
  /\ UNCHANGED <<areas, pte, brk, live, vparent, borrows, file, cache, uses>>

(* copy_to_user with RelaxedReadableMapping: a page that is mapped but not *)
(* writable is written all the same.                                       *)
CopyOutRelaxed(p, v, x) ==
  /\ "copyout" \in uses.calls
  /\ p \in live /\ v \in DOMAIN pte[p] /\ ~pte[p][v].w
  /\ mem' = [mem EXCEPT ![pte[p][v].f] = x]
  /\ UNCHANGED <<areas, pte, brk, live, vparent, borrows, file, cache, uses>>

(* handle_cow_fault: a write to a page that is mapped read-only in an area *)
(* that is writable.  The only owner, or a shared area, just gets the W    *)
(* bit back; otherwise the page is copied.                                 *)
CowAllowed(a) == a.w
Privatised(a, f) == ~a.shared /\ ~SoleOwner(f)
CowFault(p, v) ==
  /\ p \in live /\ v \in DOMAIN pte[p] /\ ~pte[p][v].w
  /\ UNCHANGED <<brk, live, vparent, borrows, file, cache, uses>>
  /\ \E a \in AreasAt(p, v) :
       /\ CowAllowed(a)
       /\ a.shared \/ v \in DOMAIN a.frames
       /\ \/ /\ ~Privatised(a, pte[p][v].f)
             /\ pte' = [pte EXCEPT ![p][v].w = TRUE]
             /\ UNCHANGED <<areas, mem>>
          \/ /\ Privatised(a, pte[p][v].f)
             /\ \E f \in Free :
                  /\ areas' = [areas EXCEPT ![p] = (@ \ {a}) \cup {[a EXCEPT !.frames[v] = f]}]
                  /\ pte' = [pte EXCEPT ![p][v] = [f |-> f, w |-> TRUE]]
                  /\ Contents([mem EXCEPT ![f] = mem[pte[p][v].f]])

(* handle_demand_fault: a page of a lazy area that is not mapped yet.      *)
PageOf(a, v) == a.base + v - a.lo
FirstContents(a, v) == IF a.type = "file" THEN FilePage(PageOf(a, v)) ELSE 0
DemandFault(p, v) ==
  /\ p \in live /\ v \in Pages \ DOMAIN pte[p]
  /\ UNCHANGED <<brk, live, vparent, borrows, file, cache, uses>>
  /\ \E a \in {b \in AreasAt(p, v) : b.lazy}, f \in Free :
       /\ areas' = [areas EXCEPT ![p] = (@ \ {a}) \cup {[a EXCEPT !.frames = With(@, v, f)]}]
       /\ pte' = [pte EXCEPT ![p] = With(@, v, [f |-> f, w |-> a.w])]
       /\ Contents([mem EXCEPT ![f] = FirstContents(a, v)])

-----------------------------------------------------------------------------
(* unmap_range: areas inside the range go, the others are cut at its ends, *)
(* except that a range strictly inside an area also takes the area's tail. *)
Piece(a, lo, hi) == [a EXCEPT !.lo = lo, !.hi = hi, !.frames = Kept(@, lo .. hi - 1)]
Cut_Whole(a, lo, hi) ==
  IF Protected(a) \/ ~Overlaps(a, lo, hi) THEN {a}
  ELSE IF a.lo >= lo THEN {} ELSE {Piece(a, a.lo, lo)}
Cut(a, lo, hi) ==
  IF Protected(a) \/ ~Overlaps(a, lo, hi) THEN {a}
  ELSE IF a.lo >= lo THEN IF a.hi <= hi THEN {} ELSE {Piece(a, hi, a.hi)}
  ELSE {Piece(a, a.lo, lo)}

CutAll(p, lo, hi) == UNION {Cut(a, lo, hi) : a \in areas[p]}
(* A page table entry goes with its area, unless the area is lazy and does *)
(* not track the page.                                                     *)
CutPtes(p, lo, hi) ==
  LET gone == {v \in DOMAIN pte[p] :
                 \E a \in AreasAt(p, v) : /\ \A b \in Cut(a, lo, hi) : v \notin Span(b)
                                         /\ (v \in DOMAIN a.frames \/ ~a.lazy)}
  IN  Kept(pte[p], Pages \ gone)

Munmap(p, lo, hi) ==
  /\ "munmap" \in uses.calls /\ p \in live
  /\ areas' = [areas EXCEPT ![p] = CutAll(p, lo, hi)]
  /\ pte' = [pte EXCEPT ![p] = CutPtes(p, lo, hi)]
  /\ UNCHANGED <<brk, live, vparent, borrows, file, cache, uses>>
  /\ Contents(mem)

(* The search of sys_mmap: it jumps past every area in its way, to the     *)
(* lowest free range at or above the hint.                                 *)
Fits(p, s, n) == s + n <= uses.pages /\ \A a \in areas[p] : ~Overlaps(a, s, s + n)
Placed(p, hint, n) == {s \in hint .. NPages - 1 : Fits(p, s, n) /\ \A r \in hint .. s - 1 : ~Fits(p, r, n)}

(* The frames of an eager area: for a shared file the cached ones first,   *)
(* and new ones for the other pages as long as there are any.              *)
Cached(a) == IF a.type = "shfile"
             THEN Restrict([v \in Span(a) |-> IF PageOf(a, v) \in DOMAIN cache THEN cache[PageOf(a, v)] ELSE Nobody],
                           {v \in Span(a) : PageOf(a, v) \in DOMAIN cache})
             ELSE Empty
Missing(a) == Span(a) \ DOMAIN Cached(a)
NewFrames(a, pool) ==
  LET n == IF Cardinality(Missing(a)) <= Cardinality(pool) THEN Cardinality(Missing(a)) ELSE Cardinality(pool)
  IN  Injection({v \in Missing(a) : Cardinality({u \in Missing(a) : u < v}) < n}, pool)

(* A lazy area is only entered in the list.                                *)
EnterLazy(p, a, kept, ptes) ==
  /\ areas' = [areas EXCEPT ![p] = kept \cup {a}]
  /\ pte' = [pte EXCEPT ![p] = ptes]
  /\ UNCHANGED cache
  /\ Contents(mem)

(* push and insert_shared_file_mmap_area map the pages at once; map_one    *)
(* copies a page that is already mapped.                                   *)
MapEagerly(p, a, kept, ptes) ==
  \E g \in NewFrames(a, Frames \ (FramesOf(kept) \cup UsedElsewhere(p))) :
    LET shfile == a.type = "shfile"
        fs == [v \in DOMAIN g \cup DOMAIN Cached(a) |-> IF v \in DOMAIN g THEN g[v] ELSE Cached(a)[v]]
        there(v) == ~shfile /\ v \in DOMAIN ptes
        content(v) == IF shfile THEN FilePage(PageOf(a, v)) ELSE IF there(v) THEN mem[ptes[v].f] ELSE 0
    IN  /\ areas' = [areas EXCEPT ![p] = kept \cup {[a EXCEPT !.frames = fs]}]
        /\ pte' = [pte EXCEPT ![p] =
                     [v \in DOMAIN ptes \cup DOMAIN fs |->
                        IF v \in DOMAIN fs THEN [f |-> fs[v], w |-> a.w \/ (there(v) /\ ptes[v].w)] ELSE ptes[v]]]
        /\ cache' = IF shfile THEN [k \in DOMAIN cache \cup {PageOf(a, v) : v \in DOMAIN g} |->
                                    IF k \in DOMAIN cache THEN cache[k] ELSE g[k - a.base + a.lo]]
                    ELSE cache
        /\ Contents([f \in Frames |-> IF f \in Range(g) THEN content(CHOOSE v \in DOMAIN g : g[v] = f)
                                      ELSE mem[f]])

MapArea(p, a, kept, ptes) == IF a.lazy THEN EnterLazy(p, a, kept, ptes) ELSE MapEagerly(p, a, kept, ptes)

Mmap(p, hint, n, w, kind, k) ==
  /\ "mmap" \in uses.calls /\ p \in live
  /\ UNCHANGED <<brk, live, vparent, borrows, file, uses>>
  /\ \E s \in Placed(p, hint, n) : MapArea(p, NewArea(s, s + n, w, kind, k), areas[p], pte[p])

MmapFixed(p, s, n, w, kind, k) ==
  /\ "mmap" \in uses.calls /\ p \in live /\ s + n <= uses.pages
  /\ UNCHANGED <<brk, live, vparent, borrows, file, uses>>
  /\ MapArea(p, NewArea(s, s + n, w, kind, k), CutAll(p, s, s + n), CutPtes(p, s, s + n))

(* change_protection: ENOMEM (no step) unless the range is covered; areas  *)
(* are split at its ends and every mapped page gets the new flags.         *)
Protect(a, lo, hi, w) ==
  IF ~Overlaps(a, lo, hi) THEN {a}
  ELSE IF a.lo >= lo /\ a.hi <= hi THEN {[a EXCEPT !.w = w]}
  ELSE LET l == IF a.lo < lo THEN lo ELSE a.lo
           h == IF a.hi > hi THEN hi ELSE a.hi
       IN  {b \in {Piece(a, a.lo, l), [Piece(a, l, h) EXCEPT !.w = w], Piece(a, h, a.hi)} : b.lo < b.hi}
Mprotect(p, lo, hi, w) ==
  /\ "mprotect" \in uses.calls /\ p \in live
  /\ \A v \in lo .. hi - 1 : AreasAt(p, v) # {}
  /\ areas' = [areas EXCEPT ![p] = UNION {Protect(a, lo, hi, w) : a \in areas[p]}]
  /\ pte' = [pte EXCEPT ![p] = [v \in DOMAIN @ |-> IF v \in lo .. hi - 1 THEN [@[v] EXCEPT !.w = w] ELSE @[v]]]
  /\ UNCHANGED <<mem, brk, live, vparent, borrows, file, cache, uses>>

(* sys_sbrk: the heap is the first area of type Heap; the first growth     *)
(* creates it, mapped at once although later growth is lazy.               *)
Heaps(p) == {a \in areas[p] : a.type = "heap"}
FirstHeap(p) == CHOOSE a \in Heaps(p) : \A b \in Heaps(p) : a.lo <= b.lo
HeapConflict(p, lo, hi) == \E a \in areas[p] \ Heaps(p) : Overlaps(a, lo, hi)

BrkGrow(p, e) ==
  /\ "brk" \in uses.calls /\ p \in live /\ e > brk[p]
  /\ brk' = [brk EXCEPT ![p] = e]
  /\ UNCHANGED <<live, vparent, borrows, file, uses>>
  /\ IF Heaps(p) = {}
     THEN /\ ~HeapConflict(p, HeapBottom, e)
          /\ MapEagerly(p, NewArea(HeapBottom, e, TRUE, "heap", 0), areas[p], pte[p])
     ELSE /\ ~HeapConflict(p, FirstHeap(p).hi, e)
          /\ areas' = [areas EXCEPT ![p] = (@ \ {FirstHeap(p)}) \cup {[FirstHeap(p) EXCEPT !.hi = e]}]
          /\ UNCHANGED <<pte, mem, cache>>

ShrunkPtes_OneLess(p, e) == Kept(pte[p], Pages \ (DOMAIN FirstHeap(p).frames \ 0 .. e))
ShrunkPtes(p, e) == Kept(pte[p], Pages \ (DOMAIN FirstHeap(p).frames \ 0 .. e - 1))
BrkShrink(p, e) ==
  /\ "brk" \in uses.calls /\ p \in live /\ e < brk[p]
  /\ Heaps(p) # {} /\ e <= FirstHeap(p).hi
  /\ areas' = [areas EXCEPT ![p] = (@ \ {FirstHeap(p)}) \cup {Piece(FirstHeap(p), FirstHeap(p).lo, e)}]
  /\ pte' = [pte EXCEPT ![p] = ShrunkPtes(p, e)]
  /\ brk' = [brk EXCEPT ![p] = e]
  /\ UNCHANGED <<live, vparent, borrows, file, cache, uses>>
  /\ Contents(mem)

-----------------------------------------------------------------------------
(* from_existed_user: the child gets every mapped page; a writable private *)
(* page becomes read-only on both sides.                                   *)
KeepsW_Always(a) == TRUE
KeepsW(a) == a.shared \/ ~a.w
Forked(p) == {[a EXCEPT !.frames = Kept(@, DOMAIN pte[p])] : a \in areas[p]}
ForkPte(e, a) == [e EXCEPT !.w = IF a.shared THEN a.w ELSE @ /\ KeepsW(a)]
ForkPtes(p) == [v \in DOMAIN pte[p] |-> ForkPte(pte[p][v], CHOOSE b \in AreasAt(p, v) : TRUE)]

Fork(p, c, vfork) ==
  /\ (IF vfork THEN "vfork" ELSE "fork") \in uses.calls
  /\ p \in live /\ c \notin live /\ pte[c] = Empty
  /\ areas' = [areas EXCEPT ![c] = Forked(p)]
  /\ pte' = [pte EXCEPT ![p] = ForkPtes(p), ![c] = ForkPtes(p)]
  /\ brk' = [brk EXCEPT ![c] = brk[p]]
  /\ live' = live \cup {c}
  /\ vparent' = [vparent EXCEPT ![c] = IF vfork THEN p ELSE Nobody]
  /\ borrows' = [borrows EXCEPT ![c] = IF vfork THEN p ELSE Nobody]
  /\ UNCHANGED <<mem, file, cache, uses>>

(* exec builds the new address space before it drops the old one.          *)
Exec(p) ==
  /\ "exec" \in uses.calls /\ p \in live
  /\ brk' = [brk EXCEPT ![p] = HeapBottom]
  /\ borrows' = [borrows EXCEPT ![p] = Nobody]
  /\ UNCHANGED <<live, vparent, file, cache, uses>>
  /\ \E f \in Free :
       /\ areas' = [areas EXCEPT ![p] = {Program(f)}]
       /\ pte' = [pte EXCEPT ![p] = [v \in {0} |-> [f |-> f, w |-> TRUE]]]
       /\ Contents([mem EXCEPT ![f] = 0])

(* sync_user_writable_from: where both page tables map a page of a         *)
(* writable area of the child, the child's page is copied over.            *)
GivenBack(c) ==
  LET q == vparent[c]
      given == {v \in DOMAIN pte[c] \cap DOMAIN pte[q] :
                  pte[c][v].f # pte[q][v].f /\ \E a \in AreasAt(c, v) : a.w}
  IN  [f \in Frames |-> IF \E v \in given : pte[q][v].f = f
                       THEN mem[pte[c][CHOOSE v \in given : pte[q][v].f = f].f] ELSE mem[f]]

(* The exit of a process: its areas go, its page table stays until the     *)
(* zombie is reaped.                                                       *)
Exit(p) ==
  /\ "exit" \in uses.calls /\ p \in live
  /\ live' = live \ {p}
  /\ areas' = [areas EXCEPT ![p] = {}]
  /\ vparent' = [vparent EXCEPT ![p] = Nobody]
  /\ borrows' = [q \in Procs |-> IF q = p \/ borrows[q] = p THEN Nobody ELSE borrows[q]]
  /\ UNCHANGED <<pte, brk, file, cache, uses>>
  /\ Contents(IF vparent[p] = Nobody THEN mem ELSE GivenBack(p))

Reap(p) ==
  /\ p \notin live /\ pte[p] # Empty
  /\ pte' = [pte EXCEPT ![p] = Empty]
  /\ brk' = [brk EXCEPT ![p] = HeapBottom]
  /\ vparent' = [q \in Procs |-> IF vparent[q] = p THEN Nobody ELSE vparent[q]]
  /\ UNCHANGED <<areas, mem, live, borrows, file, cache, uses>>

-----------------------------------------------------------------------------
(* msync_file_range on the mapped pages of shared file areas.              *)
SyncPages(p, lo, hi) == {v \in DOMAIN pte[p] \cap lo .. hi - 1 : \E a \in AreasAt(p, v) : a.type = "shfile"}
FileIndex(p, v) == LET a == CHOOSE b \in AreasAt(p, v) : TRUE IN PageOf(a, v)
Msync(p, lo, hi, writeback) ==
  /\ "msync" \in uses.calls /\ p \in live
  /\ IF writeback
     THEN /\ file' = [k \in FilePages |->
                        IF \E v \in SyncPages(p, lo, hi) : FileIndex(p, v) = k
                        THEN mem[pte[p][CHOOSE v \in SyncPages(p, lo, hi) : FileIndex(p, v) = k].f] ELSE file[k]]
          /\ UNCHANGED mem
     ELSE /\ mem' = [f \in Frames |->
                       IF \E v \in SyncPages(p, lo, hi) : pte[p][v].f = f
                       THEN FilePage(FileIndex(p, CHOOSE v \in SyncPages(p, lo, hi) : pte[p][v].f = f)) ELSE mem[f]]
          /\ UNCHANGED file
  /\ UNCHANGED <<areas, pte, brk, live, vparent, borrows, cache, uses>>

(* write(2) on the file, and a truncation, which empties the page cache.   *)
WriteFile(k, x) ==
  /\ "write" \in uses.calls
  /\ file' = [file EXCEPT ![k] = x]
  /\ UNCHANGED <<areas, pte, mem, brk, live, vparent, borrows, cache, uses>>
Invalidate ==
  /\ "truncate" \in uses.calls
  /\ cache' = Empty
  /\ UNCHANGED <<areas, pte, brk, live, vparent, borrows, file, uses>>
  /\ Contents(mem)

-----------------------------------------------------------------------------
Step(p) ==
  \/ \E v \in Pages, x \in Values : Store(p, v, x) \/ CopyOutRelaxed(p, v, x)
  \/ \E v \in Pages : CowFault(p, v) \/ DemandFault(p, v)
  \/ \E r \in uses.unmap : Munmap(p, r[1], r[2])
  \/ \E n \in uses.lengths, w \in BOOLEAN, kind \in uses.kinds, k \in FilePages :
       /\ kind \in {"anon", "shanon"} => k = 0
       /\ Mmap(p, HeapBottom, n, w, kind, k) \/ \E s \in uses.fixed : MmapFixed(p, s, n, w, kind, k)
  \/ \E r \in uses.protect, w \in uses.perms : Mprotect(p, r[1], r[2], w)
  \/ \E e \in HeapBottom .. uses.pages : BrkGrow(p, e) \/ BrkShrink(p, e)
  \/ \E c \in Procs, vfork \in BOOLEAN : Fork(p, c, vfork)
  \/ Exec(p) \/ Exit(p) \/ Reap(p)
  \/ \E r \in uses.unmap, wb \in BOOLEAN : Msync(p, r[1], r[2], wb)

FileStep == Invalidate \/ \E k \in FilePages, x \in Values : WriteFile(k, x)

Next == (\E p \in Procs : Step(p)) \/ FileStep

Spec == Init /\ [][Next]_vars

-----------------------------------------------------------------------------
(* What the proofs ask of a repertoire.  Regular: no MAP_FIXED mapping     *)
(* lies over the heap or the program, which unmap_range spares and push    *)
(* would map a second time, and no program mixes brk with mprotect, which  *)
(* splits the heap.  CowSafe: no program that forks asks mprotect for      *)
(* write permission, since change_protection makes a shared frame writable.*)
Shares(r) == "fork" \in r.calls \/ "vfork" \in r.calls
Regular(r) ==
  /\ r.fixed # {} => "brk" \notin r.calls /\ 0 \notin r.fixed
  /\ "brk" \in r.calls => "mprotect" \notin r.calls
CowSafe(r) == Shares(r) => ~("mprotect" \in r.calls /\ TRUE \in r.perms)

(* Every address space is well formed: areas and page tables only hold     *)
(* pages and frames that exist (MemorySet.areas, page_table, program_brk). *)
TypeOK ==
  /\ live \subseteq Procs
  /\ \A p \in Procs :
       /\ \A a \in areas[p] : /\ 0 <= a.lo /\ a.lo <= a.hi /\ a.hi <= NPages
                              /\ DOMAIN a.frames \subseteq Span(a) /\ Range(a.frames) \subseteq Frames
                              /\ a.w \in BOOLEAN /\ a.lazy \in BOOLEAN /\ a.base \in Nat
       /\ DOMAIN pte[p] \subseteq Pages
       /\ \A v \in DOMAIN pte[p] : pte[p][v] \in [f : Frames, w : BOOLEAN]
       /\ brk[p] \in HeapBottom .. NPages
  /\ mem \in [Frames -> Values \cup {Garbage}]
  /\ vparent \in [Procs -> Procs \cup {Nobody}] /\ borrows \in [Procs -> Procs \cup {Nobody}]
  /\ file \in [FilePages -> Values]
  /\ DOMAIN cache \subseteq Nat /\ Range(cache) \subseteq Frames

(* A page table entry of a live process points to the frame that the area  *)
(* around it keeps alive, so no program can reach a frame that was freed   *)
(* or given to another: munmap, brk, fork and COW faults (unmap_one,       *)
(* from_existed_user, handle_cow_fault) change the two together.  And it   *)
(* is writable only if the area is: neither fork nor a fault gives back    *)
(* what mprotect took away.                                                *)
(* Two areas of a process never overlap: what push assumes (memory_set.rs, *)
(* "there are no conflicts in the virtual address space") after any        *)
(* sequence of mmap, munmap, mprotect and brk.                             *)
PteTracked ==
  /\ TypeOK
  /\ \A p \in live : \A v \in DOMAIN pte[p] :
       \E a \in AreasAt(p, v) : /\ v \in DOMAIN a.frames /\ a.frames[v] = pte[p][v].f
                                /\ pte[p][v].w => a.w
  /\ \A p \in live : \A a, b \in areas[p] : a # b => Span(a) \cap Span(b) = {}

(* A private page is writable in a page table only while its frame has one *)
(* owner: fork takes W away on both sides and handle_cow_fault gives it    *)
(* back only to the last owner.                                            *)
CowProtects ==
  \A p \in live : \A v \in DOMAIN pte[p] :
    pte[p][v].w /\ (\E a \in AreasAt(p, v) : ~a.shared) => SoleOwner(pte[p][v].f)

(* The memory a program sees at a private page, mapped or still lazy.      *)
Image == [p \in Procs |-> [v \in Pages |->
  LET here == {a \in AreasAt(p, v) : ~a.shared}
  IN  IF p \notin live \/ here = {} THEN Hole
      ELSE IF v \in DOMAIN pte[p] THEN mem[pte[p][v].f]
      ELSE LET a == CHOOSE b \in here : TRUE
           IN  IF a.type = "file" /\ PageOf(a, v) \in FilePages THEN Untouched(PageOf(a, v)) ELSE 0]]

Private == INSTANCE PrivateMemory WITH image <- Image, running <- live, lender <- borrows

(* Copy-on-write is invisible: whatever frames they share, processes see   *)
(* their own private memory, changed only by themselves (or by their vfork *)
(* child while it runs their program).                                     *)
MemoryIsPrivate == Private!Spec

SharedPages == {s \in live \X Pages :
                  s[2] \in DOMAIN pte[s[1]] /\ \E a \in AreasAt(s[1], s[2]) : a.type \in {"shanon", "shfile"}}
Frame(s) == pte[s[1]][s[2]].f

(* The tail that unmap_range drops with a range strictly inside an area.   *)
DroppedTail(p, lo, hi) == UNION {hi .. a.hi - 1 : a \in {b \in areas[p] : b.lo < lo /\ ~Protected(b) /\ Overlaps(b, lo, hi)}}

(* munmap takes nothing outside the range it is given (unmap_range:        *)
(* "keeping unaffected portions intact") but the tail of an area it cuts   *)
(* in the middle, and mprotect changes permissions but never what a page   *)
(* holds or will hold once it is faulted in.  Mappings of several pages    *)
(* are anonymous here: the later pages of a file mapping lose their offset *)
(* when it is cut.  Two shared pages that are one frame stay one frame:    *)
(* neither fork nor handle_cow_fault nor mprotect privatises shared memory.*)
RangeCallsKeepRest ==
  [][/\ \A p \in Procs :
       /\ \A r \in uses.unmap :
            Munmap(p, r[1], r[2]) =>
              \A v \in Pages \ ((r[1] .. r[2] - 1) \cup DroppedTail(p, r[1], r[2])) : Image'[p][v] = Image[p][v]
       /\ \A r \in uses.protect, w \in uses.perms : Mprotect(p, r[1], r[2], w) => Image' = Image
     /\ \A s, t \in SharedPages :
          Frame(s) = Frame(t) /\ {s, t} \subseteq SharedPages' => Frame(s)' = Frame(t)']_vars
=============================================================================
