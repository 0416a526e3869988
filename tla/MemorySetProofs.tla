-------------------------- MODULE MemorySetProofs --------------------------
(***************************************************************************)
(* Proofs about module MemorySet for any number of processes, pages and    *)
(* frames: page tables and areas agree (PteTracked), and copy-on-write     *)
(* never leaves a private page writable while its frame is shared          *)
(* (CowProtects).  MemorySetInvariant has the inductive invariant; here    *)
(* are the calls that make address spaces: exec, exit, fork, mmap and brk. *)
(***************************************************************************)
EXTENDS MemorySetInvariant

(* The time a prover has for a step, where the step does not say.          *)
USE SMTT(30)

(* A new area, and its frames.                                             *)
LEMMA NewAreaIs ==
  ASSUME NEW lo \in Nat, NEW hi \in Nat, lo <= hi, hi <= NPages, NEW w \in BOOLEAN, NEW kind \in Kinds,
         NEW base \in Nat, NEW a, a = NewArea(lo, hi, w, kind, base)
  PROVE  /\ AreaOK(a) /\ a.lo = lo /\ a.hi = hi /\ a.w = w /\ a.type = kind /\ a.base = base
         /\ a.shared <=> kind \in {"shanon", "shfile"}
         /\ a.lazy <=> kind \in {"anon", "file", "heap"}
         /\ DOMAIN a.frames = {}
<1>1. PICK fs : fs = Empty
  BY ZenonT(30)
<1>2. fs \in FrameMaps /\ DOMAIN fs = {}
  <2>1. fs \in [{} -> Frames] /\ DOMAIN fs = {} /\ {} \in SUBSET Pages
    BY ZenonT(30), <1>1 DEF Empty
  <2> QED
    BY ZenonT(30), <2>1, FrameMapOf
<1>3. PICK sh \in BOOLEAN : sh = (kind \in {"shanon", "shfile"})
  <2>1. CASE kind \in {"shanon", "shfile"}
    <3>1. TRUE = (kind \in {"shanon", "shfile"})
      BY ZenonT(30), <2>1
    <3> QED
      BY ZenonT(30), <3>1
  <2>2. CASE kind \notin {"shanon", "shfile"}
    <3>1. FALSE = (kind \in {"shanon", "shfile"})
      BY <2>2
    <3> QED
      BY ZenonT(30), <3>1
  <2> QED
    BY ZenonT(30), <2>1, <2>2
<1>4. PICK lz \in BOOLEAN : lz = (kind \in {"anon", "file", "heap"})
  <2>1. CASE kind \in {"anon", "file", "heap"}
    <3>1. TRUE = (kind \in {"anon", "file", "heap"})
      BY ZenonT(30), <2>1
    <3> QED
      BY ZenonT(30), <3>1
  <2>2. CASE kind \notin {"anon", "file", "heap"}
    <3>1. FALSE = (kind \in {"anon", "file", "heap"})
      BY <2>2
    <3> QED
      BY ZenonT(30), <3>1
  <2> QED
    BY ZenonT(30), <2>1, <2>2
<1>5. a = [lo |-> lo, hi |-> hi, frames |-> fs, w |-> w, shared |-> sh, lazy |-> lz, type |-> kind, base |-> base]
  BY ZenonT(30), <1>1, <1>3, <1>4 DEF NewArea
<1>6. a \in AreaRecords
  BY <1>2, <1>5 DEF AreaRecords
<1>7. /\ a.lo = lo /\ a.hi = hi /\ a.w = w /\ a.type = kind /\ a.base = base /\ a.shared = sh /\ a.lazy = lz
      /\ a.frames = fs
  BY <1>5
<1> QED
  BY ZenonT(30), <1>2, <1>3, <1>4, <1>6, <1>7 DEF AreaOK

(* An area with other frames.                                              *)
LEMMA FramesSet ==
  ASSUME NEW a, AreaOK(a), NEW fs \in FrameMaps, DOMAIN fs \subseteq Span(a), NEW b, b = [a EXCEPT !.frames = fs]
  PROVE  /\ AreaOK(b) /\ Span(b) = Span(a) /\ b.frames = fs /\ b.lo = a.lo /\ b.hi = a.hi /\ b.w = a.w
         /\ b.shared = a.shared /\ b.type = a.type /\ b.lazy = a.lazy /\ b.base = a.base
<1>1. /\ b \in AreaRecords /\ b.frames = fs /\ b.lo = a.lo /\ b.hi = a.hi /\ b.w = a.w
      /\ b.shared = a.shared /\ b.type = a.type /\ b.lazy = a.lazy /\ b.base = a.base
  BY ZenonT(30) DEF AreaOK, AreaRecords
<1>2. Span(b) = Span(a)
  BY ZenonT(30), <1>1 DEF Span
<1> QED
  BY ZenonT(30), <1>1, <1>2 DEF AreaOK

(* The program that exec loads.                                            *)
LEMMA ProgramIs ==
  ASSUME NEW f \in Frames, NEW a, a = Program(f)
  PROVE  /\ AreaOK(a) /\ a.lo = 0 /\ a.hi = 1 /\ a.type = "elf" /\ a.w /\ ~a.shared
         /\ DOMAIN a.frames = {0} /\ a.frames[0] = f /\ Span(a) = {0}
<1>1. PICK fs : fs = [v \in {0} |-> f]
  BY ZenonT(30)
<1>2. 0 \in Pages
  BY MemoryAssumption DEF Pages
<1>3. fs \in FrameMaps /\ DOMAIN fs = {0} /\ fs[0] = f
  BY ZenonT(30), <1>1, <1>2, FrameMapOf
<1>4. a = [NewArea(0, 1, TRUE, "elf", 0) EXCEPT !.frames = fs]
  BY ZenonT(30), <1>1 DEF Program
<1>5. PICK n : n = NewArea(0, 1, TRUE, "elf", 0)
  BY ZenonT(30)
<1>6. /\ AreaOK(n) /\ n.lo = 0 /\ n.hi = 1 /\ n.w = TRUE /\ n.type = "elf"
      /\ ~n.shared
  <2>1. PICK lo \in Nat, hi \in Nat, w \in BOOLEAN, kind \in Kinds : lo = 0 /\ hi = 1 /\ w = TRUE /\ kind = "elf"
    BY ZenonT(30) DEF Kinds
  <2>2. lo <= hi /\ hi <= NPages
    BY <2>1, MemoryAssumption
  <2>3. n = NewArea(lo, hi, w, kind, lo)
    BY ZenonT(30), <1>5, <2>1
  <2>4. /\ AreaOK(n) /\ n.lo = lo /\ n.hi = hi /\ n.w = w /\ n.type = kind
        /\ n.shared <=> kind \in {"shanon", "shfile"}
    BY <2>2, <2>3, NewAreaIs
  <2> QED
    BY ZenonT(30), <2>1, <2>4
<1>7. Span(n) = {0}
  BY <1>6 DEF Span
<1>8. a = [n EXCEPT !.frames = fs]
  BY ZenonT(30), <1>4, <1>5
<1>9. /\ AreaOK(a) /\ Span(a) = Span(n) /\ a.frames = fs /\ a.lo = n.lo /\ a.hi = n.hi /\ a.w = n.w
      /\ a.shared = n.shared /\ a.type = n.type
  BY <1>3, <1>6, <1>7, <1>8, FramesSet
<1> QED
  BY ZenonT(30), <1>3, <1>6, <1>7, <1>9

(* The address space that exec builds.                                     *)
LEMMA ProgramSpace ==
  ASSUME NEW f \in Frames, NEW S, S = {Program(f)}, NEW P, P = [v \in {0} |-> [f |-> f, w |-> TRUE]], NEW b, NEW r
  PROVE  Areas(S) /\ Table(P) /\ Tracked(S, P) /\ HeapOK(S, b, r) /\ \A v, g : Tracks(S, v, g) <=> v = 0 /\ g = f
<1>1. PICK a : a = Program(f)
  BY ZenonT(30)
<1>2. /\ AreaOK(a) /\ a.lo = 0 /\ a.hi = 1 /\ a.type = "elf" /\ a.w /\ ~a.shared
      /\ DOMAIN a.frames = {0} /\ a.frames[0] = f /\ Span(a) = {0}
  BY <1>1, ProgramIs
<1>3. S = {a}
  BY ZenonT(30), <1>1
<1>4. DOMAIN P = {0} /\ P[0] \in Entries /\ P[0].f = f /\ 0 \in Pages
  BY MemoryAssumption DEF Entries, Pages
<1>5. Areas(S)
  BY ZenonT(30), <1>2, <1>3 DEF Areas, Apart
<1>6. Table(P)
  BY ZenonT(30), <1>4 DEF Table
<1>7. Tracked(S, P)
  BY ZenonT(30), <1>2, <1>3, <1>4 DEF Tracked
<1>8. HeapOK(S, b, r)
  BY ZenonT(30), <1>2, <1>3 DEF HeapOK
<1>9. \A v, g : Tracks(S, v, g) <=> v = 0 /\ g = f
  BY ZenonT(30), <1>2, <1>3 DEF Tracks
<1> QED
  BY ZenonT(30), <1>5, <1>6, <1>7, <1>8, <1>9

(* exec.                                                                   *)
LEMMA ExecKeeps ==
  ASSUME IInv, NEW p, Exec(p)
  PROVE  Keeps
<1>1. p \in live /\ brk' = [brk EXCEPT ![p] = HeapBottom] /\ borrows' = [borrows EXCEPT ![p] = Nobody]
      /\ UNCHANGED <<live, vparent, file, cache, uses>>
  BY ZenonT(30) DEF Exec
<1>2. PICK g \in Free :
        /\ areas' = [areas EXCEPT ![p] = {Program(g)}]
        /\ pte' = [pte EXCEPT ![p] = [v \in {0} |-> [f |-> g, w |-> TRUE]]]
        /\ Contents([mem EXCEPT ![g] = 0])
  BY ZenonT(30) DEF Exec
<1>3. PICK S : S = {Program(g)}
  BY ZenonT(30)
<1>4. PICK P : P = [v \in {0} |-> [f |-> g, w |-> TRUE]]
  BY ZenonT(30)
<1>5. OneSpace(p, S, P)
  BY ZenonT(30), <1>1, <1>2, <1>3, <1>4, OneSpaceIs DEF IInv
<1>6. g \in Frames /\ p \in Procs
  BY ZenonT(30), <1>1 DEF Free, IInv, Typed
<1>7. Areas(S) /\ Table(P) /\ Tracked(S, P) /\ HeapOK(S, brk'[p], uses) /\ \A v, f : Tracks(S, v, f) <=> v = 0 /\ f = g
  BY ZenonT(30), <1>3, <1>4, <1>6, ProgramSpace
<1>8. brk' \in [Procs -> HeapBottom .. NPages] /\ \A q \in live \ {p} : brk'[q] = brk[q]
  BY <1>1, <1>6, MemoryAssumption DEF IInv, Typed
<1>9. borrows' \in [Procs -> Procs \cup {Nobody}]
  BY ZenonT(30), <1>1 DEF IInv, Typed
<1>10. /\ \A q \in live : \A u : ~Tracks(areas[q], u, g)
       /\ \A k \in DOMAIN cache : cache[k] # g
  <2>1. g \notin UsedBy(areas, live, cache)
    BY ZenonT(30), UsedNow DEF Free
  <2> QED
    BY ZenonT(30), <2>1, UsedIs
<1>11. ASSUME NEW f \in Frames, f \in Used' PROVE [mem EXCEPT ![g] = 0][f] \in Values
  <2>1. f \in UsedBy(areas', live', cache')
    BY ZenonT(30), <1>11, UsedNow
  <2>2. (\E q \in live' : \E u : Tracks(areas'[q], u, f)) \/ \E k \in DOMAIN cache' : cache'[k] = f
    BY <2>1, UsedIs
  <2>3. ASSUME NEW q \in live', NEW u, Tracks(areas'[q], u, f) PROVE f = g \/ (q \in live /\ Tracks(areas[q], u, f))
    <3>1. q \in live /\ q \in Procs
      BY ZenonT(30), <1>1 DEF IInv, Typed
    <3> QED
      BY ZenonT(30), <1>5, <1>7, <2>3, <3>1 DEF OneSpace
  <2>4. f = g \/ (\E q \in live : \E u : Tracks(areas[q], u, f)) \/ \E k \in DOMAIN cache : cache[k] = f
    BY ZenonT(30), <1>1, <2>2, <2>3
  <2>5. f = g \/ f \in Used
    BY ZenonT(30), <2>4, UsedIs, UsedNow
  <2> QED
    BY ZenonT(30), <2>5, MemoryAssumption DEF IInv, Filled, Typed
<1>12. mem' \in [Frames -> Values \cup {Garbage}] /\ Filled'
  BY ZenonT(30), <1>2, <1>11, ContentsFill
<1>13. Typed' /\ SpacesOK'
  BY ZenonT(30), <1>1, <1>5, <1>7, <1>8, <1>9, <1>12, RestTyped, OneSpaceKeeps DEF IInv
<1>14. NewIn(S, p, 0, g)
  BY ZenonT(30), <1>7, <1>10 DEF NewIn
<1>15. Owned => Owned'
  <2>1. AddsNew(p, S) /\ CachesShared(p, S)
    BY ZenonT(30), <1>1, <1>7, <1>14 DEF AddsNew, CachesShared
  <2>2. OwnedIn(p, S, P)
    <3>1. \A c \in S : \A u \in DOMAIN c.frames : u = 0 /\ c.frames[u] = g
      BY ZenonT(30), <1>7 DEF Tracks
    <3> QED
      BY ZenonT(30), <1>14, <3>1 DEF OwnedIn
  <2>3. Typed
    BY ZenonT(30) DEF IInv
  <2> QED
    BY ZenonT(30), <1>1, <1>5, <1>7, <2>1, <2>2, <2>3, OneSpaceOwned
<1> QED
  BY ZenonT(30), <1>12, <1>13, <1>15 DEF Keeps, IInv

(* A process goes: exit keeps its page table, and the vfork copy-back only *)
(* moves contents.                                                         *)
LEMMA ExitKeeps ==
  ASSUME IInv, NEW p, Exit(p)
  PROVE  Keeps
<1>1. /\ p \in live /\ live' = live \ {p} /\ areas' = [areas EXCEPT ![p] = {}]
      /\ vparent' = [vparent EXCEPT ![p] = Nobody]
      /\ borrows' = [q \in Procs |-> IF q = p \/ borrows[q] = p THEN Nobody ELSE borrows[q]]
      /\ UNCHANGED <<pte, brk, file, cache, uses>>
      /\ Contents(IF vparent[p] = Nobody THEN mem ELSE GivenBack(p))
  BY ZenonT(30) DEF Exit
<1>2. PICK m : m = IF vparent[p] = Nobody THEN mem ELSE GivenBack(p)
  BY ZenonT(30)
<1>3. p \in Procs /\ DOMAIN areas = Procs /\ live \subseteq Procs /\ mem \in [Frames -> Values \cup {Garbage}]
  BY ZenonT(30), <1>1 DEF IInv, Typed
<1>4. DOMAIN areas' = Procs /\ areas'[p] = {} /\ \A q \in Procs \ {p} : areas'[q] = areas[q]
  BY ZenonT(30), <1>1, <1>3
<1>5. ASSUME NEW f \in Frames, f \in Used PROVE m[f] \in Values
  <2>1. CASE vparent[p] = Nobody
    BY ZenonT(30), <1>2, <1>5, <2>1 DEF IInv, Filled
  <2>2. CASE vparent[p] # Nobody
    <3> DEFINE q == vparent[p]
               given == {v \in DOMAIN pte[p] \cap DOMAIN pte[q] :
                           pte[p][v].f # pte[q][v].f /\ \E a \in AreasAt(p, v) : a.w}
    <3>1. m[f] = IF \E v \in given : pte[q][v].f = f
                 THEN mem[pte[p][CHOOSE v \in given : pte[q][v].f = f].f] ELSE mem[f]
      BY ZenonT(30), <1>2, <2>2 DEF GivenBack
    <3>2. given \subseteq DOMAIN pte[p]
      BY ZenonT(30)
    <3> HIDE DEF given, q
    <3>3. CASE \E v \in given : pte[q][v].f = f
      <4>1. PICK v : v = CHOOSE u \in given : pte[q][u].f = f
        BY ZenonT(30)
      <4>2. v \in DOMAIN pte[p] /\ m[f] = mem[pte[p][v].f]
        BY ZenonT(30), <3>1, <3>2, <3>3, <4>1
      <4> QED
        BY ZenonT(30), <1>1, <4>2, MappedFilled
    <3>4. CASE ~ \E v \in given : pte[q][v].f = f
      BY ZenonT(30), <1>5, <3>1, <3>4 DEF IInv, Filled
    <3> QED
      BY ZenonT(30), <3>3, <3>4
  <2> QED
    BY ZenonT(30), <2>1, <2>2
<1>6. ASSUME NEW f \in Frames, f \in Used' PROVE f \in Used
  <2>1. f \in UsedBy(areas', live', cache')
    BY ZenonT(30), <1>6, UsedNow
  <2>2. (\E q \in live' : \E u : Tracks(areas'[q], u, f)) \/ \E k \in DOMAIN cache' : cache'[k] = f
    BY <2>1, UsedIs
  <2>3. (\E q \in live : \E u : Tracks(areas[q], u, f)) \/ \E k \in DOMAIN cache : cache[k] = f
    BY ZenonT(30), <1>1, <1>3, <1>4, <2>2
  <2> QED
    BY ZenonT(30), <2>3, UsedIs, UsedNow
<1>7. mem' \in [Frames -> Values \cup {Garbage}] /\ Filled'
  BY ZenonT(30), <1>1, <1>2, <1>5, <1>6, ContentsFill
<1>8. \A q \in Procs : Areas(areas'[q])
  BY ZenonT(30), <1>4 DEF IInv, Typed, Areas, Apart
<1>9. vparent' \in [Procs -> Procs \cup {Nobody}] /\ borrows' \in [Procs -> Procs \cup {Nobody}]
  BY ZenonT(30), <1>1 DEF IInv, Typed
<1>10. Typed'
  BY ZenonT(30), <1>1, <1>4, <1>7, <1>8, <1>9 DEF IInv, Typed
<1>11. SpacesOK'
  BY ZenonT(30), <1>1, <1>3, <1>4 DEF IInv, SpacesOK
<1>12. Owned => Owned'
  BY <1>1, <1>3, <1>4 DEF Owned, Only
<1> QED
  BY ZenonT(30), <1>7, <1>10, <1>11, <1>12 DEF Keeps, IInv

(* A zombie is reaped.                                                     *)
LEMMA ReapKeeps ==
  ASSUME IInv, NEW p \in Procs, Reap(p)
  PROVE  Keeps
<1>1. /\ p \notin live /\ pte' = [pte EXCEPT ![p] = Empty] /\ brk' = [brk EXCEPT ![p] = HeapBottom]
      /\ vparent' = [q \in Procs |-> IF vparent[q] = p THEN Nobody ELSE vparent[q]]
      /\ UNCHANGED <<areas, mem, live, borrows, file, cache, uses>>
  BY ZenonT(30) DEF Reap
<1>2. Table(Empty)
  BY ZenonT(30) DEF Table, Empty
<1>3. DOMAIN pte' = Procs /\ pte'[p] = Empty /\ \A q \in Procs \ {p} : pte'[q] = pte[q]
  BY ZenonT(30), <1>1 DEF IInv, Typed
<1>4. brk' \in [Procs -> HeapBottom .. NPages] /\ vparent' \in [Procs -> Procs \cup {Nobody}]
      /\ \A q \in Procs \ {p} : brk'[q] = brk[q]
  BY <1>1, MemoryAssumption DEF IInv, Typed
<1>5. Typed'
  BY ZenonT(30), <1>1, <1>2, <1>3, <1>4 DEF IInv, Typed
<1>6. \A q \in live : q \in Procs \ {p}
  BY ZenonT(30), <1>1 DEF IInv, Typed
<1>7. SpacesOK'
  BY ZenonT(30), <1>1, <1>3, <1>4, <1>6 DEF IInv, SpacesOK
<1>8. Filled'
  BY ZenonT(30), <1>1 DEF IInv, Filled, Used
<1>9. Owned => Owned'
  BY <1>1, <1>3, <1>6 DEF Owned, Only
<1> QED
  BY ZenonT(30), <1>5, <1>7, <1>8, <1>9 DEF Keeps, IInv

(* from_existed_user: the entries of parent and child.                     *)
LEMMA ForkEntry ==
  ASSUME IInv, NEW p \in live, NEW v \in DOMAIN pte[p], NEW e, e = ForkPtes(p)[v], NEW a \in areas[p], v \in Span(a)
  PROVE  e \in Entries /\ e.f = pte[p][v].f /\ (e.w => a.w) /\ (e.w => a.shared)
<1>0. p \in Procs /\ Areas(areas[p]) /\ Table(pte[p]) /\ Tracked(areas[p], pte[p])
  BY ZenonT(30) DEF IInv, Typed, SpacesOK
<1>1. pte[p][v] \in Entries /\ a.w \in BOOLEAN
  BY ZenonT(30), <1>0 DEF Table, Areas, AreaOK, AreaRecords
<1>2. AreasAt(p, v) = {a}
  BY ZenonT(30), <1>0 DEF AreasAt, Areas, Apart
<1>3. (CHOOSE b \in AreasAt(p, v) : TRUE) = a
  BY ZenonT(30), <1>2
<1>4. e = ForkPte(pte[p][v], a)
  BY ZenonT(30), <1>3 DEF ForkPtes
<1>5. CASE a.shared
  <2>1. e = [pte[p][v] EXCEPT !.w = a.w]
    BY ZenonT(30), <1>4, <1>5 DEF ForkPte
  <2> QED
    BY ZenonT(30), <1>1, <1>5, <2>1 DEF Entries
<1>6. CASE ~a.shared
  <2>1. pte[p][v].w => a.w
    <3>1. PICK b \in areas[p] : v \in Span(b) /\ (pte[p][v].w => b.w)
      BY ZenonT(30), <1>0 DEF Tracked
    <3>2. b = a
      BY ZenonT(30), <1>2, <3>1 DEF AreasAt
    <3> QED
      BY ZenonT(30), <3>1, <3>2
  <2>2. ~(pte[p][v].w /\ KeepsW(a))
    BY ZenonT(30), <1>6, <2>1 DEF KeepsW
  <2>3. PICK x : x = (pte[p][v].w /\ KeepsW(a))
    BY ZenonT(30)
  <2>4. x = FALSE
    BY ZenonT(30), <2>2, <2>3
  <2>5. e = [pte[p][v] EXCEPT !.w = x]
    BY ZenonT(30), <1>1, <1>4, <1>6, <2>3 DEF Entries, ForkPte
  <2>6. e \in Entries /\ e.f = pte[p][v].f /\ e.w = FALSE
    BY ZenonT(30), <1>1, <2>4, <2>5 DEF Entries
  <2> QED
    BY ZenonT(30), <2>6
<1> QED
  BY ZenonT(30), <1>5, <1>6

(* The address spaces after fork.                                          *)
LEMMA ForkSpace ==
  ASSUME IInv, NEW p \in live, NEW S, S = Forked(p), NEW P, P = ForkPtes(p)
  PROVE  /\ Areas(S) /\ Table(P) /\ Tracked(areas[p], P) /\ Tracked(S, P) /\ HeapOK(S, brk[p], uses)
         /\ DOMAIN P = DOMAIN pte[p]
         /\ \A b \in S : \E a \in areas[p] : /\ Span(b) = Span(a) /\ b.shared = a.shared
                                             /\ DOMAIN b.frames \subseteq DOMAIN a.frames
                                             /\ \A v \in DOMAIN b.frames : b.frames[v] = a.frames[v]
<1>0. p \in Procs /\ Areas(areas[p]) /\ Table(pte[p]) /\ Tracked(areas[p], pte[p]) /\ HeapOK(areas[p], brk[p], uses)
  BY ZenonT(30) DEF IInv, Typed, SpacesOK
<1>1. DOMAIN P = DOMAIN pte[p]
  BY ZenonT(30) DEF ForkPtes
<1> DEFINE Copy(a) == [a EXCEPT !.frames = Kept(@, DOMAIN pte[p])]
<1>2. ASSUME NEW a \in areas[p]
      PROVE  /\ AreaOK(Copy(a)) /\ Span(Copy(a)) = Span(a) /\ Copy(a).lo = a.lo /\ Copy(a).hi = a.hi /\ Copy(a).w = a.w
             /\ Copy(a).shared = a.shared /\ Copy(a).type = a.type
             /\ DOMAIN Copy(a).frames = DOMAIN a.frames \cap DOMAIN pte[p]
             /\ \A v \in DOMAIN Copy(a).frames : Copy(a).frames[v] = a.frames[v]
  <2>1. AreaOK(a) /\ a \in AreaRecords /\ a.frames \in FrameMaps
    BY ZenonT(30), <1>0 DEF Areas, AreaOK, AreaRecords
  <2>2. PICK fs : fs = Kept(a.frames, DOMAIN pte[p])
    BY ZenonT(30)
  <2>3. DOMAIN fs = DOMAIN a.frames \cap DOMAIN pte[p] /\ fs = [v \in DOMAIN fs |-> a.frames[v]]
    BY ZenonT(30), <2>2 DEF Kept, Restrict
  <2>4. DOMAIN fs \subseteq Pages /\ \A v \in DOMAIN fs : a.frames[v] \in Frames
    BY ZenonT(30), <2>1, <2>3, FrameMapIs
  <2>5. fs \in [DOMAIN fs -> Frames]
    BY ZenonT(30), <2>3, <2>4
  <2>6. fs \in FrameMaps
    BY ZenonT(30), <2>4, <2>5, FrameMapOf
  <2>7. PICK b : b = Copy(a)
    BY ZenonT(30)
  <2>8. b = [a EXCEPT !.frames = fs]
    BY ZenonT(30), <2>1, <2>2, <2>7 DEF AreaRecords
  <2>9. /\ AreaOK(b) /\ Span(b) = Span(a) /\ b.frames = fs /\ b.lo = a.lo /\ b.hi = a.hi /\ b.w = a.w
        /\ b.shared = a.shared /\ b.type = a.type
    <3>1. DOMAIN fs \subseteq Span(a)
      BY ZenonT(30), <2>1, <2>3 DEF AreaOK
    <3> QED
      BY <2>1, <2>6, <2>8, <3>1, FramesSet
  <2>10. \A v \in DOMAIN fs : fs[v] = a.frames[v]
    BY ZenonT(30), <2>3
  <2> QED
    BY ZenonT(30), <2>3, <2>7, <2>9, <2>10
<1>3. S = {Copy(a) : a \in areas[p]}
  BY ZenonT(30) DEF Forked
<1> HIDE DEF Copy
<1>4. \A b \in S : \E a \in areas[p] : b = Copy(a)
  BY ZenonT(30), <1>3
<1>5. Areas(S)
  <2>1. \A b \in S : AreaOK(b)
    BY ZenonT(30), <1>2, <1>4
  <2>2. ASSUME NEW b \in S, NEW c \in S, b # c PROVE Span(b) \cap Span(c) = {}
    <3>1. PICK a \in areas[p] : b = Copy(a)
      BY ZenonT(30), <1>4
    <3>2. PICK d \in areas[p] : c = Copy(d)
      BY ZenonT(30), <1>4
    <3>3. a # d
      BY ZenonT(30), <2>2, <3>1, <3>2
    <3> QED
      BY ZenonT(30), <1>0, <1>2, <3>1, <3>2, <3>3 DEF Areas, Apart
  <2> QED
    BY ZenonT(30), <2>1, <2>2 DEF Areas, Apart
<1>6. ASSUME NEW v \in DOMAIN P
      PROVE  \E a \in areas[p] : /\ v \in Span(a) /\ v \in DOMAIN a.frames /\ a.frames[v] = P[v].f /\ (P[v].w => a.w)
                                 /\ P[v] \in Entries
  <2>1. PICK a \in areas[p] : v \in Span(a) /\ v \in DOMAIN a.frames /\ a.frames[v] = pte[p][v].f
    BY ZenonT(30), <1>0, <1>1 DEF Tracked
  <2> QED
    BY ZenonT(30), <1>1, <2>1, ForkEntry
<1>7. Table(P)
  BY ZenonT(30), <1>0, <1>1, <1>6 DEF Table
<1>8. Tracked(areas[p], P)
  BY ZenonT(30), <1>6 DEF Tracked
<1>9. Tracked(S, P)
  <2> SUFFICES ASSUME NEW v \in DOMAIN P
               PROVE  \E b \in S : /\ v \in Span(b) /\ v \in DOMAIN b.frames /\ b.frames[v] = P[v].f
                                   /\ P[v].w => b.w
    BY ZenonT(30) DEF Tracked
  <2>1. PICK a \in areas[p] : v \in Span(a) /\ v \in DOMAIN a.frames /\ a.frames[v] = P[v].f /\ (P[v].w => a.w)
    BY ZenonT(30), <1>6
  <2>2. Copy(a) \in S
    BY ZenonT(30), <1>3
  <2>3. v \in Span(Copy(a)) /\ v \in DOMAIN Copy(a).frames /\ Copy(a).frames[v] = P[v].f /\ (P[v].w => Copy(a).w)
    BY ZenonT(30), <1>1, <1>2, <2>1
  <2> QED
    BY ZenonT(30), <2>2, <2>3
<1>10. HeapOK(S, brk[p], uses)
  <2> SUFFICES ASSUME NEW b \in S
               PROVE  /\ b.type = "heap" => /\ "brk" \in uses.calls /\ b.lo = HeapBottom /\ b.hi = brk[p]
                                            /\ \A c \in S : c.type = "heap" => c = b
                      /\ b.type = "elf" => b.lo = 0 /\ b.hi = 1
    BY ZenonT(30) DEF HeapOK
  <2>1. PICK a \in areas[p] : b = Copy(a)
    BY ZenonT(30), <1>4
  <2>2. /\ a.type = "heap" => "brk" \in uses.calls /\ a.lo = HeapBottom /\ a.hi = brk[p] /\ \A c \in areas[p] : c.type = "heap" => c = a
        /\ a.type = "elf" => a.lo = 0 /\ a.hi = 1
    BY ZenonT(30), <1>0 DEF HeapOK
  <2>3. b.type = a.type /\ b.lo = a.lo /\ b.hi = a.hi
    BY ZenonT(30), <1>2, <2>1
  <2>4. ASSUME b.type = "heap", NEW c \in S, c.type = "heap" PROVE c = b
    <3>1. PICK d \in areas[p] : c = Copy(d)
      BY ZenonT(30), <1>4
    <3>2. d = a
      BY ZenonT(30), <1>2, <2>2, <2>3, <2>4, <3>1
    <3> QED
      BY ZenonT(30), <2>1, <3>1, <3>2
  <2> QED
    BY ZenonT(30), <2>2, <2>3, <2>4
<1>11. \A b \in S : \E a \in areas[p] : /\ Span(b) = Span(a) /\ b.shared = a.shared
                                        /\ DOMAIN b.frames \subseteq DOMAIN a.frames
                                        /\ \A v \in DOMAIN b.frames : b.frames[v] = a.frames[v]
  <2> SUFFICES ASSUME NEW b \in S PROVE \E a \in areas[p] : /\ Span(b) = Span(a) /\ b.shared = a.shared
                                        /\ DOMAIN b.frames \subseteq DOMAIN a.frames
                                        /\ \A v \in DOMAIN b.frames : b.frames[v] = a.frames[v]
    BY ZenonT(30)
  <2>1. PICK a \in areas[p] : b = Copy(a)
    BY <1>4
  <2> QED
    BY ZenonT(30), <1>2, <2>1
<1> QED
  BY ZenonT(30), <1>1, <1>5, <1>7, <1>8, <1>9, <1>10, <1>11

(* fork and vfork: no private page stays writable on either side.          *)
LEMMA ForkKeeps ==
  ASSUME IInv, NEW p, NEW c \in Procs, NEW vfork \in BOOLEAN, Fork(p, c, vfork)
  PROVE  Keeps
<1>1. PICK S : S = Forked(p)
  BY ZenonT(30)
<1>2. PICK P : P = ForkPtes(p)
  BY ZenonT(30)
<1>3. /\ p \in live /\ c \notin live /\ live' = live \cup {c}
      /\ areas' = [areas EXCEPT ![c] = S] /\ pte' = [pte EXCEPT ![p] = P, ![c] = P]
      /\ brk' = [brk EXCEPT ![c] = brk[p]]
      /\ vparent' = [vparent EXCEPT ![c] = IF vfork THEN p ELSE Nobody]
      /\ borrows' = [borrows EXCEPT ![c] = IF vfork THEN p ELSE Nobody]
      /\ UNCHANGED <<mem, file, cache, uses>>
  BY ZenonT(30), <1>1, <1>2 DEF Fork
<1>4. Shares(uses)
  BY ZenonT(30) DEF Fork, Shares
<1>5. p \in Procs /\ p # c /\ DOMAIN areas = Procs /\ DOMAIN pte = Procs /\ live \subseteq Procs
  BY ZenonT(30), <1>3 DEF IInv, Typed
<1>6. /\ DOMAIN areas' = Procs /\ DOMAIN pte' = Procs /\ areas'[c] = S /\ pte'[c] = P /\ pte'[p] = P
      /\ areas'[p] = areas[p]
      /\ \A q \in Procs \ {c} : areas'[q] = areas[q] /\ (q # p => pte'[q] = pte[q])
  BY ZenonT(30), <1>3, <1>5
<1>7. /\ Areas(S) /\ Table(P) /\ Tracked(areas[p], P) /\ Tracked(S, P) /\ HeapOK(S, brk[p], uses)
      /\ DOMAIN P = DOMAIN pte[p]
      /\ \A b \in S : \E a \in areas[p] : /\ Span(b) = Span(a) /\ b.shared = a.shared
                                          /\ DOMAIN b.frames \subseteq DOMAIN a.frames
                                          /\ \A v \in DOMAIN b.frames : b.frames[v] = a.frames[v]
  BY <1>1, <1>2, <1>3, ForkSpace
<1>8. \A q \in Procs : Areas(areas'[q]) /\ Table(pte'[q])
  BY ZenonT(30), <1>6, <1>7 DEF IInv, Typed
<1>9. /\ brk' \in [Procs -> HeapBottom .. NPages] /\ brk'[c] = brk[p] /\ \A q \in Procs \ {c} : brk'[q] = brk[q]
      /\ vparent' \in [Procs -> Procs \cup {Nobody}] /\ borrows' \in [Procs -> Procs \cup {Nobody}]
  BY ZenonT(30), <1>3, <1>5 DEF IInv, Typed
<1>10. Typed'
  BY ZenonT(30), <1>3, <1>5, <1>6, <1>8, <1>9 DEF IInv, Typed
<1>11. SpacesOK'
  <2>1. ASSUME NEW q \in live' PROVE Tracked(areas'[q], pte'[q]) /\ HeapOK(areas'[q], brk'[q], uses)
    <3>1. CASE q = c
      BY ZenonT(30), <1>6, <1>7, <1>9, <3>1
    <3>2. CASE q = p
      BY ZenonT(30), <1>3, <1>5, <1>6, <1>7, <1>9, <3>2 DEF IInv, SpacesOK
    <3>3. CASE q # c /\ q # p
      BY ZenonT(30), <1>3, <1>5, <1>6, <1>9, <3>3 DEF IInv, SpacesOK
    <3> QED
      BY ZenonT(30), <3>1, <3>2, <3>3
  <2> QED
    BY ZenonT(30), <1>3, <2>1 DEF SpacesOK
<1>12. \A v, f : Tracks(S, v, f) => Tracks(areas[p], v, f)
  BY ZenonT(30), <1>7 DEF Tracks
<1>13. ASSUME NEW f \in Frames, f \in Used' PROVE f \in Used
  <2>1. f \in UsedBy(areas', live', cache')
    BY ZenonT(30), <1>13, UsedNow
  <2>2. (\E q \in live' : \E u : Tracks(areas'[q], u, f)) \/ \E k \in DOMAIN cache' : cache'[k] = f
    BY <2>1, UsedIs
  <2>3. (\E q \in live : \E u : Tracks(areas[q], u, f)) \/ \E k \in DOMAIN cache : cache[k] = f
    BY ZenonT(30), <1>3, <1>5, <1>6, <1>12, <2>2
  <2> QED
    BY ZenonT(30), <2>3, UsedIs, UsedNow
<1>14. Filled'
  BY ZenonT(30), <1>3, <1>13 DEF IInv, Filled
<1>15. ASSUME Owned PROVE Owned'
  <2> SUFFICES ASSUME NEW q \in live', NEW a \in areas'[q], NEW v \in DOMAIN a.frames, ~a.shared,
                      v \in DOMAIN pte'[q] /\ pte'[q][v].w
               PROVE  Only(q, v, a.frames[v])'
    BY ZenonT(30), <1>3, <1>4 DEF Owned
  <2>1. q # c
    <3> SUFFICES ASSUME q = c PROVE FALSE
      BY ZenonT(30)
    <3>1. PICK b \in areas[p] : Span(a) = Span(b) /\ a.shared = b.shared
      BY ZenonT(30), <1>6, <1>7
    <3>2. v \in Span(b)
      BY ZenonT(30), <1>6, <1>7, <3>1 DEF Areas, AreaOK
    <3> QED
      BY ZenonT(30), <1>2, <1>3, <1>6, <1>7, <3>1, <3>2, ForkEntry
  <2>2. q # p
    <3> SUFFICES ASSUME q = p PROVE FALSE
      BY ZenonT(30)
    <3>1. a \in areas[p] /\ v \in Span(a)
      BY ZenonT(30), <1>5, <1>6 DEF IInv, Typed, Areas, AreaOK
    <3> QED
      BY <1>2, <1>3, <1>6, <1>7, <3>1, ForkEntry
  <2>3. q \in live /\ a \in areas[q] /\ Only(q, v, a.frames[v])
    BY ZenonT(30), <1>3, <1>5, <1>6, <1>15, <2>1, <2>2 DEF Owned
  <2>4. PICK f : f = a.frames[v]
    BY ZenonT(30)
  <2>5. ASSUME NEW r \in live', NEW u \in Pages, Tracks(areas'[r], u, f) PROVE r = q /\ u = v
    BY ZenonT(30), <1>3, <1>5, <1>6, <1>12, <2>2, <2>3, <2>4, <2>5 DEF Only
  <2> QED
    BY ZenonT(30), <1>3, <2>3, <2>4, <2>5 DEF Only
<1> QED
  BY ZenonT(30), <1>10, <1>11, <1>14, <1>15 DEF Keeps, IInv

-----------------------------------------------------------------------------
(* A new area a beside the areas K, which are parts of those of p; T is    *)
(* the page table without the pages that went.                             *)
NewSpace(p, a, K, T) ==
  /\ Areas(K) /\ Table(T) /\ Tracked(K, T) /\ PartsOf(K, areas[p])
  /\ \A v \in DOMAIN T : v \in DOMAIN pte[p] /\ T[v] = pte[p][v]
  /\ AreaOK(a) /\ DOMAIN a.frames = {} /\ \A b \in K : Span(b) \cap Span(a) = {}
  /\ a.type = "shfile" => a.shared
  /\ HeapOK(K, brk'[p], uses) /\ a.type # "elf"
  /\ a.type = "heap" => /\ "brk" \in uses.calls /\ a.lo = HeapBottom /\ a.hi = brk'[p]
                        /\ \A b \in K : b.type # "heap"

(* What does not depend on the frames of the new area.                     *)
LEMMA AreaEntered ==
  ASSUME NEW p, NEW a, NEW K, NEW T, NewSpace(p, a, K, T),
         NEW b, AreaOK(b), b.lo = a.lo, b.hi = a.hi, b.type = a.type, NEW S, S = K \cup {b}
  PROVE  Areas(S) /\ HeapOK(S, brk'[p], uses) /\ \A v \in DOMAIN T : v \notin Span(a)
<1>1. Span(b) = Span(a)
  BY ZenonT(30) DEF Span
<1>2. Areas(S)
  BY ZenonT(30), <1>1 DEF NewSpace, Areas, Apart
<1>3. HeapOK(S, brk'[p], uses)
  BY ZenonT(30) DEF NewSpace, HeapOK
<1>4. \A v \in DOMAIN T : v \notin Span(a)
  BY ZenonT(30) DEF NewSpace, Tracked
<1> QED
  BY ZenonT(30), <1>2, <1>3, <1>4

(* The private writable pages that stay keep their one owner.              *)
LEMMA KeptOwned ==
  ASSUME IInv, Owned, NEW p \in live, NEW a, NEW K, NEW T, NewSpace(p, a, K, T),
         NEW c \in K, NEW v \in DOMAIN c.frames, ~c.shared, ~Shares(uses) \/ (v \in DOMAIN T /\ T[v].w)
  PROVE  Only(p, v, c.frames[v])
<1>1. PICK b \in areas[p] : Part(c, b)
  BY ZenonT(30) DEF NewSpace, PartsOf
<1>2. AreaOK(b)
  BY ZenonT(30) DEF IInv, Typed, Areas
<1>3. v \in DOMAIN b.frames /\ c.frames[v] = b.frames[v] /\ ~b.shared
  BY ZenonT(30), <1>1, <1>2, PartSpan DEF Part
<1>4. ~Shares(uses) \/ (v \in DOMAIN pte[p] /\ pte[p][v].w)
  BY ZenonT(30) DEF NewSpace
<1> QED
  BY ZenonT(30), <1>3, <1>4 DEF Owned

(* A step that keeps everything but the address space of p and its break.  *)
RestKept(p) ==
  /\ UNCHANGED <<live, vparent, borrows, file, uses>>
  /\ brk' \in [Procs -> HeapBottom .. NPages] /\ \A q \in live \ {p} : brk'[q] = brk[q]

(* A lazy mapping is entered.                                              *)
LEMMA EnterLazyKeeps ==
  ASSUME IInv, NEW p \in live, NEW a, NEW K, NEW T, NewSpace(p, a, K, T), RestKept(p), EnterLazy(p, a, K, T)
  PROVE  Keeps
<1>1. PICK S : S = K \cup {a}
  BY ZenonT(30)
<1>2. /\ areas' = [areas EXCEPT ![p] = S] /\ pte' = [pte EXCEPT ![p] = T] /\ cache' = cache /\ Contents(mem)
  BY ZenonT(30), <1>1 DEF EnterLazy
<1>3. Typed /\ SpacesOK /\ Filled /\ UNCHANGED <<live, uses>>
  BY ZenonT(30) DEF IInv, RestKept
<1>4. OneSpace(p, S, T)
  BY ZenonT(30), <1>2, <1>3, OneSpaceIs
<1>5. Areas(S) /\ HeapOK(S, brk'[p], uses) /\ Table(T) /\ AreaOK(a) /\ DOMAIN a.frames = {}
  BY ZenonT(30), <1>1, AreaEntered DEF NewSpace
<1>6. Tracked(S, T)
  BY ZenonT(30), <1>1 DEF NewSpace, Tracked
<1>7. p \in Procs /\ \A b \in areas[p] : AreaOK(b)
  BY ZenonT(30) DEF IInv, Typed, Areas
<1>8. ASSUME NEW v, NEW f, Tracks(S, v, f) PROVE Tracks(areas[p], v, f)
  <2>1. Tracks(K, v, f)
    BY ZenonT(30), <1>1, <1>5, <1>8 DEF Tracks
  <2>2. PartsOf(K, areas[p])
    BY ZenonT(30) DEF NewSpace
  <2> QED
    BY ZenonT(30), <1>7, <2>1, <2>2, PartsTrack
<1>9. ASSUME NEW f \in Frames, f \in Used' PROVE mem[f] \in Values
  <2>1. f \in UsedBy(areas', live', cache')
    BY ZenonT(30), <1>9, UsedNow
  <2>2. (\E q \in live' : \E u : Tracks(areas'[q], u, f)) \/ \E k \in DOMAIN cache' : cache'[k] = f
    BY <2>1, UsedIs
  <2>3. ASSUME NEW q \in live', NEW u, Tracks(areas'[q], u, f) PROVE q \in live /\ Tracks(areas[q], u, f)
    <3>1. q \in live /\ q \in Procs
      BY ZenonT(30), <1>3 DEF Typed
    <3> QED
      BY ZenonT(30), <1>4, <1>8, <2>3, <3>1 DEF OneSpace
  <2>4. (\E q \in live : \E u : Tracks(areas[q], u, f)) \/ \E k \in DOMAIN cache : cache[k] = f
    BY ZenonT(30), <1>2, <2>2, <2>3
  <2>5. f \in Used
    BY ZenonT(30), <2>4, UsedIs, UsedNow
  <2> QED
    BY ZenonT(30), <1>3, <2>5 DEF Filled
<1>10. mem' \in [Frames -> Values \cup {Garbage}] /\ Filled'
  BY ZenonT(30), <1>2, <1>9, ContentsFill
<1>11. Typed' /\ SpacesOK'
  BY ZenonT(30), <1>2, <1>3, <1>4, <1>5, <1>6, <1>10, RestTyped, OneSpaceKeeps DEF RestKept
<1>12. ASSUME Owned PROVE Owned'
  <2>1. AddsNew(p, S) /\ CachesShared(p, S)
    BY ZenonT(30), <1>2, <1>8 DEF AddsNew, CachesShared
  <2>2. OwnedIn(p, S, T)
    <3>1. \A c \in S : \A v \in DOMAIN c.frames : c \in K
      BY ZenonT(30), <1>1, <1>5
    <3> QED
      BY ZenonT(30), <1>12, <3>1, KeptOwned DEF OwnedIn
  <2> QED
    BY ZenonT(30), <1>3, <1>4, <1>5, <1>12, <2>1, <2>2, OneSpaceOwned
<1> QED
  BY ZenonT(30), <1>10, <1>11, <1>12 DEF Keeps, IInv

(* The frames of the page cache that a shared file mapping takes.          *)
LEMMA CachedAre ==
  ASSUME NEW a, NEW v \in DOMAIN Cached(a)
  PROVE  /\ a.type = "shfile" /\ v \in Span(a) /\ PageOf(a, v) \in DOMAIN cache
         /\ Cached(a)[v] = cache[PageOf(a, v)]
<1>1. a.type = "shfile"
  BY ZenonT(30) DEF Cached, Empty
<1>2. PICK D : D = {u \in Span(a) : PageOf(a, u) \in DOMAIN cache}
  BY ZenonT(30)
<1>3. PICK h : h = [u \in Span(a) |-> IF PageOf(a, u) \in DOMAIN cache THEN cache[PageOf(a, u)] ELSE Nobody]
  BY ZenonT(30)
<1>4. Cached(a) = Restrict(h, D)
  BY ZenonT(30), <1>1, <1>2, <1>3 DEF Cached
<1>5. Cached(a) = [u \in D |-> h[u]]
  BY ZenonT(30), <1>4 DEF Restrict
<1>6. v \in D /\ Cached(a)[v] = h[v]
  BY ZenonT(30), <1>5
<1> QED
  BY ZenonT(30), <1>1, <1>2, <1>3, <1>6

(* The new frames of an eager mapping: distinct, from the pool, and only   *)
(* for pages that the cache does not give.                                 *)
LEMMA NewFramesAre ==
  ASSUME NEW a, NEW pool, NEW g \in NewFrames(a, pool)
  PROVE  /\ g = [v \in DOMAIN g |-> g[v]] /\ \A v \in DOMAIN g : g[v] \in pool /\ v \in Span(a) /\ v \notin DOMAIN Cached(a)
         /\ \A u, v \in DOMAIN g : g[u] = g[v] => u = v
<1>1. PICK n : n = IF Cardinality(Missing(a)) <= Cardinality(pool) THEN Cardinality(Missing(a)) ELSE Cardinality(pool)
  BY ZenonT(30)
<1>2. PICK D : D = {v \in Missing(a) : Cardinality({u \in Missing(a) : u < v}) < n}
  BY ZenonT(30)
<1>3. g \in Injection(D, pool)
  BY ZenonT(30), <1>1, <1>2 DEF NewFrames
<1>4. g \in [D -> pool] /\ \A u, v \in D : g[u] = g[v] => u = v
  BY ZenonT(30), <1>3 DEF Injection, IsInjective
<1>5. \A v \in D : v \in Span(a) /\ v \notin DOMAIN Cached(a)
  BY ZenonT(30), <1>2 DEF Missing
<1> QED
  BY ZenonT(30), <1>4, <1>5

(* The pool is unused outside the areas that go.                           *)
LEMMA PoolIs ==
  ASSUME NEW p, NEW K, NEW f, f \in Frames \ (FramesOf(K) \cup UsedElsewhere(p))
  PROVE  /\ f \in Frames /\ \A u : ~Tracks(K, u, f)
         /\ \A q \in live \ {p} : \A u : ~Tracks(areas[q], u, f)
         /\ \A k \in DOMAIN cache : cache[k] # f
<1>1. f \notin FramesOf(K) /\ f \notin UsedBy(areas, live \ {p}, cache)
  BY ZenonT(30) DEF UsedElsewhere, UsedBy
<1>2. \A u : ~Tracks(K, u, f)
  BY <1>1 DEF FramesOf, Tracks, Range
<1>3. /\ \A q \in live \ {p} : \A u : ~Tracks(areas[q], u, f)
      /\ \A k \in DOMAIN cache : cache[k] # f
  BY ZenonT(30), <1>1, UsedIs
<1> QED
  BY ZenonT(30), <1>2, <1>3

(* The frames fs of an eager mapping: new ones g, or those of the cache.   *)
Eager(a, g, K, p, fs) ==
  /\ DOMAIN fs = DOMAIN g \cup DOMAIN Cached(a) /\ fs \in FrameMaps /\ DOMAIN fs \subseteq Span(a)
  /\ \A v \in DOMAIN g : fs[v] = g[v]
  /\ \A u, v \in DOMAIN g : g[u] = g[v] => u = v
  /\ \A v \in DOMAIN g : /\ g[v] \in Frames /\ \A u : ~Tracks(K, u, g[v])
                         /\ \A q \in live \ {p} : \A u : ~Tracks(areas[q], u, g[v])
                         /\ \A k \in DOMAIN cache : cache[k] # g[v]
  /\ \A v \in DOMAIN fs : v \notin DOMAIN g => a.type = "shfile" /\ \E k \in DOMAIN cache : cache[k] = fs[v]

(* MapEagerly takes such frames.                                           *)
LEMMA EagerIs ==
  ASSUME IInv, NEW p, NEW K, NEW a, AreaOK(a),
         NEW g \in NewFrames(a, Frames \ (FramesOf(K) \cup UsedElsewhere(p))),
         NEW fs, fs = [v \in DOMAIN g \cup DOMAIN Cached(a) |-> IF v \in DOMAIN g THEN g[v] ELSE Cached(a)[v]]
  PROVE  Eager(a, g, K, p, fs)
<1>1. PICK pool : pool = Frames \ (FramesOf(K) \cup UsedElsewhere(p))
  BY ZenonT(30)
<1>2. /\ \A v \in DOMAIN g : g[v] \in pool /\ v \in Span(a) /\ v \notin DOMAIN Cached(a)
      /\ \A u, v \in DOMAIN g : g[u] = g[v] => u = v
  BY <1>1, NewFramesAre
<1>3. \A v \in DOMAIN g : /\ g[v] \in Frames /\ \A u : ~Tracks(K, u, g[v])
                          /\ \A q \in live \ {p} : \A u : ~Tracks(areas[q], u, g[v])
                          /\ \A k \in DOMAIN cache : cache[k] # g[v]
  BY ZenonT(30), <1>1, <1>2, PoolIs
<1>4. DOMAIN fs = DOMAIN g \cup DOMAIN Cached(a) /\ \A v \in DOMAIN g : fs[v] = g[v]
  BY ZenonT(30)
<1>5. ASSUME NEW v \in DOMAIN fs, v \notin DOMAIN g
      PROVE  a.type = "shfile" /\ v \in Span(a) /\ \E k \in DOMAIN cache : cache[k] = fs[v]
  <2>1. v \in DOMAIN Cached(a) /\ fs[v] = Cached(a)[v]
    BY ZenonT(30), <1>5
  <2>2. a.type = "shfile" /\ v \in Span(a) /\ PageOf(a, v) \in DOMAIN cache /\ Cached(a)[v] = cache[PageOf(a, v)]
    BY ZenonT(30), <2>1, CachedAre
  <2> QED
    BY ZenonT(30), <2>1, <2>2
<1>6. DOMAIN fs \subseteq Span(a)
  BY ZenonT(30), <1>2, <1>4, <1>5
<1>7. \A v \in DOMAIN fs : fs[v] \in Frames
  BY ZenonT(30), <1>3, <1>4, <1>5 DEF IInv, Typed
<1>8. DOMAIN fs \subseteq Pages
  <2>1. a.lo \in Nat /\ a.hi \in Nat /\ a.hi <= NPages
    BY ZenonT(30) DEF AreaOK, AreaRecords
  <2> QED
    BY <1>6, <2>1, MemoryAssumption DEF Span, Pages
<1>9. fs \in [DOMAIN fs -> Frames]
  BY ZenonT(30), <1>7
<1>10. fs \in FrameMaps
  BY ZenonT(30), <1>8, <1>9, FrameMapOf
<1> QED
  BY ZenonT(30), <1>2, <1>3, <1>4, <1>5, <1>6, <1>10 DEF Eager

(* The page table entry of a page that is mapped eagerly.                  *)
LEMMA EagerEntry ==
  ASSUME NEW f \in Frames, NEW w \in BOOLEAN, NEW old, ~old, NEW e, e = [f |-> f, w |-> w \/ old]
  PROVE  e \in Entries /\ e.f = f /\ e.w = w
<1>1. PICK x : x = (w \/ old)
  BY ZenonT(30)
<1>2. x \in BOOLEAN /\ x = w
  <2>1. CASE w = TRUE
    <3>1. TRUE = (w \/ old)
      BY ZenonT(30), <2>1
    <3> QED
      BY ZenonT(30), <1>1, <2>1, <3>1
  <2>2. CASE w = FALSE
    <3>1. FALSE = (w \/ old)
      BY ZenonT(30), <2>2
    <3> QED
      BY ZenonT(30), <1>1, <2>2, <3>1
  <2> QED
    BY ZenonT(30), <2>1, <2>2
<1>3. e = [f |-> f, w |-> x]
  BY ZenonT(30), <1>1
<1> QED
  BY <1>2, <1>3 DEF Entries

(* The page cache after a shared file is mapped.                           *)
CacheWith(a, g) == [k \in DOMAIN cache \cup {PageOf(a, v) : v \in DOMAIN g} |->
                      IF k \in DOMAIN cache THEN cache[k] ELSE g[k - a.base + a.lo]]
(* It gets new frames of the mapping only.                                 *)
LEMMA CacheGrows ==
  ASSUME Typed, NEW a, AreaOK(a), NEW g, \A v \in DOMAIN g : v \in Span(a) /\ g[v] \in Frames,
         NEW C, C = CacheWith(a, g)
  PROVE  /\ DOMAIN C \subseteq Nat /\ \A k \in DOMAIN C : C[k] \in Frames
         /\ \A k \in DOMAIN C : (\E j \in DOMAIN cache : cache[j] = C[k]) \/ \E v \in DOMAIN g : C[k] = g[v]
<1>1. a.lo \in Nat /\ a.hi \in Nat /\ a.base \in Nat
  BY ZenonT(30) DEF AreaOK, AreaRecords
<1>2. ASSUME NEW v \in DOMAIN g PROVE PageOf(a, v) \in Nat /\ PageOf(a, v) - a.base + a.lo = v
  <2>1. v \in Int /\ v >= a.lo
    BY <1>1 DEF Span
  <2> QED
    BY <1>1, <2>1 DEF PageOf
<1>3. ASSUME NEW k \in DOMAIN C
      PROVE  k \in Nat /\ ((\E j \in DOMAIN cache : cache[j] = C[k]) \/ \E v \in DOMAIN g : C[k] = g[v])
  <2>1. CASE k \in DOMAIN cache
    BY ZenonT(30), <2>1 DEF Typed, CacheWith
  <2>2. CASE k \notin DOMAIN cache
    <3>1. PICK v \in DOMAIN g : k = PageOf(a, v)
      BY ZenonT(30), <2>2 DEF CacheWith
    <3>2. C[k] = g[k - a.base + a.lo]
      BY ZenonT(30), <2>2 DEF CacheWith
    <3> QED
      BY ZenonT(30), <1>2, <3>1, <3>2
  <2> QED
    BY ZenonT(30), <2>1, <2>2
<1> QED
  BY ZenonT(30), <1>3 DEF Typed

(* push and insert_shared_file_mmap_area.                                  *)
LEMMA MapEagerlyKeeps ==
  ASSUME IInv, NEW p \in live, NEW a, NEW K, NEW T, NewSpace(p, a, K, T), RestKept(p), MapEagerly(p, a, K, T)
  PROVE  Keeps
<1> DEFINE shfile == a.type = "shfile"
           there(v) == ~shfile /\ v \in DOMAIN T
           content(v) == IF shfile THEN FilePage(PageOf(a, v)) ELSE IF there(v) THEN mem[T[v].f] ELSE 0
<1>0. /\ Typed /\ SpacesOK /\ Filled /\ UNCHANGED <<live, uses>>
      /\ AreaOK(a) /\ a.w \in BOOLEAN /\ Table(T) /\ PartsOf(K, areas[p]) /\ p \in Procs
  BY ZenonT(30) DEF IInv, RestKept, NewSpace, AreaOK, AreaRecords, Typed
<1>1. PICK g \in NewFrames(a, Frames \ (FramesOf(K) \cup UsedElsewhere(p))) :
        LET fs == [v \in DOMAIN g \cup DOMAIN Cached(a) |-> IF v \in DOMAIN g THEN g[v] ELSE Cached(a)[v]]
        IN  /\ areas' = [areas EXCEPT ![p] = K \cup {[a EXCEPT !.frames = fs]}]
            /\ pte' = [pte EXCEPT ![p] =
                         [v \in DOMAIN T \cup DOMAIN fs |->
                            IF v \in DOMAIN fs THEN [f |-> fs[v], w |-> a.w \/ (there(v) /\ T[v].w)] ELSE T[v]]]
            /\ cache' = IF shfile THEN [k \in DOMAIN cache \cup {PageOf(a, v) : v \in DOMAIN g} |->
                                        IF k \in DOMAIN cache THEN cache[k] ELSE g[k - a.base + a.lo]]
                        ELSE cache
            /\ Contents([f \in Frames |-> IF f \in Range(g) THEN content(CHOOSE v \in DOMAIN g : g[v] = f)
                                          ELSE mem[f]])
  BY ZenonT(30) DEF MapEagerly
<1>2. PICK fs : fs = [v \in DOMAIN g \cup DOMAIN Cached(a) |-> IF v \in DOMAIN g THEN g[v] ELSE Cached(a)[v]]
  BY ZenonT(30)
<1>3. PICK b : b = [a EXCEPT !.frames = fs]
  BY ZenonT(30)
<1>4. PICK S : S = K \cup {b}
  BY ZenonT(30)
<1>5. PICK P : P = [v \in DOMAIN T \cup DOMAIN fs |->
                     IF v \in DOMAIN fs THEN [f |-> fs[v], w |-> a.w \/ (there(v) /\ T[v].w)] ELSE T[v]]
  BY ZenonT(30)
<1>6. PICK m : m = [f \in Frames |-> IF f \in Range(g) THEN content(CHOOSE v \in DOMAIN g : g[v] = f) ELSE mem[f]]
  BY ZenonT(30)
<1>7. /\ areas' = [areas EXCEPT ![p] = S] /\ pte' = [pte EXCEPT ![p] = P] /\ Contents(m)
      /\ cache' = IF shfile THEN [k \in DOMAIN cache \cup {PageOf(a, v) : v \in DOMAIN g} |->
                                    IF k \in DOMAIN cache THEN cache[k] ELSE g[k - a.base + a.lo]]
                  ELSE cache
  BY ZenonT(30), <1>1, <1>2, <1>3, <1>4, <1>5, <1>6
<1>8. Eager(a, g, K, p, fs)
  BY ZenonT(30), <1>0, <1>2, EagerIs
<1>9. DOMAIN fs \subseteq Span(a) /\ DOMAIN g \subseteq DOMAIN fs /\ fs \in FrameMaps /\ \A v \in DOMAIN fs : fs[v] \in Frames
  BY ZenonT(30), <1>8, FrameMapIs DEF Eager
<1>10. /\ AreaOK(b) /\ Span(b) = Span(a) /\ b.frames = fs /\ b.lo = a.lo /\ b.hi = a.hi /\ b.w = a.w
       /\ b.shared = a.shared /\ b.type = a.type
  BY <1>0, <1>3, <1>9, FramesSet
<1>11. Areas(S) /\ HeapOK(S, brk'[p], uses) /\ \A v \in DOMAIN T : v \notin Span(a)
  BY ZenonT(30), <1>4, <1>10, AreaEntered
<1>12. OneSpace(p, S, P)
  BY ZenonT(30), <1>0, <1>7, OneSpaceIs
<1>13. ASSUME NEW v \in DOMAIN fs PROVE P[v] \in Entries /\ P[v].f = fs[v] /\ P[v].w = a.w
  <2>1. PICK old : old = (there(v) /\ T[v].w)
    BY ZenonT(30)
  <2>2. ~old
    BY ZenonT(30), <1>9, <1>11, <2>1
  <2>3. P[v] = [f |-> fs[v], w |-> a.w \/ old]
    BY ZenonT(30), <1>5, <2>1
  <2> QED
    BY <1>0, <1>9, <2>2, <2>3, EagerEntry
<1>14. DOMAIN P = DOMAIN T \cup DOMAIN fs /\ \A v \in DOMAIN T : v \notin DOMAIN fs /\ P[v] = T[v]
  BY ZenonT(30), <1>5, <1>9, <1>11
<1> HIDE DEF shfile, there, content
<1>15. Table(P)
  <2>1. DOMAIN fs \subseteq Pages
    BY ZenonT(30), <1>9, FrameMapIs
  <2> QED
    BY ZenonT(30), <1>0, <1>13, <1>14, <2>1 DEF Table
<1>16. Tracked(S, P)
  <2> SUFFICES ASSUME NEW v \in DOMAIN P
               PROVE  \E c \in S : /\ v \in Span(c) /\ v \in DOMAIN c.frames /\ c.frames[v] = P[v].f
                                   /\ P[v].w => c.w
    BY ZenonT(30) DEF Tracked
  <2>1. CASE v \in DOMAIN fs
    BY ZenonT(30), <1>4, <1>9, <1>10, <1>13, <2>1
  <2>2. CASE v \notin DOMAIN fs
    <3>1. v \in DOMAIN T /\ P[v] = T[v] /\ Tracked(K, T)
      BY ZenonT(30), <1>14, <2>2 DEF NewSpace
    <3> QED
      BY ZenonT(30), <1>4, <3>1 DEF Tracked
  <2> QED
    BY ZenonT(30), <2>1, <2>2
<1>17. ASSUME NEW v, NEW f, Tracks(S, v, f)
       PROVE  Tracks(K, v, f) \/ (v \in DOMAIN fs /\ fs[v] = f)
  BY ZenonT(30), <1>4, <1>10, <1>17 DEF Tracks
<1>18. ASSUME NEW v, NEW f, Tracks(K, v, f) PROVE Tracks(areas[p], v, f)
  BY ZenonT(30), <1>0, <1>18, PartsTrack DEF Typed, Areas
<1>19. /\ DOMAIN cache' \subseteq Nat /\ \A k \in DOMAIN cache' : cache'[k] \in Frames
       /\ \A k \in DOMAIN cache' : \/ \E j \in DOMAIN cache : cache[j] = cache'[k]
                                   \/ shfile /\ \E v \in DOMAIN g : cache'[k] = g[v]
  <2>1. CASE shfile
    <3>1. PICK C : C = CacheWith(a, g)
      BY ZenonT(30)
    <3>2. cache' = C
      BY ZenonT(30), <1>7, <2>1, <3>1 DEF CacheWith
    <3>3. \A v \in DOMAIN g : v \in Span(a) /\ g[v] \in Frames
      BY ZenonT(30), <1>8, <1>9 DEF Eager
    <3>4. /\ DOMAIN C \subseteq Nat /\ \A k \in DOMAIN C : C[k] \in Frames
          /\ \A k \in DOMAIN C : (\E j \in DOMAIN cache : cache[j] = C[k]) \/ \E v \in DOMAIN g : C[k] = g[v]
      BY <1>0, <3>1, <3>3, CacheGrows
    <3> QED
      BY ZenonT(30), <2>1, <3>2, <3>4
  <2>2. CASE ~shfile
    BY ZenonT(30), <1>0, <1>7, <2>2 DEF Typed
  <2> QED
    BY ZenonT(30), <2>1, <2>2
<1>20. ASSUME NEW v \in DOMAIN g PROVE content(v) \in Values
  <2>1. v \notin DOMAIN T
    BY ZenonT(30), <1>9, <1>11
  <2>2. \A k : FilePage(k) \in Values
    BY ZenonT(30), <1>0, MemoryAssumption DEF FilePage, Typed
  <2> QED
    BY ZenonT(30), <2>1, <2>2, MemoryAssumption DEF content, there
<1>21. ASSUME NEW f \in Frames, f \in Used' PROVE m[f] \in Values
  <2>1. f \in UsedBy(areas', live', cache')
    BY ZenonT(30), <1>21, UsedNow
  <2>2. (\E q \in live' : \E u : Tracks(areas'[q], u, f)) \/ \E k \in DOMAIN cache' : cache'[k] = f
    BY <2>1, UsedIs
  <2>3. ASSUME NEW q \in live', NEW u, Tracks(areas'[q], u, f)
        PROVE  \/ \E v \in DOMAIN g : g[v] = f
               \/ \E k \in DOMAIN cache : cache[k] = f
               \/ \E r \in live : \E v : Tracks(areas[r], v, f)
    <3>1. q \in live /\ q \in Procs
      BY ZenonT(30), <1>0 DEF Typed
    <3>2. CASE q # p
      BY ZenonT(30), <1>12, <2>3, <3>1, <3>2 DEF OneSpace
    <3>3. CASE q = p
      <4>1. Tracks(S, u, f)
        BY ZenonT(30), <1>12, <2>3, <3>3 DEF OneSpace
      <4>2. CASE Tracks(K, u, f)
        BY ZenonT(30), <1>18, <4>2
      <4>3. CASE u \in DOMAIN fs /\ fs[u] = f
        BY ZenonT(30), <1>8, <4>3 DEF Eager
      <4> QED
        BY ZenonT(30), <1>17, <4>1, <4>2, <4>3
    <3> QED
      BY ZenonT(30), <3>2, <3>3
  <2>4. \/ \E v \in DOMAIN g : g[v] = f
        \/ (\E q \in live : \E u : Tracks(areas[q], u, f)) \/ \E k \in DOMAIN cache : cache[k] = f
    BY ZenonT(30), <1>19, <2>2, <2>3
  <2>5. (\E v \in DOMAIN g : g[v] = f) \/ f \in Used
    BY ZenonT(30), <2>4, UsedIs, UsedNow
  <2>6. CASE f \in Range(g)
    <3>1. PICK v : v = CHOOSE u \in DOMAIN g : g[u] = f
      BY ZenonT(30)
    <3>2. v \in DOMAIN g
      BY ZenonT(30), <2>6, <3>1 DEF Range
    <3>3. m[f] = content(v)
      BY ZenonT(30), <1>6, <2>6, <3>1
    <3> QED
      BY ZenonT(30), <1>20, <3>2, <3>3
  <2>7. CASE f \notin Range(g)
    <3>1. f \in Used
      BY ZenonT(30), <2>5, <2>7 DEF Range
    <3> QED
      BY ZenonT(30), <1>0, <1>6, <2>7, <3>1 DEF Filled
  <2> QED
    BY ZenonT(30), <2>6, <2>7
<1>22. mem' \in [Frames -> Values \cup {Garbage}] /\ Filled'
  BY ZenonT(30), <1>7, <1>21, ContentsFill
<1>23. Typed' /\ SpacesOK'
  BY ZenonT(30), <1>0, <1>11, <1>12, <1>15, <1>16, <1>19, <1>22, RestTyped, OneSpaceKeeps DEF RestKept
<1>24. ASSUME Owned PROVE Owned'
  <2>1. ASSUME NEW v \in DOMAIN g PROVE NewIn(S, p, v, g[v])
    <3>1. ASSUME NEW u, Tracks(S, u, g[v]) PROVE u = v
      <4>1. u \in DOMAIN fs /\ fs[u] = g[v]
        BY ZenonT(30), <1>8, <1>17, <3>1 DEF Eager
      <4>2. u \in DOMAIN g
        BY ZenonT(30), <1>8, <4>1 DEF Eager
      <4> QED
        BY ZenonT(30), <1>8, <4>1, <4>2 DEF Eager
    <3> QED
      BY ZenonT(30), <1>8, <3>1 DEF Eager, NewIn
  <2>2. AddsNew(p, S)
    <3> SUFFICES ASSUME NEW v \in Pages, NEW f \in Frames, Tracks(S, v, f)
                 PROVE  \/ Tracks(areas[p], v, f) \/ NewIn(S, p, v, f)
                        \/ \E k \in DOMAIN cache : cache[k] = f
      BY ZenonT(30) DEF AddsNew
    <3>1. CASE Tracks(K, v, f)
      BY ZenonT(30), <1>18, <3>1
    <3>2. CASE v \in DOMAIN fs /\ fs[v] = f
      BY ZenonT(30), <1>8, <2>1, <3>2 DEF Eager
    <3> QED
      BY ZenonT(30), <1>17, <3>1, <3>2
  <2>3. CachesShared(p, S)
    <3> SUFFICES ASSUME NEW k \in DOMAIN cache', ~ \E j \in DOMAIN cache : cache[j] = cache'[k]
                 PROVE  /\ \A c \in S : \A v \in DOMAIN c.frames : c.frames[v] = cache'[k] => c.shared
                        /\ \A q \in live \ {p}, u \in Pages : ~Tracks(areas[q], u, cache'[k])
      BY ZenonT(30) DEF CachesShared
    <3>1. PICK v \in DOMAIN g : cache'[k] = g[v] /\ shfile
      BY ZenonT(30), <1>19
    <3>2. ASSUME NEW c \in S, NEW u \in DOMAIN c.frames, c.frames[u] = g[v] PROVE c.shared
      <4>1. c \notin K
        BY ZenonT(30), <1>8, <3>1, <3>2 DEF Eager, Tracks
      <4>2. c = b
        BY ZenonT(30), <1>4, <4>1
      <4> QED
        BY ZenonT(30), <1>10, <3>1, <4>2 DEF NewSpace, shfile
    <3> QED
      BY ZenonT(30), <1>8, <3>1, <3>2 DEF Eager
  <2>4. OwnedIn(p, S, P)
    <3> SUFFICES ASSUME NEW c \in S, NEW v \in DOMAIN c.frames, ~c.shared, ~Shares(uses) \/ (v \in DOMAIN P /\ P[v].w)
                 PROVE  NewIn(S, p, v, c.frames[v]) \/ Only(p, v, c.frames[v])
      BY ZenonT(30) DEF OwnedIn
    <3>1. CASE c = b
      <4>1. ~shfile
        BY ZenonT(30), <1>10, <3>1 DEF NewSpace, shfile
      <4>2. v \in DOMAIN g /\ c.frames[v] = g[v]
        BY ZenonT(30), <1>8, <1>10, <3>1, <4>1 DEF Eager, shfile
      <4> QED
        BY ZenonT(30), <2>1, <4>2
    <3>2. CASE c \in K
      <4>1. v \notin Span(a)
        BY ZenonT(30), <3>2 DEF NewSpace, Areas, AreaOK
      <4>2. v \in DOMAIN P => v \in DOMAIN T /\ P[v] = T[v]
        BY ZenonT(30), <1>9, <1>14, <4>1
      <4> QED
        BY ZenonT(30), <1>24, <3>2, <4>2, KeptOwned
    <3> QED
      BY ZenonT(30), <1>4, <3>1, <3>2
  <2> QED
    BY ZenonT(30), <1>0, <1>11, <1>12, <1>24, <2>2, <2>3, <2>4, OneSpaceOwned
<1> QED
  BY ZenonT(30), <1>22, <1>23, <1>24 DEF Keeps, IInv

(* A new mapping beside areas that it does not overlap.                    *)
LEMMA MappingKeeps ==
  ASSUME IInv, NEW p \in live, NEW s \in Nat, NEW n \in Nat \ {0}, s + n <= NPages, NEW w \in BOOLEAN,
         NEW kind \in {"anon", "file", "shanon", "shfile"}, NEW k \in Nat, NEW K, NEW T,
         Areas(K), Table(T), Tracked(K, T), PartsOf(K, areas[p]), HeapOK(K, brk[p], uses),
         \A v \in DOMAIN T : v \in DOMAIN pte[p] /\ T[v] = pte[p][v],
         \A b \in K : ~Overlaps(b, s, s + n),
         UNCHANGED <<brk, live, vparent, borrows, file, uses>>,
         MapArea(p, NewArea(s, s + n, w, kind, k), K, T)
  PROVE  Keeps
<1>1. PICK h \in Nat : h = s + n /\ s < h
  OBVIOUS
<1>2. PICK a : a = NewArea(s, h, w, kind, k)
  BY ZenonT(30)
<1>3. /\ AreaOK(a) /\ a.lo = s /\ a.hi = h /\ a.type = kind /\ DOMAIN a.frames = {}
      /\ a.shared <=> kind \in {"shanon", "shfile"}
  <2>1. kind \in Kinds /\ s <= h /\ h <= NPages
    BY <1>1 DEF Kinds
  <2> QED
    BY <1>2, <2>1, NewAreaIs
<1>4. ASSUME NEW b \in K PROVE Span(b) \cap Span(a) = {}
  <2>1. b.lo \in Nat /\ b.hi \in Nat /\ ~(b.lo < h /\ b.hi > s)
    BY ZenonT(30), <1>1 DEF Areas, AreaOK, AreaRecords, Overlaps
  <2> QED
    BY <1>3, <2>1 DEF Span
<1>5. NewSpace(p, a, K, T)
  BY ZenonT(30), <1>3, <1>4 DEF NewSpace
<1>6. RestKept(p)
  BY ZenonT(30), RestTyped DEF RestKept, IInv
<1>7. MapArea(p, a, K, T)
  BY ZenonT(30), <1>1, <1>2
<1> QED
  BY ZenonT(30), <1>5, <1>6, <1>7, EnterLazyKeeps, MapEagerlyKeeps DEF MapArea

(* mmap at a place of the kernel's choice.                                 *)
LEMMA MmapKeeps ==
  ASSUME IInv, NEW p, NEW n \in uses.lengths, NEW w \in BOOLEAN, NEW kind \in uses.kinds, NEW k \in FilePages,
         Mmap(p, HeapBottom, n, w, kind, k)
  PROVE  Keeps
<1>1. PICK s \in Placed(p, HeapBottom, n) : MapArea(p, NewArea(s, s + n, w, kind, k), areas[p], pte[p])
  BY ZenonT(30) DEF Mmap
<1>2. p \in live /\ UNCHANGED <<brk, live, vparent, borrows, file, uses>>
  BY ZenonT(30) DEF Mmap
<1>3. uses \in Repertoires /\ p \in Procs
  BY ZenonT(30), <1>2 DEF IInv, Typed
<1>4. n \in Nat \ {0} /\ kind \in {"anon", "file", "shanon", "shfile"} /\ k \in Nat /\ uses.pages \in 1 .. NPages
  BY ZenonT(30), <1>3, MemoryAssumption
<1>5. s \in Nat /\ s + n <= NPages /\ \A b \in areas[p] : ~Overlaps(b, s, s + n)
  BY <1>4, MemoryAssumption DEF Placed, Fits
<1>6. Areas(areas[p]) /\ Table(pte[p]) /\ Tracked(areas[p], pte[p]) /\ HeapOK(areas[p], brk[p], uses)
  BY ZenonT(30), <1>2, <1>3 DEF IInv, Typed, SpacesOK
<1>7. PartsOf(areas[p], areas[p])
  BY ZenonT(30), <1>6, PartSelf DEF PartsOf, Areas
<1> QED
  BY ZenonT(30), <1>1, <1>2, <1>4, <1>5, <1>6, <1>7, MappingKeeps

(* mmap with MAP_FIXED, which first unmaps the range.                      *)
LEMMA MmapFixedKeeps ==
  ASSUME IInv, Regular(uses), NEW p, NEW s \in uses.fixed, NEW n \in uses.lengths, NEW w \in BOOLEAN,
         NEW kind \in uses.kinds, NEW k \in FilePages, MmapFixed(p, s, n, w, kind, k)
  PROVE  Keeps
<1>1. PICK K : K = CutAll(p, s, s + n)
  BY ZenonT(30)
<1>2. PICK T : T = CutPtes(p, s, s + n)
  BY ZenonT(30)
<1>3. /\ p \in live /\ s + n <= uses.pages /\ UNCHANGED <<brk, live, vparent, borrows, file, uses>>
      /\ MapArea(p, NewArea(s, s + n, w, kind, k), K, T)
  BY ZenonT(30), <1>1, <1>2 DEF MmapFixed
<1>4. uses \in Repertoires /\ p \in Procs
  BY ZenonT(30), <1>3 DEF IInv, Typed
<1>5. /\ n \in Nat \ {0} /\ s \in Nat /\ kind \in {"anon", "file", "shanon", "shfile"} /\ k \in Nat
      /\ uses.pages \in 1 .. NPages
  BY ZenonT(30), <1>4, MemoryAssumption
<1>6. s + n <= NPages /\ "brk" \notin uses.calls /\ s >= 1
  <2>1. "brk" \notin uses.calls /\ 0 \notin uses.fixed
    BY ZenonT(30) DEF Regular
  <2>2. s # 0
    BY ZenonT(30), <2>1
  <2>3. s >= 1
    BY <1>5, <2>2
  <2>4. s + n <= NPages
    BY <1>3, <1>5, MemoryAssumption
  <2> QED
    BY ZenonT(30), <2>1, <2>3, <2>4
<1>7. PICK h \in Nat : h = s + n /\ s < h
  BY <1>5
<1>8. \A a \in areas[p] : Protected(a) => ~Overlaps(a, s, h)
  <2> SUFFICES ASSUME NEW a \in areas[p], Protected(a) PROVE ~Overlaps(a, s, h)
    BY ZenonT(30)
  <2>1. HeapOK(areas[p], brk[p], uses)
    BY ZenonT(30), <1>3 DEF IInv, SpacesOK
  <2>2. a.lo = 0 /\ a.hi = 1
    BY ZenonT(30), <1>6, <2>1 DEF Protected, HeapOK
  <2> QED
    BY <1>5, <1>6, <2>2 DEF Overlaps
<1>9. /\ Areas(K) /\ Table(T) /\ Tracked(K, T) /\ HeapOK(K, brk[p], uses) /\ PartsOf(K, areas[p])
      /\ \A v \in DOMAIN T : v \in DOMAIN pte[p] /\ T[v] = pte[p][v]
      /\ \A b \in K : ~Overlaps(b, s, h)
  <2>1. K = CutAll(p, s, h) /\ T = CutPtes(p, s, h) /\ Typed /\ SpacesOK
    BY ZenonT(30), <1>1, <1>2, <1>7 DEF IInv
  <2> QED
    BY <1>3, <1>5, <1>7, <1>8, <2>1, CutSpace
<1> QED
  BY ZenonT(30), <1>3, <1>5, <1>6, <1>7, <1>9, MappingKeeps

(* A program's only heap.                                                  *)
LEMMA HeapIs ==
  ASSUME IInv, NEW p \in live, Heaps(p) # {}, NEW h, h = FirstHeap(p)
  PROVE  /\ h \in areas[p] /\ AreaOK(h) /\ h.type = "heap" /\ h.lo = HeapBottom /\ h.hi = brk[p]
         /\ \A b \in areas[p] : b.type = "heap" => b = h
<1>1. p \in Procs /\ Areas(areas[p]) /\ HeapOK(areas[p], brk[p], uses)
  BY ZenonT(30) DEF IInv, Typed, SpacesOK
<1>2. PICK a : a \in areas[p] /\ a.type = "heap"
  BY ZenonT(30) DEF Heaps
<1>3. Heaps(p) = {a}
  BY ZenonT(30), <1>1, <1>2 DEF Heaps, HeapOK
<1>4. a.lo \in Nat
  BY ZenonT(30), <1>1, <1>2 DEF Areas, AreaOK, AreaRecords
<1>5. a.lo <= a.lo
  BY <1>4
<1>6. h = a
  BY ZenonT(30), <1>3, <1>5 DEF FirstHeap
<1> QED
  BY ZenonT(30), <1>1, <1>2, <1>6 DEF Areas, HeapOK

(* sbrk with a smaller break.                                              *)
LEMMA BrkShrinkKeeps ==
  ASSUME IInv, NEW p, NEW e \in HeapBottom .. uses.pages, BrkShrink(p, e)
  PROVE  Keeps
<1>1. PICK h : h = FirstHeap(p)
  BY ZenonT(30)
<1>2. PICK b : b = Piece(h, h.lo, e)
  BY ZenonT(30)
<1>3. PICK S : S = (areas[p] \ {h}) \cup {b}
  BY ZenonT(30)
<1>4. PICK P : P = ShrunkPtes(p, e)
  BY ZenonT(30)
<1>5. /\ p \in live /\ Heaps(p) # {} /\ e <= h.hi
      /\ areas' = [areas EXCEPT ![p] = S] /\ pte' = [pte EXCEPT ![p] = P] /\ brk' = [brk EXCEPT ![p] = e]
      /\ UNCHANGED <<live, vparent, borrows, file, cache, uses>> /\ Contents(mem)
  <2>1. DOMAIN areas = Procs
    BY ZenonT(30) DEF IInv, Typed
  <2> QED
    BY ZenonT(30), <1>1, <1>2, <1>3, <1>4, <2>1 DEF BrkShrink
<1>6. /\ p \in Procs /\ Areas(areas[p]) /\ Table(pte[p]) /\ Tracked(areas[p], pte[p]) /\ HeapOK(areas[p], brk[p], uses)
      /\ Typed /\ SpacesOK /\ Filled
  BY ZenonT(30), <1>5 DEF IInv, Typed, SpacesOK
<1>7. /\ h \in areas[p] /\ AreaOK(h) /\ h.type = "heap" /\ h.lo = HeapBottom /\ h.hi = brk[p]
      /\ \A c \in areas[p] : c.type = "heap" => c = h
  BY ZenonT(30), <1>1, <1>5, HeapIs
<1>8. e \in Nat /\ HeapBottom \in Nat /\ HeapBottom <= e /\ e <= NPages
  <2>1. h.hi \in Nat /\ h.hi <= NPages
    BY ZenonT(30), <1>7 DEF AreaOK, AreaRecords
  <2>2. uses.pages \in 1 .. NPages
    BY ZenonT(30), <1>6, MemoryAssumption DEF Typed
  <2> QED
    BY <1>5, <2>1, <2>2, MemoryAssumption
<1>9. /\ Part(b, h) /\ b.w = h.w /\ b.lo = HeapBottom /\ b.hi = e
  BY <1>2, <1>5, <1>7, <1>8, PieceIsPart DEF AreaOK, AreaRecords
<1>10. b.type = "heap" /\ AreaOK(b) /\ Span(b) \subseteq Span(h)
  BY ZenonT(30), <1>7, <1>9, PartSpan DEF Part
<1>11. PartsOf(S, areas[p])
  BY ZenonT(30), <1>3, <1>6, <1>7, <1>9, PartSelf DEF PartsOf, Areas
<1>12. Areas(S)
  BY ZenonT(30), <1>3, <1>6, <1>7, <1>10 DEF Areas, Apart
<1>13. HeapOK(S, e, uses)
  BY ZenonT(30), <1>3, <1>6, <1>7, <1>9, <1>10 DEF HeapOK
<1>14. /\ DOMAIN P = DOMAIN pte[p] \cap (Pages \ (DOMAIN h.frames \ 0 .. e - 1))
       /\ \A v \in DOMAIN P : P[v] = pte[p][v]
  BY ZenonT(30), <1>1, <1>4 DEF ShrunkPtes, Kept, Restrict
<1>15. Table(P)
  BY ZenonT(30), <1>6, <1>14 DEF Table
<1>16. Tracked(S, P)
  <2> SUFFICES ASSUME NEW v \in DOMAIN P
               PROVE  \E c \in S : /\ v \in Span(c) /\ v \in DOMAIN c.frames /\ c.frames[v] = P[v].f
                                   /\ P[v].w => c.w
    BY ZenonT(30) DEF Tracked
  <2>1. PICK c \in areas[p] : v \in Span(c) /\ v \in DOMAIN c.frames /\ c.frames[v] = pte[p][v].f /\ (pte[p][v].w => c.w)
    BY ZenonT(30), <1>6, <1>14 DEF Tracked
  <2>2. CASE c # h
    BY ZenonT(30), <1>3, <1>14, <2>1, <2>2
  <2>3. CASE c = h
    <3>1. v \in 0 .. e - 1
      BY ZenonT(30), <1>14, <2>1, <2>3
    <3>2. v \in Span(b)
      BY <1>7, <1>8, <1>9, <2>1, <2>3, <3>1 DEF Span, AreaOK, AreaRecords
    <3>3. v \in DOMAIN b.frames /\ b.frames[v] = h.frames[v]
      BY ZenonT(30), <1>9, <2>1, <2>3, <3>2 DEF Part
    <3> QED
      BY ZenonT(30), <1>3, <1>9, <1>14, <2>1, <2>3, <3>2, <3>3
  <2> QED
    BY ZenonT(30), <2>2, <2>3
<1>17. OneSpace(p, S, P)
  BY ZenonT(30), <1>5, <1>6, OneSpaceIs
<1>18. brk' \in [Procs -> HeapBottom .. NPages] /\ brk'[p] = e /\ \A q \in live \ {p} : brk'[q] = brk[q]
  BY <1>5, <1>6, <1>8, MemoryAssumption DEF Typed
<1>19. \A f \in Frames : f \in Used' => mem[f] \in Values
  BY ZenonT(30), <1>5, <1>6, <1>11, <1>17, PartsUsed DEF Filled
<1>20. mem' \in [Frames -> Values \cup {Garbage}] /\ Filled'
  BY ZenonT(30), <1>5, <1>19, ContentsFill
<1>21. Typed' /\ SpacesOK'
  BY ZenonT(30), <1>5, <1>6, <1>12, <1>13, <1>15, <1>16, <1>17, <1>18, <1>20, RestTyped, OneSpaceKeeps
<1>22. ASSUME Owned PROVE Owned'
  <2>1. \A v \in DOMAIN P : v \in DOMAIN pte[p] /\ (P[v].w => pte[p][v].w \/ ~Shares(uses))
    BY ZenonT(30), <1>14
  <2> QED
    BY ZenonT(30), <1>5, <1>6, <1>11, <1>12, <1>17, <1>22, <2>1, PartsOwned
<1> QED
  BY ZenonT(30), <1>20, <1>21, <1>22 DEF Keeps, IInv

(* sbrk with a larger break.                                               *)
LEMMA BrkGrowKeeps ==
  ASSUME IInv, NEW p, NEW e \in HeapBottom .. uses.pages, BrkGrow(p, e)
  PROVE  Keeps
<1>1. /\ "brk" \in uses.calls /\ p \in live /\ e > brk[p] /\ brk' = [brk EXCEPT ![p] = e]
      /\ UNCHANGED <<live, vparent, borrows, file, uses>>
  BY ZenonT(30) DEF BrkGrow
<1>2. /\ p \in Procs /\ Areas(areas[p]) /\ Table(pte[p]) /\ Tracked(areas[p], pte[p]) /\ HeapOK(areas[p], brk[p], uses)
      /\ Typed /\ SpacesOK /\ Filled
  BY ZenonT(30), <1>1 DEF IInv, Typed, SpacesOK
<1>3. e \in Nat /\ HeapBottom \in Nat /\ HeapBottom <= e /\ e <= NPages /\ brk[p] \in Nat
  <2>1. uses.pages \in 1 .. NPages /\ brk[p] \in HeapBottom .. NPages
    BY ZenonT(30), <1>2, MemoryAssumption DEF Typed
  <2> QED
    BY <2>1, MemoryAssumption
<1>4. brk' \in [Procs -> HeapBottom .. NPages] /\ brk'[p] = e /\ \A q \in live \ {p} : brk'[q] = brk[q]
  BY <1>1, <1>2, <1>3, MemoryAssumption DEF Typed
<1>5. RestKept(p)
  BY ZenonT(30), <1>1, <1>4 DEF RestKept
<1>6. ASSUME NEW lo \in Nat, ~HeapConflict(p, lo, e), NEW b \in areas[p], b.type # "heap"
      PROVE  \A v \in lo .. e - 1 : v \notin Span(b)
  <2>1. ~Overlaps(b, lo, e)
    BY ZenonT(30), <1>6 DEF HeapConflict, Heaps
  <2>2. b.lo \in Nat /\ b.hi \in Nat
    BY ZenonT(30), <1>2 DEF Areas, AreaOK, AreaRecords
  <2> QED
    BY <1>3, <2>1, <2>2 DEF Overlaps, Span
<1>7. CASE Heaps(p) = {}
  <2>1. PICK a : a = NewArea(HeapBottom, e, TRUE, "heap", 0)
    BY ZenonT(30)
  <2>2. ~HeapConflict(p, HeapBottom, e) /\ MapEagerly(p, a, areas[p], pte[p])
    BY ZenonT(30), <1>7, <2>1 DEF BrkGrow
  <2>3. AreaOK(a) /\ a.lo = HeapBottom /\ a.hi = e /\ a.type = "heap" /\ DOMAIN a.frames = {}
    <3>1. PICK w \in BOOLEAN, kind \in Kinds : w = TRUE /\ kind = "heap"
      BY ZenonT(30) DEF Kinds
    <3>2. PICK z \in Nat : z = 0
      BY ZenonT(30)
    <3>3. a = NewArea(HeapBottom, e, w, kind, z)
      BY ZenonT(30), <2>1, <3>1, <3>2
    <3>4. AreaOK(a) /\ a.lo = HeapBottom /\ a.hi = e /\ a.type = kind /\ DOMAIN a.frames = {}
      BY <1>3, <3>3, NewAreaIs
    <3> QED
      BY ZenonT(30), <3>1, <3>4
  <2>4. \A b \in areas[p] : b.type # "heap"
    BY ZenonT(30), <1>7 DEF Heaps
  <2>5. \A b \in areas[p] : Span(b) \cap Span(a) = {}
    BY ZenonT(30), <1>3, <1>6, <2>2, <2>3, <2>4 DEF Span
  <2>6. HeapOK(areas[p], e, uses)
    BY ZenonT(30), <1>2, <2>4 DEF HeapOK
  <2>7. PartsOf(areas[p], areas[p])
    BY ZenonT(30), <1>2, PartSelf DEF PartsOf, Areas
  <2>8. NewSpace(p, a, areas[p], pte[p])
    BY ZenonT(30), <1>1, <1>2, <1>4, <2>3, <2>4, <2>5, <2>6, <2>7 DEF NewSpace
  <2> QED
    BY ZenonT(30), <1>1, <1>5, <2>2, <2>8, MapEagerlyKeeps
<1>8. CASE Heaps(p) # {}
  <2>1. PICK h : h = FirstHeap(p)
    OBVIOUS
  <2>2. PICK b : b = [h EXCEPT !.hi = e]
    BY ZenonT(30)
  <2>3. PICK S : S = (areas[p] \ {h}) \cup {b}
    BY ZenonT(30)
  <2>4. ~HeapConflict(p, h.hi, e) /\ areas' = [areas EXCEPT ![p] = S] /\ UNCHANGED <<pte, mem, cache>>
    <3>1. DOMAIN areas = Procs
      BY ZenonT(30), <1>2 DEF Typed
    <3> QED
      BY ZenonT(30), <1>2, <1>8, <2>1, <2>2, <2>3, <3>1 DEF BrkGrow
  <2>5. /\ h \in areas[p] /\ AreaOK(h) /\ h.type = "heap" /\ h.lo = HeapBottom /\ h.hi = brk[p]
        /\ \A c \in areas[p] : c.type = "heap" => c = h
    BY ZenonT(30), <1>1, <1>8, <2>1, HeapIs
  <2>6. /\ b \in AreaRecords /\ b.lo = HeapBottom /\ b.hi = e /\ b.frames = h.frames /\ b.w = h.w
        /\ b.shared = h.shared /\ b.type = "heap"
    BY ZenonT(30), <1>3, <2>2, <2>5 DEF AreaOK, AreaRecords
  <2>7. Span(b) = Span(h) \cup (h.hi .. e - 1)
    BY <1>1, <1>3, <2>5, <2>6 DEF Span, AreaOK
  <2>8. AreaOK(b)
    BY ZenonT(30), <1>3, <2>5, <2>6, <2>7 DEF AreaOK
  <2>9. ASSUME NEW c \in areas[p], c # h PROVE Span(c) \cap Span(b) = {}
    <3>1. c.type # "heap"
      BY ZenonT(30), <2>5, <2>9
    <3>2. Span(c) \cap Span(h) = {}
      BY ZenonT(30), <1>2, <2>5, <2>9 DEF Areas, Apart
    <3>3. \A v \in h.hi .. e - 1 : v \notin Span(c)
      BY ZenonT(30), <1>3, <1>6, <2>4, <2>5, <3>1
    <3> QED
      BY ZenonT(30), <2>7, <3>2, <3>3
  <2>10. Areas(S)
    BY ZenonT(30), <1>2, <2>3, <2>8, <2>9 DEF Areas, Apart
  <2>11. HeapOK(S, e, uses)
    BY ZenonT(30), <1>2, <2>3, <2>5, <2>6 DEF HeapOK
  <2>12. Tracked(S, pte[p])
    <3> SUFFICES ASSUME NEW v \in DOMAIN pte[p]
                 PROVE  \E c \in S : /\ v \in Span(c) /\ v \in DOMAIN c.frames /\ c.frames[v] = pte[p][v].f
                                     /\ pte[p][v].w => c.w
      BY ZenonT(30) DEF Tracked
    <3>1. PICK c \in areas[p] : v \in Span(c) /\ v \in DOMAIN c.frames /\ c.frames[v] = pte[p][v].f /\ (pte[p][v].w => c.w)
      BY ZenonT(30), <1>2 DEF Tracked
    <3> QED
      BY ZenonT(30), <2>3, <2>6, <2>7, <3>1
  <2>13. OneSpace(p, S, pte[p])
    BY ZenonT(30), <1>1, <1>2, <2>4, OneSpaceIs
  <2>14. \A v, f : Tracks(S, v, f) <=> Tracks(areas[p], v, f)
    BY ZenonT(30), <2>3, <2>5, <2>6 DEF Tracks
  <2>15. ASSUME NEW f \in Frames, f \in Used' PROVE f \in Used
    <3>1. f \in UsedBy(areas', live', cache')
      BY ZenonT(30), <2>15, UsedNow
    <3>2. (\E q \in live' : \E u : Tracks(areas'[q], u, f)) \/ \E k \in DOMAIN cache' : cache'[k] = f
      BY <3>1, UsedIs
    <3>3. \A q \in live' : q \in live /\ \A u : Tracks(areas'[q], u, f) => Tracks(areas[q], u, f)
      BY ZenonT(30), <1>2, <2>13, <2>14 DEF OneSpace, Typed
    <3>4. (\E q \in live : \E u : Tracks(areas[q], u, f)) \/ \E k \in DOMAIN cache : cache[k] = f
      BY ZenonT(30), <2>4, <3>2, <3>3
    <3> QED
      BY ZenonT(30), <3>4, UsedIs, UsedNow
  <2>16. Filled'
    BY ZenonT(30), <1>2, <2>4, <2>15 DEF Filled
  <2>17. Typed' /\ SpacesOK'
    BY ZenonT(30), <1>1, <1>2, <1>4, <2>4, <2>10, <2>11, <2>12, <2>13, RestTyped, OneSpaceKeeps
  <2>18. ASSUME Owned PROVE Owned'
    <3>1. AddsNew(p, S) /\ CachesShared(p, S)
      BY ZenonT(30), <2>4, <2>14 DEF AddsNew, CachesShared
    <3>2. OwnedIn(p, S, pte[p])
      BY ZenonT(30), <1>1, <2>3, <2>5, <2>6, <2>18 DEF OwnedIn, Owned
    <3> QED
      BY ZenonT(30), <1>1, <1>2, <2>10, <2>13, <2>18, <3>1, <3>2, OneSpaceOwned
  <2> QED
    BY ZenonT(30), <2>16, <2>17, <2>18 DEF Keeps, IInv
<1> QED
  BY ZenonT(30), <1>7, <1>8

-----------------------------------------------------------------------------
(* The first process starts with its program.                              *)
LEMMA InitKeeps ==
  ASSUME Init
  PROVE  IInv /\ Owned
<1>1. PICK p \in Procs, g \in Frames :
        /\ live = {p}
        /\ areas = [q \in Procs |-> IF q = p THEN {Program(g)} ELSE {}]
        /\ pte = [q \in Procs |-> IF q = p THEN [v \in {0} |-> [f |-> g, w |-> TRUE]] ELSE Empty]
        /\ mem = [f \in Frames |-> IF f = g THEN 0 ELSE Garbage]
        /\ brk = [q \in Procs |-> HeapBottom]
        /\ vparent = [q \in Procs |-> Nobody] /\ borrows = [q \in Procs |-> Nobody]
        /\ file = [k \in FilePages |-> 1]
        /\ cache = Empty
        /\ uses \in Repertoires
  BY ZenonT(30) DEF Init
<1>2. PICK S : S = {Program(g)}
  BY ZenonT(30)
<1>3. PICK P : P = [v \in {0} |-> [f |-> g, w |-> TRUE]]
  BY ZenonT(30)
<1>4. /\ DOMAIN areas = Procs /\ DOMAIN pte = Procs /\ areas[p] = S /\ pte[p] = P
      /\ \A q \in Procs \ {p} : areas[q] = {} /\ pte[q] = Empty
  BY ZenonT(30), <1>1, <1>2, <1>3
<1>5. PICK b : b = brk[p]
  BY ZenonT(30)
<1>6. Areas(S) /\ Table(P) /\ Tracked(S, P) /\ HeapOK(S, b, uses) /\ \A v, f : Tracks(S, v, f) <=> v = 0 /\ f = g
  BY ZenonT(30), <1>2, <1>3, ProgramSpace
<1>7. DOMAIN cache = {} /\ Table(Empty) /\ Areas({})
  BY ZenonT(30), <1>1 DEF Empty, Table, Areas, Apart
<1>8. /\ brk \in [Procs -> HeapBottom .. NPages] /\ mem \in [Frames -> Values \cup {Garbage}]
      /\ vparent \in [Procs -> Procs \cup {Nobody}] /\ borrows \in [Procs -> Procs \cup {Nobody}]
      /\ file \in [FilePages -> Values]
  BY <1>1, MemoryAssumption
<1>9. \A q \in Procs : Areas(areas[q]) /\ Table(pte[q])
  BY ZenonT(30), <1>4, <1>6, <1>7
<1>10. Typed
  BY ZenonT(30), <1>1, <1>4, <1>7, <1>8, <1>9 DEF Typed
<1>11. SpacesOK
  BY ZenonT(30), <1>1, <1>4, <1>5, <1>6 DEF SpacesOK
<1>12. ASSUME NEW f \in Frames, f \in Used PROVE mem[f] \in Values
  <2>1. f \in UsedBy(areas, live, cache)
    BY ZenonT(30), <1>12, UsedNow
  <2>2. (\E q \in live : \E u : Tracks(areas[q], u, f)) \/ \E k \in DOMAIN cache : cache[k] = f
    BY <2>1, UsedIs
  <2>3. f = g
    BY ZenonT(30), <1>1, <1>4, <1>6, <1>7, <2>2
  <2> QED
    BY ZenonT(30), <1>1, <2>3, MemoryAssumption
<1>13. Owned
  <2> SUFFICES ASSUME NEW q \in live, NEW a \in areas[q], NEW v \in DOMAIN a.frames
               PROVE  Only(q, v, a.frames[v])
    BY ZenonT(30) DEF Owned
  <2>1. q = p /\ Tracks(S, v, a.frames[v])
    BY ZenonT(30), <1>1, <1>4 DEF Tracks
  <2>2. PICK f : f = a.frames[v]
    BY ZenonT(30)
  <2>3. v = 0 /\ f = g
    BY <1>6, <2>1, <2>2
  <2>4. \A r \in live, u \in Pages : Tracks(areas[r], u, f) => r = q /\ u = v
    BY ZenonT(30), <1>1, <1>4, <1>6, <2>1, <2>3
  <2> QED
    BY ZenonT(30), <1>7, <2>2, <2>4 DEF Only
<1> QED
  BY ZenonT(30), <1>10, <1>11, <1>12, <1>13 DEF IInv, Filled

(* Every step of the memory system keeps the invariant.                    *)
LEMMA NextKeeps ==
  ASSUME IInv, Regular(uses), [Next]_vars
  PROVE  Keeps
<1>1. ASSUME NEW p \in Procs, Step(p) PROVE Keeps
  <2>0. uses \in Repertoires
    BY ZenonT(30) DEF IInv, Typed
  <2>a. \A r \in uses.unmap \cup uses.protect : r[1] \in Nat /\ r[2] \in Nat /\ r[1] < r[2]
    BY ZenonT(30), <2>0, MemoryAssumption
  <2>1. ASSUME NEW v \in Pages, NEW x \in Values, Store(p, v, x) \/ CopyOutRelaxed(p, v, x) PROVE Keeps
    BY ZenonT(30), <2>1, StoreKeeps
  <2>2. ASSUME NEW v \in Pages, CowFault(p, v) \/ DemandFault(p, v) PROVE Keeps
    BY ZenonT(30), <2>2, CowFaultKeeps, DemandFaultKeeps
  <2>3. ASSUME NEW r \in uses.unmap, Munmap(p, r[1], r[2]) PROVE Keeps
    BY ZenonT(30), <2>a, <2>3, MunmapKeeps
  <2>4. ASSUME NEW n \in uses.lengths, NEW w \in BOOLEAN, NEW kind \in uses.kinds, NEW k \in FilePages,
               Mmap(p, HeapBottom, n, w, kind, k) \/ \E s \in uses.fixed : MmapFixed(p, s, n, w, kind, k)
        PROVE  Keeps
    BY ZenonT(30), <2>4, MmapKeeps, MmapFixedKeeps
  <2>5. ASSUME NEW r \in uses.protect, NEW w \in uses.perms, Mprotect(p, r[1], r[2], w) PROVE Keeps
    BY ZenonT(30), <2>a, <2>5, MprotectKeeps
  <2>6. ASSUME NEW e \in HeapBottom .. uses.pages, BrkGrow(p, e) \/ BrkShrink(p, e) PROVE Keeps
    BY ZenonT(30), <2>6, BrkGrowKeeps, BrkShrinkKeeps
  <2>7. ASSUME NEW c \in Procs, NEW vfork \in BOOLEAN, Fork(p, c, vfork) PROVE Keeps
    BY ZenonT(30), <2>7, ForkKeeps
  <2>8. CASE Exec(p) \/ Exit(p) \/ Reap(p)
    BY ZenonT(30), <2>8, ExecKeeps, ExitKeeps, ReapKeeps
  <2>9. ASSUME NEW r \in uses.unmap, NEW wb \in BOOLEAN, Msync(p, r[1], r[2], wb) PROVE Keeps
    BY ZenonT(30), <2>9, MsyncKeeps
  <2> QED
    BY ZenonT(30), <1>1, <2>1, <2>2, <2>3, <2>4, <2>5, <2>6, <2>7, <2>8, <2>9 DEF Step
<1>2. CASE UNCHANGED vars
  <2>1. UNCHANGED <<areas, pte, mem, brk, live, vparent, borrows, file, cache, uses>>
    BY ZenonT(30), <1>2 DEF vars
  <2>2. Filled'
    BY ZenonT(30), <2>1 DEF IInv, Filled, Used
  <2> QED
    BY ZenonT(30), <2>1, <2>2, SameSpacesKeep DEF IInv, Typed
<1> QED
  BY ZenonT(30), <1>1, <1>2, FileKeeps DEF Next

(* PteTracked follows.                                                     *)
LEMMA TrackedIs ==
  ASSUME IInv
  PROVE  PteTracked
<1>1. \A p \in Procs : Areas(areas[p]) /\ Table(pte[p])
  BY ZenonT(30) DEF IInv, Typed
<1>2. ASSUME NEW p \in Procs, NEW a \in areas[p]
      PROVE  /\ 0 <= a.lo /\ a.lo <= a.hi /\ a.hi <= NPages
             /\ DOMAIN a.frames \subseteq Span(a) /\ Range(a.frames) \subseteq Frames
             /\ a.w \in BOOLEAN /\ a.lazy \in BOOLEAN /\ a.base \in Nat
  <2>1. AreaOK(a)
    BY ZenonT(30), <1>1 DEF Areas
  <2>2. a.frames \in FrameMaps /\ a.lo \in Nat /\ a.w \in BOOLEAN /\ a.lazy \in BOOLEAN /\ a.base \in Nat
    BY ZenonT(30), <2>1 DEF AreaOK, AreaRecords
  <2>3. Range(a.frames) \subseteq Frames
    BY ZenonT(30), <2>2, FrameMapIs DEF Range
  <2> QED
    BY <2>1, <2>2, <2>3 DEF AreaOK
<1>3. ASSUME NEW p \in Procs
      PROVE  /\ DOMAIN pte[p] \subseteq Pages /\ \A v \in DOMAIN pte[p] : pte[p][v] \in [f : Frames, w : BOOLEAN]
             /\ brk[p] \in HeapBottom .. NPages
  BY ZenonT(30), <1>1 DEF Table, Entries, IInv, Typed
<1>4. TypeOK
  <2>1. DOMAIN cache \subseteq Nat /\ Range(cache) \subseteq Frames
    BY ZenonT(30) DEF Range, IInv, Typed
  <2> QED
    BY ZenonT(30), <1>2, <1>3, <2>1 DEF TypeOK, IInv, Typed
<1>5. ASSUME NEW p \in live, NEW v \in DOMAIN pte[p]
      PROVE  \E a \in AreasAt(p, v) : /\ v \in DOMAIN a.frames /\ a.frames[v] = pte[p][v].f
                                      /\ pte[p][v].w => a.w
  BY ZenonT(30) DEF AreasAt, IInv, SpacesOK, Tracked
<1>6. \A p \in live : \A a, b \in areas[p] : a # b => Span(a) \cap Span(b) = {}
  BY ZenonT(30) DEF IInv, Typed, Areas, Apart
<1> QED
  BY ZenonT(30), <1>4, <1>5, <1>6 DEF PteTracked

(* So does CowProtects, from Owned.                                        *)
LEMMA ProtectsIs ==
  ASSUME IInv, Owned
  PROVE  CowProtects
<1> SUFFICES ASSUME NEW p \in live, NEW v \in DOMAIN pte[p], pte[p][v].w, NEW a \in AreasAt(p, v), ~a.shared
             PROVE  SoleOwner(pte[p][v].f)
  BY ZenonT(30) DEF CowProtects
<1>1. Tracks(areas[p], v, pte[p][v].f)
  BY ZenonT(30), MappedFilled
<1>2. PICK b \in areas[p] : v \in Span(b) /\ v \in DOMAIN b.frames /\ b.frames[v] = pte[p][v].f
  BY ZenonT(30) DEF IInv, SpacesOK, Tracked
<1>3. b = a
  BY ZenonT(30), <1>2 DEF AreasAt, IInv, Typed, Areas, Apart
<1>4. Only(p, v, pte[p][v].f)
  BY ZenonT(30), <1>2, <1>3 DEF Owned
<1> QED
  BY ZenonT(30), <1>1, <1>4, OnlyIsSole

(* Every page table entry of a live process points to a frame that one of  *)
(* its areas keeps alive, and is writable only where the area is; areas    *)
(* never overlap.  For any number of processes, pages and frames, and      *)
(* programs that do not place MAP_FIXED mappings over the heap or the      *)
(* program (unmap_range spares both, so push would map over them) and do   *)
(* not mix brk with mprotect (which splits the heap).                      *)
THEOREM PagesStayTracked ==
  ASSUME \A r \in Repertoires : Regular(r)
  PROVE  Spec => []PteTracked
<1>1. Init => IInv
  BY ZenonT(30), InitKeeps
<1>2. IInv /\ [Next]_vars => IInv'
  BY ZenonT(30), NextKeeps DEF Keeps, IInv, Typed
<1>3. IInv => PteTracked
  BY ZenonT(30), TrackedIs
<1> QED
  BY <1>1, <1>2, <1>3, PTL DEF Spec

(* A private page is writable only while its frame has one owner, for the  *)
(* same programs when none that forks asks mprotect for write permission:  *)
(* change_protection would set the W bit of a page that is still shared.   *)
THEOREM WritablePagesHaveOneOwner ==
  ASSUME \A r \in Repertoires : Regular(r) /\ CowSafe(r)
  PROVE  Spec => []CowProtects
<1>1. Init => IInv /\ Owned
  BY ZenonT(30), InitKeeps
<1>2. IInv /\ Owned /\ [Next]_vars => IInv' /\ Owned'
  BY ZenonT(30), NextKeeps DEF Keeps, IInv, Typed
<1>3. IInv /\ Owned => CowProtects
  BY ZenonT(30), ProtectsIs
<1> QED
  BY <1>1, <1>2, <1>3, PTL DEF Spec
=============================================================================
