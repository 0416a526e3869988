------------------------- MODULE MemorySetInvariant -------------------------
(***************************************************************************)
(* The inductive invariant of module MemorySet, for any number of          *)
(* processes, pages and frames, and the calls and faults that change pages *)
(* a process has: munmap, mprotect, stores and page faults.                *)
(*                                                                         *)
(* Most calls change the address space of one process (OneSpace), so an    *)
(* action is reduced to facts about its new areas S and page table P       *)
(* alone: they are well formed, P is Tracked by S, and the frames that are *)
(* new in S were unused or come from the page cache.                       *)
(***************************************************************************)
EXTENDS MemorySet, TLAPS

(* The time a prover has for a step, where the step does not say.          *)
USE SMTT(30)

(* An area by itself, the areas of a process, and its page table.          *)
Kinds == {"anon", "file", "shanon", "shfile", "heap", "elf"}
FrameMaps == UNION {[D -> Frames] : D \in SUBSET Pages}
AreaRecords == [lo : Nat, hi : Nat, frames : FrameMaps, w : BOOLEAN, shared : BOOLEAN, lazy : BOOLEAN,
                type : Kinds, base : Nat]
AreaOK(a) == a \in AreaRecords /\ a.lo <= a.hi /\ a.hi <= NPages /\ DOMAIN a.frames \subseteq Span(a)
Apart(S) == \A a, b \in S : a # b => Span(a) \cap Span(b) = {}
Areas(S) == (\A a \in S : AreaOK(a)) /\ Apart(S)
Entries == [f : Frames, w : BOOLEAN]
Table(P) == DOMAIN P \subseteq Pages /\ \A v \in DOMAIN P : P[v] \in Entries

(* The areas S keep the frames of the page table P alive.                  *)
Tracked(S, P) ==
  \A v \in DOMAIN P : \E a \in S : /\ v \in Span(a) /\ v \in DOMAIN a.frames /\ a.frames[v] = P[v].f
                                   /\ P[v].w => a.w
Tracks(S, v, f) == \E a \in S : v \in DOMAIN a.frames /\ a.frames[v] = f

(* Frame f belongs to page v of p and to nothing else.                     *)
Only(p, v, f) ==
  /\ \A q \in live, u \in Pages : Tracks(areas[q], u, f) => q = p /\ u = v
  /\ \A k \in DOMAIN cache : cache[k] # f

(* What CowProtects needs to be inductive: where programs may fork, the    *)
(* frame of a writable private page has one owner; where they may not, the *)
(* frame of every private page has, since mprotect may make it writable.   *)
Owned ==
  \A p \in live : \A a \in areas[p] : \A v \in DOMAIN a.frames :
    /\ ~a.shared
    /\ ~Shares(uses) \/ (v \in DOMAIN pte[p] /\ pte[p][v].w)
    => Only(p, v, a.frames[v])

(* The inductive invariant: types; frames in use have contents; and in     *)
(* every live address space the page table is tracked, there is at most    *)
(* one heap, from HeapBottom to the break, and the program is page 0.      *)
Typed ==
  /\ live \subseteq Procs /\ uses \in Repertoires
  /\ DOMAIN areas = Procs /\ DOMAIN pte = Procs
  /\ \A p \in Procs : Areas(areas[p]) /\ Table(pte[p])
  /\ brk \in [Procs -> HeapBottom .. NPages]
  /\ mem \in [Frames -> Values \cup {Garbage}]
  /\ vparent \in [Procs -> Procs \cup {Nobody}] /\ borrows \in [Procs -> Procs \cup {Nobody}]
  /\ file \in [FilePages -> Values]
  /\ DOMAIN cache \subseteq Nat /\ \A k \in DOMAIN cache : cache[k] \in Frames

Filled == \A f \in Frames : f \in Used => mem[f] \in Values
HeapOK(S, b, r) ==
  \A a \in S : /\ a.type = "heap" => /\ "brk" \in r.calls /\ a.lo = HeapBottom /\ a.hi = b
                                     /\ \A c \in S : c.type = "heap" => c = a
               /\ a.type = "elf" => a.lo = 0 /\ a.hi = 1
SpacesOK == \A p \in live : Tracked(areas[p], pte[p]) /\ HeapOK(areas[p], brk[p], uses)
IInv == Typed /\ Filled /\ SpacesOK
-----------------------------------------------------------------------------
(* The frames of an area as a partial function.                            *)
LEMMA FrameMapIs ==
  ASSUME NEW f \in FrameMaps
  PROVE  DOMAIN f \subseteq Pages /\ \A v \in DOMAIN f : f[v] \in Frames
BY ZenonT(30) DEF FrameMaps

(* A function from pages to frames is one.                                 *)
LEMMA FrameMapOf ==
  ASSUME NEW D \in SUBSET Pages, NEW f \in [D -> Frames]
  PROVE  f \in FrameMaps
BY ZenonT(30) DEF FrameMaps

(* b is a part of area a.                                                  *)
Part(b, a) ==
  /\ AreaOK(b) /\ a.lo <= b.lo /\ b.hi <= a.hi
  /\ b.shared = a.shared /\ b.type = a.type /\ b.lazy = a.lazy
  /\ \A v \in Span(b) : v \in DOMAIN b.frames <=> v \in DOMAIN a.frames
  /\ \A v \in DOMAIN b.frames : b.frames[v] = a.frames[v]

(* The pages of a part are pages of the area.                              *)
LEMMA PartSpan ==
  ASSUME NEW a, AreaOK(a), NEW b, Part(b, a)
  PROVE  Span(b) \subseteq Span(a) /\ DOMAIN b.frames \subseteq DOMAIN a.frames
<1>1. a.lo \in Nat /\ a.hi \in Nat /\ b.lo \in Nat /\ b.hi \in Nat
  BY ZenonT(30) DEF AreaOK, AreaRecords, Part
<1>2. Span(b) \subseteq Span(a)
  BY <1>1 DEF Part, Span
<1> QED
  BY ZenonT(30), <1>2 DEF Part, AreaOK

(* An area is a part of itself.                                            *)
LEMMA PartSelf ==
  ASSUME NEW a, AreaOK(a)
  PROVE  Part(a, a)
<1>1. a.lo \in Nat /\ a.hi \in Nat
  BY ZenonT(30) DEF AreaOK, AreaRecords
<1> QED
  BY <1>1 DEF Part

(* New frames and a new range for an area.                                 *)
Reshaped(a, lo, hi, fs) == [a EXCEPT !.lo = lo, !.hi = hi, !.frames = fs]
(* It is an area if the range and the frames fit.                          *)
LEMMA AreaWith ==
  ASSUME NEW a, AreaOK(a), NEW lo \in Nat, NEW hi \in Nat, lo <= hi, hi <= NPages,
         NEW fs \in FrameMaps, DOMAIN fs \subseteq lo .. hi - 1, NEW b, b = Reshaped(a, lo, hi, fs)
  PROVE  /\ AreaOK(b) /\ b.lo = lo /\ b.hi = hi /\ b.frames = fs /\ b.w = a.w
         /\ b.shared = a.shared /\ b.type = a.type /\ b.lazy = a.lazy /\ b.base = a.base
<1>1. /\ b \in AreaRecords /\ b.lo = lo /\ b.hi = hi /\ b.frames = fs /\ b.w = a.w
      /\ b.shared = a.shared /\ b.type = a.type /\ b.lazy = a.lazy /\ b.base = a.base
  BY ZenonT(30) DEF AreaOK, AreaRecords, Reshaped
<1> QED
  BY ZenonT(30), <1>1 DEF AreaOK, Span

(* Piece: what it keeps.                                                   *)
LEMMA PieceIsPart ==
  ASSUME NEW a, AreaOK(a), NEW lo \in Nat, NEW hi \in Nat, a.lo <= lo, lo <= hi, hi <= a.hi
  PROVE  /\ Part(Piece(a, lo, hi), a) /\ Piece(a, lo, hi).w = a.w
         /\ Piece(a, lo, hi).lo = lo /\ Piece(a, lo, hi).hi = hi
<1>1. PICK fs : fs = Kept(a.frames, lo .. hi - 1)
  BY ZenonT(30)
<1>2. DOMAIN fs = DOMAIN a.frames \cap (lo .. hi - 1) /\ fs = [v \in DOMAIN fs |-> a.frames[v]]
  BY ZenonT(30), <1>1 DEF Kept, Restrict
<1>3. a \in AreaRecords /\ a.frames \in FrameMaps /\ a.hi \in Nat /\ a.lo \in Nat /\ a.hi <= NPages
  BY ZenonT(30) DEF AreaOK, AreaRecords
<1>4. DOMAIN fs \subseteq Pages /\ \A v \in DOMAIN fs : a.frames[v] \in Frames
  BY ZenonT(30), <1>2, <1>3, FrameMapIs
<1>5. fs \in [DOMAIN fs -> Frames]
  BY ZenonT(30), <1>2, <1>4
<1>6. fs \in FrameMaps
  BY ZenonT(30), <1>4, <1>5, FrameMapOf
<1>7. hi <= NPages /\ DOMAIN fs \subseteq lo .. hi - 1
  BY <1>2, <1>3, MemoryAssumption
<1>b. PICK b : b = Piece(a, lo, hi)
  BY ZenonT(30)
<1>8. b = Reshaped(a, lo, hi, fs)
  BY ZenonT(30), <1>1, <1>3, <1>b DEF Piece, AreaRecords, Reshaped
<1>9. /\ AreaOK(b) /\ b.lo = lo /\ b.hi = hi /\ b.frames = fs /\ b.w = a.w
      /\ b.shared = a.shared /\ b.type = a.type /\ b.lazy = a.lazy
  BY <1>6, <1>7, <1>8, AreaWith
<1>10. \A v \in Span(b) : v \in DOMAIN b.frames <=> v \in DOMAIN a.frames
  BY ZenonT(30), <1>2, <1>9 DEF Span
<1>11. \A v \in DOMAIN b.frames : b.frames[v] = a.frames[v]
  BY ZenonT(30), <1>2, <1>9
<1> QED
  BY ZenonT(30), <1>b, <1>9, <1>10, <1>11 DEF Part

(* unmap_range leaves of an area at most one part.                         *)
LEMMA CutParts ==
  ASSUME NEW a, AreaOK(a), NEW lo \in Nat, NEW hi \in Nat, lo < hi
  PROVE  /\ \A b \in Cut(a, lo, hi) : Part(b, a) /\ b.w = a.w /\ (Protected(a) => b = a)
         /\ \A b \in Cut(a, lo, hi) : ~Protected(a) => ~Overlaps(b, lo, hi)
         /\ \A b, c \in Cut(a, lo, hi) : b = c
<1>1. a.lo \in Nat /\ a.hi \in Nat /\ a.lo <= a.hi
  BY ZenonT(30) DEF AreaOK, AreaRecords
<1>2. CASE Protected(a) \/ ~Overlaps(a, lo, hi)
  BY ZenonT(30), <1>2, PartSelf DEF Cut
<1>3. CASE ~(Protected(a) \/ ~Overlaps(a, lo, hi))
  <2>0. a.lo < hi /\ a.hi > lo
    BY ZenonT(30), <1>3 DEF Overlaps
  <2>1. CASE a.lo >= lo /\ a.hi <= hi
    BY ZenonT(30), <1>3, <2>1 DEF Cut
  <2>2. CASE a.lo >= lo /\ ~(a.hi <= hi)
    <3>1. Cut(a, lo, hi) = {Piece(a, hi, a.hi)}
      BY ZenonT(30), <1>3, <2>2 DEF Cut
    <3>2. /\ Part(Piece(a, hi, a.hi), a) /\ Piece(a, hi, a.hi).w = a.w
          /\ Piece(a, hi, a.hi).lo = hi /\ Piece(a, hi, a.hi).hi = a.hi
      BY <1>1, <2>0, <2>2, PieceIsPart
    <3> QED
      BY <1>3, <3>1, <3>2 DEF Overlaps
  <2>3. CASE ~(a.lo >= lo)
    <3>1. Cut(a, lo, hi) = {Piece(a, a.lo, lo)}
      BY ZenonT(30), <1>3, <2>3 DEF Cut
    <3>2. /\ Part(Piece(a, a.lo, lo), a) /\ Piece(a, a.lo, lo).w = a.w
          /\ Piece(a, a.lo, lo).lo = a.lo /\ Piece(a, a.lo, lo).hi = lo
      BY <1>1, <2>0, <2>3, PieceIsPart
    <3> QED
      BY <1>3, <3>1, <3>2 DEF Overlaps
  <2> QED
    BY ZenonT(30), <2>1, <2>2, <2>3
<1> QED
  BY ZenonT(30), <1>2, <1>3

(* The protection of an area.                                              *)
LEMMA AreaProtected ==
  ASSUME NEW a, NEW c, Part(c, a), NEW w \in BOOLEAN
  PROVE  /\ Part([c EXCEPT !.w = w], a) /\ [c EXCEPT !.w = w].w = w
         /\ [c EXCEPT !.w = w].lo = c.lo /\ [c EXCEPT !.w = w].hi = c.hi
<1>1. c \in AreaRecords
  BY ZenonT(30) DEF Part, AreaOK
<1>2. PICK b : b = [c EXCEPT !.w = w]
  BY ZenonT(30)
<1>3. /\ b \in AreaRecords /\ b.lo = c.lo /\ b.hi = c.hi /\ b.frames = c.frames /\ b.w = w
      /\ b.shared = c.shared /\ b.type = c.type /\ b.lazy = c.lazy
  BY ZenonT(30), <1>1, <1>2 DEF AreaRecords
<1>4. Part(b, a)
  BY ZenonT(30), <1>3 DEF Part, AreaOK, Span
<1> QED
  BY ZenonT(30), <1>2, <1>3, <1>4

(* change_protection divides an area, and sets the permissions inside the  *)
(* range only.                                                             *)
LEMMA ProtectParts ==
  ASSUME NEW a, AreaOK(a), NEW lo \in Nat, NEW hi \in Nat, lo < hi, NEW w \in BOOLEAN
  PROVE  /\ \A b \in Protect(a, lo, hi, w) : Part(b, a)
         /\ \A b \in Protect(a, lo, hi, w), v \in Nat :
              v \in Span(b) => b.w = IF v \in lo .. hi - 1 THEN w ELSE a.w
         /\ \A v \in Span(a) : \E b \in Protect(a, lo, hi, w) : v \in Span(b)
         /\ Apart(Protect(a, lo, hi, w))
         /\ a.lo = 0 /\ a.hi = 1 => \A b \in Protect(a, lo, hi, w) : b.lo = 0 /\ b.hi = 1
<1>1. a.lo \in Nat /\ a.hi \in Nat /\ a.lo <= a.hi
  BY ZenonT(30) DEF AreaOK, AreaRecords
<1>2. CASE ~Overlaps(a, lo, hi)
  <2>1. Protect(a, lo, hi, w) = {a}
    BY ZenonT(30), <1>2 DEF Protect
  <2>2. \A v \in Nat : v \in Span(a) => v \notin lo .. hi - 1
    BY <1>1, <1>2 DEF Span, Overlaps
  <2> QED
    BY ZenonT(30), <2>1, <2>2, PartSelf DEF Apart
<1>3. CASE Overlaps(a, lo, hi) /\ a.lo >= lo /\ a.hi <= hi
  <2>1. PICK b : b = [a EXCEPT !.w = w]
    BY ZenonT(30)
  <2>2. Protect(a, lo, hi, w) = {b}
    BY ZenonT(30), <1>3, <2>1 DEF Protect
  <2>3. Part(b, a) /\ b.w = w /\ b.lo = a.lo /\ b.hi = a.hi
    BY <2>1, PartSelf, AreaProtected
  <2>4. \A v \in Nat : v \in Span(a) => v \in lo .. hi - 1
    BY <1>1, <1>3 DEF Span
  <2> QED
    BY ZenonT(30), <2>2, <2>3, <2>4 DEF Apart, Span
<1>4. CASE Overlaps(a, lo, hi) /\ ~(a.lo >= lo /\ a.hi <= hi)
  <2> DEFINE l == IF a.lo < lo THEN lo ELSE a.lo
             h == IF a.hi > hi THEN hi ELSE a.hi
  <2>0. l \in Nat /\ h \in Nat /\ a.lo <= l /\ l < h /\ h <= a.hi
    BY <1>1, <1>4 DEF Overlaps
  <2>1. PICK b : b = Piece(a, a.lo, l)
    BY ZenonT(30)
  <2>2. PICK m : m = Piece(a, l, h)
    BY ZenonT(30)
  <2>3. PICK c : c = [m EXCEPT !.w = w]
    BY ZenonT(30)
  <2>4. PICK d : d = Piece(a, h, a.hi)
    BY ZenonT(30)
  <2>5. Protect(a, lo, hi, w) = {x \in {b, c, d} : x.lo < x.hi}
    BY ZenonT(30), <1>4, <2>1, <2>2, <2>3, <2>4 DEF Protect
  <2>6. \A v \in Nat : a.lo <= v /\ v < a.hi => (v \in lo .. hi - 1 <=> l <= v /\ v < h)
    BY <1>1, <1>4 DEF Overlaps
  <2> HIDE DEF l, h
  <2>7. Part(b, a) /\ b.w = a.w /\ b.lo = a.lo /\ b.hi = l
    BY <1>1, <2>0, <2>1, PieceIsPart
  <2>8. Part(m, a) /\ m.lo = l /\ m.hi = h
    BY <1>1, <2>0, <2>2, PieceIsPart
  <2>9. Part(c, a) /\ c.w = w /\ c.lo = l /\ c.hi = h
    BY <2>3, <2>8, AreaProtected
  <2>10. Part(d, a) /\ d.w = a.w /\ d.lo = h /\ d.hi = a.hi
    BY <1>1, <2>0, <2>4, PieceIsPart
  <2>11. ASSUME NEW x \in {b, c, d}, NEW v \in Nat, v \in Span(x)
         PROVE  x.w = IF v \in lo .. hi - 1 THEN w ELSE a.w
    <3>1. CASE x = b
      <4>1. a.lo <= v /\ v < a.hi /\ v < l
        BY <1>1, <2>0, <2>7, <2>11, <3>1 DEF Span
      <4>2. v \notin lo .. hi - 1
        BY <2>0, <2>6, <4>1
      <4> QED
        BY ZenonT(30), <3>1, <2>7, <4>2
    <3>2. CASE x = c
      <4>1. a.lo <= v /\ v < a.hi /\ l <= v /\ v < h
        BY <1>1, <2>0, <2>9, <2>11, <3>2 DEF Span
      <4>2. v \in lo .. hi - 1
        BY ZenonT(30), <2>6, <4>1
      <4> QED
        BY ZenonT(30), <3>2, <2>9, <4>2
    <3>3. CASE x = d
      <4>1. a.lo <= v /\ v < a.hi /\ h <= v
        BY <1>1, <2>0, <2>10, <2>11, <3>3 DEF Span
      <4>2. v \notin lo .. hi - 1
        BY <2>0, <2>6, <4>1
      <4> QED
        BY ZenonT(30), <3>3, <2>10, <4>2
    <3> QED
      BY ZenonT(30), <3>1, <3>2, <3>3
  <2>12. Span(b) = a.lo .. l - 1 /\ Span(c) = l .. h - 1 /\ Span(d) = h .. a.hi - 1
    BY ZenonT(30), <2>7, <2>9, <2>10 DEF Span
  <2>13. Apart({b, c, d})
    <3>1. (a.lo .. l - 1) \cap (l .. h - 1) = {} /\ (a.lo .. l - 1) \cap (h .. a.hi - 1) = {}
          /\ (l .. h - 1) \cap (h .. a.hi - 1) = {}
      BY <1>1, <2>0
    <3> QED
      BY ZenonT(30), <2>12, <3>1 DEF Apart
  <2>14. ASSUME NEW v \in Span(a) PROVE \E x \in Protect(a, lo, hi, w) : v \in Span(x)
    <3>0. v \in Nat /\ a.lo <= v /\ v < a.hi
      BY <1>1 DEF Span
    <3>1. CASE v < l
      BY <1>1, <2>0, <2>5, <2>7, <2>12, <3>0, <3>1
    <3>2. CASE l <= v /\ v < h
      BY <1>1, <2>0, <2>5, <2>9, <2>12, <3>0, <3>2
    <3>3. CASE h <= v
      BY <1>1, <2>0, <2>5, <2>10, <2>12, <3>0, <3>3
    <3> QED
      BY <2>0, <3>0, <3>1, <3>2, <3>3
  <2>15. ~(a.lo = 0 /\ a.hi = 1)
    BY <1>4 DEF Overlaps
  <2>16. \A x \in Protect(a, lo, hi, w) : x \in {b, c, d}
    BY ZenonT(30), <2>5
  <2> QED
    BY <2>7, <2>9, <2>10, <2>11, <2>13, <2>14, <2>15, <2>16 DEF Apart
<1> QED
  BY ZenonT(30), <1>2, <1>3, <1>4

-----------------------------------------------------------------------------
(* Used, spelled out.                                                      *)
UsedBy(A, L, C) == (UNION {FramesOf(A[q]) : q \in L}) \cup Range(C)
(* A frame is in use when an area or the cache refers to it.               *)
LEMMA UsedIs ==
  ASSUME NEW A, NEW L, NEW C, NEW f
  PROVE  f \in UsedBy(A, L, C) <=>
           \/ \E q \in L : \E v : Tracks(A[q], v, f)
           \/ \E k \in DOMAIN C : C[k] = f
<1>1. \A X : f \in FramesOf(X) <=> \E v : Tracks(X, v, f)
  BY DEF FramesOf, Tracks, Range
<1>2. f \in UNION {FramesOf(A[q]) : q \in L} <=> \E q \in L : f \in FramesOf(A[q])
  BY ZenonT(30)
<1>3. f \in Range(C) <=> \E k \in DOMAIN C : C[k] = f
  BY ZenonT(30) DEF Range
<1>4. (\E q \in L : f \in FramesOf(A[q])) <=> \E q \in L : \E v : Tracks(A[q], v, f)
  BY ZenonT(30), <1>1
<1>5. f \in UsedBy(A, L, C) <=> f \in UNION {FramesOf(A[q]) : q \in L} \/ f \in Range(C)
  BY ZenonT(30) DEF UsedBy
<1>6. (f \in UNION {FramesOf(A[q]) : q \in L}) <=> \E q \in L : \E v : Tracks(A[q], v, f)
  BY ZenonT(30), <1>2, <1>4
<1> QED
  BY ZenonT(30), <1>3, <1>5, <1>6

(* The frames in use, before and after a step.                             *)
LEMMA UsedNow ==
  Used = UsedBy(areas, live, cache) /\ Used' = UsedBy(areas', live', cache')
BY ZenonT(30) DEF Used, UsedBy

(* The pages that an area tracks are pages.                                *)
LEMMA TracksPages ==
  ASSUME NEW S, Areas(S), NEW v, NEW f, Tracks(S, v, f)
  PROVE  v \in Pages /\ f \in Frames
<1>1. PICK a \in S : v \in DOMAIN a.frames /\ a.frames[v] = f
  BY ZenonT(30) DEF Tracks
<1>2. a.frames \in FrameMaps
  BY ZenonT(30) DEF Areas, AreaOK, AreaRecords
<1> QED
  BY ZenonT(30), <1>1, <1>2, FrameMapIs

(* What the frames hold after Contents(m).                                 *)
LEMMA ContentsFill ==
  ASSUME NEW m, Contents(m), \A f \in Frames : f \in Used' => m[f] \in Values
  PROVE  mem' \in [Frames -> Values \cup {Garbage}] /\ Filled'
<1>1. mem' = [f \in Frames |-> IF f \in Used' THEN m[f] ELSE Garbage]
  BY ZenonT(30) DEF Contents
<1>2. mem' \in [Frames -> Values \cup {Garbage}]
  BY ZenonT(30), <1>1
<1>3. \A f \in Frames : f \in Used' => mem'[f] \in Values
  BY ZenonT(30), <1>1
<1> QED
  BY ZenonT(30), <1>2, <1>3 DEF Filled

(* A step that changes the address space of one process.                   *)
OneSpace(p, S, P) ==
  /\ DOMAIN areas' = Procs /\ DOMAIN pte' = Procs /\ areas'[p] = S /\ pte'[p] = P
  /\ \A q \in Procs \ {p} : areas'[q] = areas[q] /\ pte'[q] = pte[q]
  /\ UNCHANGED <<live, uses>>

(* Updates of one process are such steps.                                  *)
LEMMA OneSpaceIs ==
  ASSUME Typed, NEW p \in live, NEW S, NEW P, UNCHANGED <<live, uses>>,
         areas' = [areas EXCEPT ![p] = S] \/ (areas' = areas /\ S = areas[p]),
         pte' = [pte EXCEPT ![p] = P] \/ (pte' = pte /\ P = pte[p])
  PROVE  OneSpace(p, S, P)
BY ZenonT(30) DEF Typed, OneSpace

(* Such a step keeps the types and SpacesOK when the new space is fine.    *)
LEMMA OneSpaceKeeps ==
  ASSUME Typed, SpacesOK, NEW p \in live, NEW S, NEW P, OneSpace(p, S, P),
         Areas(S), Table(P), Tracked(S, P), HeapOK(S, brk'[p], uses),
         brk' \in [Procs -> HeapBottom .. NPages], \A q \in live \ {p} : brk'[q] = brk[q],
         vparent' \in [Procs -> Procs \cup {Nobody}], borrows' \in [Procs -> Procs \cup {Nobody}],
         file' \in [FilePages -> Values], DOMAIN cache' \subseteq Nat, \A k \in DOMAIN cache' : cache'[k] \in Frames,
         mem' \in [Frames -> Values \cup {Garbage}]
  PROVE  Typed' /\ SpacesOK'
<1>1. p \in Procs /\ DOMAIN areas = Procs /\ DOMAIN pte = Procs
  BY ZenonT(30) DEF Typed
<1>2. /\ DOMAIN areas' = Procs /\ DOMAIN pte' = Procs /\ areas'[p] = S /\ pte'[p] = P
      /\ \A q \in Procs \ {p} : areas'[q] = areas[q] /\ pte'[q] = pte[q]
  BY ZenonT(30), <1>1 DEF OneSpace
<1>3. \A q \in Procs : Areas(areas'[q]) /\ Table(pte'[q])
  BY ZenonT(30), <1>2 DEF Typed
<1>4. Typed'
  BY ZenonT(30), <1>2, <1>3 DEF Typed, OneSpace
<1>5. ASSUME NEW q \in live' PROVE Tracked(areas'[q], pte'[q]) /\ HeapOK(areas'[q], brk'[q], uses')
  <2>1. q \in live /\ q \in Procs /\ uses' = uses
    BY ZenonT(30) DEF OneSpace, Typed
  <2> QED
    BY ZenonT(30), <1>2, <2>1 DEF SpacesOK
<1> QED
  BY ZenonT(30), <1>4, <1>5 DEF SpacesOK

(* Frame f is at page v of the areas S of p, and nowhere else.             *)
NewIn(S, p, v, f) ==
  /\ \A u \in Pages : Tracks(S, u, f) => u = v
  /\ \A q \in live \ {p}, u \in Pages : ~Tracks(areas[q], u, f)
  /\ \A k \in DOMAIN cache : cache[k] # f

(* What such a step adds: frames that are new or from the page cache, and  *)
(* to the cache only shared ones.                                          *)
AddsNew(p, S) ==
  \A v \in Pages, f \in Frames :
    Tracks(S, v, f) => \/ Tracks(areas[p], v, f) \/ NewIn(S, p, v, f)
                      \/ \E k \in DOMAIN cache : cache[k] = f
CachesShared(p, S) ==
  \A k \in DOMAIN cache' : \/ \E j \in DOMAIN cache : cache[j] = cache'[k]
                           \/ /\ \A a \in S : \A v \in DOMAIN a.frames : a.frames[v] = cache'[k] => a.shared
                              /\ \A q \in live \ {p}, u \in Pages : ~Tracks(areas[q], u, cache'[k])
OwnedIn(p, S, P) ==
  \A a \in S : \A v \in DOMAIN a.frames :
    /\ ~a.shared
    /\ ~Shares(uses) \/ (v \in DOMAIN P /\ P[v].w)
    => NewIn(S, p, v, a.frames[v]) \/ Only(p, v, a.frames[v])

(* Such a step leaves every frame of a writable private page with one      *)
(* owner, if the frames it adds to p are new or from the page cache, and   *)
(* the ones it adds to the cache are shared.                               *)
LEMMA OneSpaceOwned ==
  ASSUME Typed, Owned, NEW p \in live, NEW S, NEW P, OneSpace(p, S, P), Areas(S),
         AddsNew(p, S), CachesShared(p, S), OwnedIn(p, S, P)
  PROVE  Owned'
<1>1. p \in Procs /\ DOMAIN areas = Procs /\ DOMAIN pte = Procs /\ live' = live /\ live \subseteq Procs /\ uses' = uses
  BY ZenonT(30) DEF Typed, OneSpace
<1>2. /\ areas'[p] = S /\ pte'[p] = P
      /\ \A q \in Procs \ {p} : areas'[q] = areas[q] /\ pte'[q] = pte[q]
  BY ZenonT(30), <1>1 DEF OneSpace
<1> SUFFICES ASSUME NEW q \in live, NEW a \in areas'[q], NEW v \in DOMAIN a.frames, ~a.shared,
                    ~Shares(uses) \/ (v \in DOMAIN pte'[q] /\ pte'[q][v].w)
             PROVE  Only(q, v, a.frames[v])'
  BY ZenonT(30), <1>1 DEF Owned
<1> DEFINE f == a.frames[v]
<1>3. Tracks(areas'[q], v, f)
  BY ZenonT(30) DEF Tracks
<1>4. v \in Pages /\ f \in Frames
  BY ZenonT(30), <1>1, <1>2, <1>3, TracksPages DEF Typed
<1> HIDE DEF f
<1>5. CASE q = p /\ NewIn(S, p, v, f)
  <2>1. \A r \in live, u \in Pages : Tracks(areas'[r], u, f) => r = p /\ u = v
    BY ZenonT(30), <1>1, <1>2, <1>5 DEF NewIn
  <2>2. ASSUME NEW k \in DOMAIN cache', cache'[k] = f PROVE FALSE
    <3>1. a \in S /\ a.frames[v] = f
      BY ZenonT(30), <1>2, <1>5 DEF f
    <3> QED
      BY ZenonT(30), <2>2, <1>5, <3>1 DEF NewIn, CachesShared
  <2> QED
    BY ZenonT(30), <1>1, <1>5, <2>1, <2>2 DEF Only, f
<1>6. CASE q = p /\ Only(p, v, f)
  <2>1. ASSUME NEW r \in live, NEW u \in Pages, Tracks(areas'[r], u, f) PROVE r = p /\ u = v
    <3>1. CASE r # p
      BY ZenonT(30), <1>1, <1>2, <1>6, <2>1, <3>1 DEF Only
    <3>2. CASE r = p
      <4>1. Tracks(areas[p], u, f) \/ NewIn(S, p, u, f) \/ \E k \in DOMAIN cache : cache[k] = f
        BY ZenonT(30), <1>2, <1>4, <2>1, <3>2 DEF AddsNew
      <4> QED
        BY ZenonT(30), <1>2, <1>3, <1>4, <1>6, <3>2, <4>1 DEF Only, NewIn
    <3> QED
      BY ZenonT(30), <3>1, <3>2
  <2>2. ASSUME NEW k \in DOMAIN cache', cache'[k] = f PROVE FALSE
    <3>1. a \in S /\ a.frames[v] = f
      BY ZenonT(30), <1>2, <1>6 DEF f
    <3> QED
      BY ZenonT(30), <2>2, <1>6, <3>1 DEF Only, CachesShared
  <2> QED
    BY ZenonT(30), <1>1, <1>6, <2>1, <2>2 DEF Only, f
<1>7. CASE q # p
  <2>1. Only(q, v, f) /\ Tracks(areas[q], v, f)
    BY ZenonT(30), <1>1, <1>2, <1>3, <1>7 DEF Owned, f
  <2>2. ASSUME NEW r \in live, NEW u \in Pages, Tracks(areas'[r], u, f) PROVE r = q /\ u = v
    <3>1. CASE r # p
      BY ZenonT(30), <1>1, <1>2, <2>1, <2>2, <3>1 DEF Only
    <3>2. CASE r = p
      <4>1. Tracks(areas[p], u, f) \/ NewIn(S, p, u, f) \/ \E k \in DOMAIN cache : cache[k] = f
        BY <1>2, <1>4, <2>2, <3>2 DEF AddsNew
      <4> QED
        BY ZenonT(30), <1>4, <1>7, <2>1, <4>1 DEF Only, NewIn
    <3> QED
      BY ZenonT(30), <3>1, <3>2
  <2>3. ASSUME NEW k \in DOMAIN cache', cache'[k] = f PROVE FALSE
    BY ZenonT(30), <1>4, <1>7, <2>1, <2>3 DEF Only, CachesShared
  <2> QED
    BY ZenonT(30), <1>1, <2>2, <2>3 DEF Only, f
<1>8. q = p => NewIn(S, p, v, f) \/ Only(p, v, f)
  BY ZenonT(30), <1>2 DEF f, OwnedIn
<1> QED
  BY ZenonT(30), <1>5, <1>6, <1>7, <1>8

-----------------------------------------------------------------------------
(* S is made of parts of the areas T.                                      *)
PartsOf(S, T) == \A b \in S : \E a \in T : Part(b, a)

(* Parts keep no frame that the areas did not have.                        *)
LEMMA PartsTrack ==
  ASSUME NEW S, NEW T, PartsOf(S, T), \A a \in T : AreaOK(a), NEW v, NEW f, Tracks(S, v, f)
  PROVE  Tracks(T, v, f)
<1>1. PICK b \in S : v \in DOMAIN b.frames /\ b.frames[v] = f
  BY ZenonT(30) DEF Tracks
<1>2. PICK a \in T : Part(b, a)
  BY ZenonT(30) DEF PartsOf
<1>3. v \in DOMAIN a.frames /\ a.frames[v] = f
  BY ZenonT(30), <1>1, <1>2, PartSpan DEF Part
<1> QED
  BY ZenonT(30), <1>3 DEF Tracks

(* A step that divides or drops areas uses no more frames.                 *)
LEMMA PartsUsed ==
  ASSUME Typed, NEW p \in live, NEW S, NEW P, OneSpace(p, S, P), PartsOf(S, areas[p]),
         \A k \in DOMAIN cache' : \E j \in DOMAIN cache : cache[j] = cache'[k],
         NEW f, f \in Used'
  PROVE  f \in Used
<1>0. f \in UsedBy(areas', live', cache')
  BY ZenonT(30), UsedNow
<1>1. \/ \E q \in live' : \E v : Tracks(areas'[q], v, f)
      \/ \E k \in DOMAIN cache' : cache'[k] = f
  BY <1>0, UsedIs
<1>2. ASSUME NEW q \in live', NEW v, Tracks(areas'[q], v, f) PROVE Tracks(areas[q], v, f) /\ q \in live
  <2>1. q \in live /\ q \in Procs /\ p \in Procs /\ DOMAIN areas = Procs /\ \A a \in areas[p] : AreaOK(a)
    BY ZenonT(30) DEF OneSpace, Typed, Areas
  <2>2. CASE q = p
    <3>1. Tracks(S, v, f)
      BY ZenonT(30), <1>2, <2>1, <2>2 DEF OneSpace
    <3> QED
      BY ZenonT(30), <2>1, <2>2, <3>1, PartsTrack
  <2>3. CASE q # p
    BY ZenonT(30), <1>2, <2>1, <2>3 DEF OneSpace
  <2> QED
    BY ZenonT(30), <2>1, <2>2, <2>3
<1>3. \/ \E q \in live : \E v : Tracks(areas[q], v, f)
      \/ \E k \in DOMAIN cache : cache[k] = f
  BY ZenonT(30), <1>1, <1>2
<1> QED
  BY ZenonT(30), <1>3, UsedIs, UsedNow

(* Nor does it give a frame of a writable private page a second owner.     *)
LEMMA PartsOwned ==
  ASSUME Typed, Owned, NEW p \in live, NEW S, NEW P, OneSpace(p, S, P), Areas(S), PartsOf(S, areas[p]),
         \A v \in DOMAIN P : /\ v \in DOMAIN pte[p]
                             /\ P[v].w => pte[p][v].w \/ ~Shares(uses),
         cache' = cache
  PROVE  Owned'
<1>0. p \in Procs /\ \A a \in areas[p] : AreaOK(a)
  BY ZenonT(30) DEF Typed, Areas
<1>1. AddsNew(p, S)
  BY ZenonT(30), <1>0, PartsTrack DEF AddsNew
<1>2. ASSUME NEW b \in S, NEW v \in DOMAIN b.frames, ~b.shared, ~Shares(uses) \/ (v \in DOMAIN P /\ P[v].w)
      PROVE  Only(p, v, b.frames[v])
  <2>1. PICK a \in areas[p] : Part(b, a)
    BY ZenonT(30) DEF PartsOf
  <2>2. v \in DOMAIN a.frames /\ b.frames[v] = a.frames[v] /\ ~a.shared
    BY ZenonT(30), <1>0, <1>2, <2>1, PartSpan DEF Part
  <2>3. ~Shares(uses) \/ (v \in DOMAIN pte[p] /\ pte[p][v].w)
    BY ZenonT(30), <1>2
  <2> QED
    BY ZenonT(30), <2>2, <2>3 DEF Owned
<1>3. CachesShared(p, S)
  BY ZenonT(30) DEF CachesShared
<1>4. OwnedIn(p, S, P)
  BY ZenonT(30), <1>2 DEF OwnedIn
<1> QED
  BY ZenonT(30), <1>1, <1>3, <1>4, OneSpaceOwned

(* What unmap_range leaves of an address space.                            *)
LEMMA CutSpace ==
  ASSUME Typed, SpacesOK, NEW p \in live, NEW lo \in Nat, NEW hi \in Nat, lo < hi,
         NEW S, S = CutAll(p, lo, hi), NEW P, P = CutPtes(p, lo, hi)
  PROVE  /\ Areas(S) /\ Table(P) /\ Tracked(S, P) /\ HeapOK(S, brk[p], uses) /\ PartsOf(S, areas[p])
         /\ \A v \in DOMAIN P : v \in DOMAIN pte[p] /\ P[v] = pte[p][v]
         /\ (\A a \in areas[p] : Protected(a) => ~Overlaps(a, lo, hi)) => \A b \in S : ~Overlaps(b, lo, hi)
<1>0. p \in Procs /\ Areas(areas[p]) /\ Table(pte[p]) /\ Tracked(areas[p], pte[p]) /\ HeapOK(areas[p], brk[p], uses)
  BY ZenonT(30) DEF Typed, SpacesOK
<1>1. \A b \in S : \E a \in areas[p] : b \in Cut(a, lo, hi)
  BY ZenonT(30) DEF CutAll
<1>2. \A a \in areas[p] : \A b \in Cut(a, lo, hi) : b \in S
  BY ZenonT(30) DEF CutAll
<1>3. \A a \in areas[p] : AreaOK(a) /\ \A b \in Cut(a, lo, hi) : Part(b, a) /\ b.w = a.w /\ Span(b) \subseteq Span(a)
  BY ZenonT(30), <1>0, CutParts, PartSpan DEF Areas
<1>4. PartsOf(S, areas[p])
  BY ZenonT(30), <1>1, <1>3 DEF PartsOf
<1>5. Areas(S)
  <2>1. \A b \in S : AreaOK(b)
    BY ZenonT(30), <1>4 DEF PartsOf, Part
  <2>2. ASSUME NEW b \in S, NEW c \in S, b # c PROVE Span(b) \cap Span(c) = {}
    <3>1. PICK a \in areas[p] : b \in Cut(a, lo, hi)
      BY ZenonT(30), <1>1
    <3>2. PICK d \in areas[p] : c \in Cut(d, lo, hi)
      BY ZenonT(30), <1>1
    <3>3. a # d
      BY ZenonT(30), <1>3, <2>2, <3>1, <3>2, CutParts
    <3>4. Span(a) \cap Span(d) = {}
      BY ZenonT(30), <1>0, <3>3 DEF Areas, Apart
    <3> QED
      BY ZenonT(30), <1>3, <3>1, <3>2, <3>4
  <2> QED
    BY ZenonT(30), <2>1, <2>2 DEF Areas, Apart
<1> DEFINE gone == {v \in DOMAIN pte[p] :
                     \E a \in AreasAt(p, v) : /\ \A b \in Cut(a, lo, hi) : v \notin Span(b)
                                             /\ (v \in DOMAIN a.frames \/ ~a.lazy)}
<1>6. P = Kept(pte[p], Pages \ gone)
  BY ZenonT(30) DEF CutPtes
<1>7. DOMAIN P = DOMAIN pte[p] \cap (Pages \ gone) /\ \A v \in DOMAIN P : P[v] = pte[p][v]
  BY ZenonT(30), <1>6 DEF Kept, Restrict
<1>8. Table(P)
  BY ZenonT(30), <1>0, <1>7 DEF Table
<1>9. Tracked(S, P)
  <2> SUFFICES ASSUME NEW v \in DOMAIN P
               PROVE  \E b \in S : /\ v \in Span(b) /\ v \in DOMAIN b.frames /\ b.frames[v] = P[v].f
                                   /\ P[v].w => b.w
    BY ZenonT(30) DEF Tracked
  <2>1. v \in DOMAIN pte[p] /\ v \notin gone /\ P[v] = pte[p][v]
    BY ZenonT(30), <1>7
  <2>2. PICK a \in areas[p] : v \in Span(a) /\ v \in DOMAIN a.frames /\ a.frames[v] = pte[p][v].f /\ (pte[p][v].w => a.w)
    BY ZenonT(30), <1>0, <2>1 DEF Tracked
  <2>3. PICK b \in Cut(a, lo, hi) : v \in Span(b)
    BY ZenonT(30), <2>1, <2>2 DEF AreasAt
  <2>4. v \in DOMAIN b.frames /\ b.frames[v] = a.frames[v] /\ b.w = a.w
    BY ZenonT(30), <1>3, <2>2, <2>3 DEF Part
  <2> QED
    BY ZenonT(30), <1>2, <2>1, <2>2, <2>3, <2>4
<1>10. HeapOK(S, brk[p], uses)
  <2>1. \A b \in S : b.type \in {"heap", "elf"} => b \in areas[p]
    <3> SUFFICES ASSUME NEW b \in S, b.type \in {"heap", "elf"} PROVE b \in areas[p]
      BY ZenonT(30)
    <3>1. PICK a \in areas[p] : b \in Cut(a, lo, hi)
      BY ZenonT(30), <1>1
    <3>2. Protected(a)
      BY ZenonT(30), <1>3, <3>1 DEF Part, Protected
    <3> QED
      BY ZenonT(30), <1>3, <3>1, <3>2, CutParts
  <2> QED
    BY ZenonT(30), <1>0, <2>1 DEF HeapOK
<1>11. ASSUME \A a \in areas[p] : Protected(a) => ~Overlaps(a, lo, hi), NEW b \in S
       PROVE  ~Overlaps(b, lo, hi)
  <2>1. PICK a \in areas[p] : b \in Cut(a, lo, hi)
    BY ZenonT(30), <1>1
  <2> QED
    BY <1>3, <1>11, <2>1, CutParts
<1> HIDE DEF gone
<1> QED
  BY ZenonT(30), <1>4, <1>5, <1>7, <1>8, <1>9, <1>10, <1>11

-----------------------------------------------------------------------------
(* What every step keeps.                                                  *)
Keeps == IInv' /\ (Owned /\ CowSafe(uses) => Owned')

(* A frame that a page table entry points to is in use, and has contents.  *)
LEMMA MappedFilled ==
  ASSUME IInv, NEW p \in live, NEW v \in DOMAIN pte[p]
  PROVE  /\ pte[p][v].f \in Frames /\ Tracks(areas[p], v, pte[p][v].f) /\ v \in Pages
         /\ mem[pte[p][v].f] \in Values
<1>1. p \in Procs /\ pte[p][v] \in Entries /\ v \in Pages
  BY ZenonT(30) DEF IInv, Typed, Table
<1>2. pte[p][v].f \in Frames
  BY ZenonT(30), <1>1 DEF Entries
<1>3. Tracks(areas[p], v, pte[p][v].f)
  BY ZenonT(30) DEF IInv, SpacesOK, Tracked, Tracks
<1>4. pte[p][v].f \in Used
  BY ZenonT(30), <1>3, UsedIs, UsedNow
<1> QED
  BY ZenonT(30), <1>1, <1>2, <1>3, <1>4 DEF IInv, Filled

(* A step that leaves areas and page tables alone.                         *)
LEMMA SameSpacesKeep ==
  ASSUME IInv, UNCHANGED <<areas, pte, brk, live, vparent, borrows, uses>>,
         DOMAIN cache' \subseteq Nat, \A k \in DOMAIN cache' : k \in DOMAIN cache /\ cache'[k] = cache[k],
         mem' \in [Frames -> Values \cup {Garbage}], file' \in [FilePages -> Values], Filled'
  PROVE  Keeps
<1>1. Typed'
  BY ZenonT(30) DEF IInv, Typed
<1>2. SpacesOK'
  BY ZenonT(30) DEF IInv, SpacesOK
<1>3. Owned => Owned'
  BY DEF Owned, Only
<1> QED
  BY ZenonT(30), <1>1, <1>2, <1>3 DEF Keeps, IInv

(* A program's store, or the kernel's.                                     *)
LEMMA StoreKeeps ==
  ASSUME IInv, NEW p, NEW v, NEW x \in Values, Store(p, v, x) \/ CopyOutRelaxed(p, v, x)
  PROVE  Keeps
<1>1. mem' = [mem EXCEPT ![pte[p][v].f] = x] /\ UNCHANGED <<areas, pte, brk, live, vparent, borrows, file, cache, uses>>
  BY ZenonT(30) DEF Store, CopyOutRelaxed
<1>2. mem' \in [Frames -> Values \cup {Garbage}]
  BY ZenonT(30), <1>1 DEF IInv, Typed
<1>3. Used' = Used
  BY ZenonT(30), <1>1 DEF Used
<1>4. Filled'
  BY ZenonT(30), <1>1, <1>3 DEF IInv, Filled, Typed
<1>5. DOMAIN cache' \subseteq Nat /\ file' \in [FilePages -> Values]
  BY ZenonT(30), <1>1 DEF IInv, Typed
<1> QED
  BY ZenonT(30), <1>1, <1>2, <1>4, <1>5, SameSpacesKeep

(* write(2), msync and truncation.                                         *)
LEMMA FileKeeps ==
  ASSUME IInv, FileStep
  PROVE  Keeps
<1>1. ASSUME NEW k \in FilePages, NEW x \in Values, WriteFile(k, x) PROVE Keeps
  <2>1. file' = [file EXCEPT ![k] = x] /\ UNCHANGED <<areas, pte, mem, brk, live, vparent, borrows, cache, uses>>
    BY ZenonT(30), <1>1 DEF WriteFile
  <2>2. file' \in [FilePages -> Values] /\ mem' \in [Frames -> Values \cup {Garbage}] /\ DOMAIN cache' \subseteq Nat
    BY ZenonT(30), <2>1 DEF IInv, Typed
  <2>3. Filled'
    BY ZenonT(30), <2>1 DEF IInv, Filled, Used
  <2> QED
    BY ZenonT(30), <2>1, <2>2, <2>3, SameSpacesKeep
<1>2. CASE Invalidate
  <2>1. cache' = Empty /\ UNCHANGED <<areas, pte, brk, live, vparent, borrows, file, uses>> /\ Contents(mem)
    BY ZenonT(30), <1>2 DEF Invalidate
  <2>2. DOMAIN cache' = {}
    BY ZenonT(30), <2>1 DEF Empty
  <2>3. ASSUME NEW f \in Frames, f \in Used' PROVE mem[f] \in Values
    <3>1. f \in UsedBy(areas', live', cache')
      BY ZenonT(30), <2>3, UsedNow
    <3>2. \E q \in live' : \E v : Tracks(areas'[q], v, f)
      BY ZenonT(30), <2>2, <3>1, UsedIs
    <3>3. \E q \in live : \E v : Tracks(areas[q], v, f)
      BY ZenonT(30), <2>1, <3>2
    <3>4. f \in Used
      BY ZenonT(30), <3>3, UsedIs, UsedNow
    <3> QED
      BY ZenonT(30), <3>4 DEF IInv, Filled
  <2>4. mem' \in [Frames -> Values \cup {Garbage}] /\ Filled'
    BY ZenonT(30), <2>1, <2>3, ContentsFill
  <2>5. file' \in [FilePages -> Values]
    BY ZenonT(30), <2>1 DEF IInv, Typed
  <2> QED
    BY ZenonT(30), <2>1, <2>2, <2>4, <2>5, SameSpacesKeep
<1> QED
  BY ZenonT(30), <1>1, <1>2 DEF FileStep

(* msync.                                                                  *)
LEMMA MsyncKeeps ==
  ASSUME IInv, NEW p, NEW lo, NEW hi, NEW wb \in BOOLEAN, Msync(p, lo, hi, wb)
  PROVE  Keeps
<1>1. p \in live /\ UNCHANGED <<areas, pte, brk, live, vparent, borrows, cache, uses>>
  BY ZenonT(30) DEF Msync
<1>2. Used' = Used
  BY ZenonT(30), <1>1 DEF Used
<1>3. \A v \in SyncPages(p, lo, hi) : v \in DOMAIN pte[p]
  BY ZenonT(30) DEF SyncPages
<1>4. file \in [FilePages -> Values] /\ mem \in [Frames -> Values \cup {Garbage}] /\ DOMAIN cache \subseteq Nat
  BY ZenonT(30) DEF IInv, Typed
<1>5. \A k : FilePage(k) \in Values
  BY ZenonT(30), <1>4, MemoryAssumption DEF FilePage
<1>6. CASE wb
  <2>1. file' = [k \in FilePages |->
                        IF \E v \in SyncPages(p, lo, hi) : FileIndex(p, v) = k
                        THEN mem[pte[p][CHOOSE v \in SyncPages(p, lo, hi) : FileIndex(p, v) = k].f] ELSE file[k]]
        /\ mem' = mem
    BY ZenonT(30), <1>6 DEF Msync
  <2>2. ASSUME NEW k \in FilePages PROVE file'[k] \in Values
    <3>1. CASE \E v \in SyncPages(p, lo, hi) : FileIndex(p, v) = k
      <4>1. PICK v : v = CHOOSE u \in SyncPages(p, lo, hi) : FileIndex(p, u) = k
        BY ZenonT(30)
      <4>2. v \in DOMAIN pte[p] /\ file'[k] = mem[pte[p][v].f]
        BY ZenonT(30), <1>3, <2>1, <3>1, <4>1
      <4> QED
        BY ZenonT(30), <1>1, <4>2, MappedFilled
    <3>2. CASE ~ \E v \in SyncPages(p, lo, hi) : FileIndex(p, v) = k
      BY ZenonT(30), <1>4, <2>1, <3>2
    <3> QED
      BY ZenonT(30), <3>1, <3>2
  <2>3. file' \in [FilePages -> Values]
    BY ZenonT(30), <2>1, <2>2
  <2>4. Filled'
    BY ZenonT(30), <1>2, <2>1 DEF IInv, Filled
  <2> QED
    BY ZenonT(30), <1>1, <1>4, <2>1, <2>3, <2>4, SameSpacesKeep
<1>7. CASE ~wb
  <2>1. mem' = [f \in Frames |->
                       IF \E v \in SyncPages(p, lo, hi) : pte[p][v].f = f
                       THEN FilePage(FileIndex(p, CHOOSE v \in SyncPages(p, lo, hi) : pte[p][v].f = f)) ELSE mem[f]]
        /\ file' = file
    BY ZenonT(30), <1>7 DEF Msync
  <2>2. \A f \in Frames : mem'[f] \in Values \/ mem'[f] = mem[f]
    BY ZenonT(30), <1>5, <2>1
  <2>3. mem' \in [Frames -> Values \cup {Garbage}]
    BY ZenonT(30), <1>4, <2>1, <2>2
  <2>4. Filled'
    BY ZenonT(30), <1>2, <2>2 DEF IInv, Filled
  <2> QED
    BY ZenonT(30), <1>1, <1>4, <2>1, <2>3, <2>4, SameSpacesKeep
<1> QED
  BY ZenonT(30), <1>6, <1>7

(* The system parts that OneSpaceKeeps asks for, when they do not change.  *)
LEMMA RestTyped ==
  ASSUME Typed
  PROVE  /\ brk \in [Procs -> HeapBottom .. NPages]
         /\ vparent \in [Procs -> Procs \cup {Nobody}] /\ borrows \in [Procs -> Procs \cup {Nobody}]
         /\ file \in [FilePages -> Values] /\ DOMAIN cache \subseteq Nat /\ \A k \in DOMAIN cache : cache[k] \in Frames
         /\ mem \in [Frames -> Values \cup {Garbage}]
BY ZenonT(30) DEF Typed

(* munmap.                                                                 *)
LEMMA MunmapKeeps ==
  ASSUME IInv, NEW p, NEW lo \in Nat, NEW hi \in Nat, lo < hi, Munmap(p, lo, hi)
  PROVE  Keeps
<1>1. PICK S : S = CutAll(p, lo, hi)
  BY ZenonT(30)
<1>2. PICK P : P = CutPtes(p, lo, hi)
  BY ZenonT(30)
<1>3. p \in live /\ OneSpace(p, S, P) /\ UNCHANGED <<brk, vparent, borrows, file, cache>> /\ Contents(mem)
  BY ZenonT(30), <1>1, <1>2, OneSpaceIs DEF Munmap, IInv
<1>4. /\ Areas(S) /\ Table(P) /\ Tracked(S, P) /\ HeapOK(S, brk[p], uses) /\ PartsOf(S, areas[p])
      /\ \A v \in DOMAIN P : v \in DOMAIN pte[p] /\ P[v] = pte[p][v]
  BY <1>1, <1>2, <1>3, CutSpace DEF IInv
<1>5. \A f \in Frames : f \in Used' => mem[f] \in Values
  BY ZenonT(30), <1>3, <1>4, PartsUsed DEF IInv, Filled
<1>6. mem' \in [Frames -> Values \cup {Garbage}] /\ Filled'
  BY ZenonT(30), <1>3, <1>5, ContentsFill
<1>7. Typed' /\ SpacesOK'
  BY ZenonT(30), <1>3, <1>4, <1>6, RestTyped, OneSpaceKeeps DEF IInv
<1>8. Owned => Owned'
  BY <1>3, <1>4, PartsOwned DEF IInv
<1> QED
  BY ZenonT(30), <1>6, <1>7, <1>8 DEF Keeps, IInv

(* mprotect.                                                               *)
LEMMA MprotectKeeps ==
  ASSUME IInv, Regular(uses), NEW p, NEW lo \in Nat, NEW hi \in Nat, lo < hi, NEW w \in uses.perms, Mprotect(p, lo, hi, w)
  PROVE  Keeps
<1>0. w \in BOOLEAN /\ uses \in Repertoires
  BY ZenonT(30), MemoryAssumption DEF IInv, Typed
<1>1. PICK S : S = UNION {Protect(a, lo, hi, w) : a \in areas[p]}
  BY ZenonT(30)
<1>2. PICK P : P = [v \in DOMAIN pte[p] |-> IF v \in lo .. hi - 1 THEN [pte[p][v] EXCEPT !.w = w] ELSE pte[p][v]]
  BY ZenonT(30)
<1>3. /\ p \in live /\ OneSpace(p, S, P) /\ UNCHANGED <<brk, vparent, borrows, file, cache, mem>>
      /\ "mprotect" \in uses.calls
  BY ZenonT(30), <1>1, <1>2, OneSpaceIs DEF Mprotect, IInv
<1>4. p \in Procs /\ Areas(areas[p]) /\ Table(pte[p]) /\ Tracked(areas[p], pte[p]) /\ HeapOK(areas[p], brk[p], uses)
  BY ZenonT(30), <1>3 DEF IInv, Typed, SpacesOK
<1>5. \A b \in S : \E a \in areas[p] : b \in Protect(a, lo, hi, w)
  BY ZenonT(30), <1>1
<1>6. \A a \in areas[p] : \A b \in Protect(a, lo, hi, w) : b \in S
  BY ZenonT(30), <1>1
<1>7. \A a \in areas[p] : AreaOK(a) /\ \A b \in Protect(a, lo, hi, w) : Part(b, a) /\ Span(b) \subseteq Span(a)
  BY ZenonT(30), <1>0, <1>4, ProtectParts, PartSpan DEF Areas
<1>8. PartsOf(S, areas[p])
  BY ZenonT(30), <1>5, <1>7 DEF PartsOf
<1>9. Areas(S)
  <2>1. \A b \in S : AreaOK(b)
    BY ZenonT(30), <1>8 DEF PartsOf, Part
  <2>2. ASSUME NEW b \in S, NEW c \in S, b # c PROVE Span(b) \cap Span(c) = {}
    <3>1. PICK a \in areas[p] : b \in Protect(a, lo, hi, w)
      BY ZenonT(30), <1>5
    <3>2. PICK d \in areas[p] : c \in Protect(d, lo, hi, w)
      BY ZenonT(30), <1>5
    <3>3. CASE a = d
      <4>1. Apart(Protect(a, lo, hi, w))
        BY ZenonT(30), <1>0, <1>7, ProtectParts
      <4> QED
        BY ZenonT(30), <2>2, <3>1, <3>2, <3>3, <4>1 DEF Apart
    <3>4. CASE a # d
      <4>1. Span(a) \cap Span(d) = {}
        BY ZenonT(30), <1>4, <3>4 DEF Areas, Apart
      <4> QED
        BY ZenonT(30), <1>7, <3>1, <3>2, <4>1
    <3> QED
      BY ZenonT(30), <3>3, <3>4
  <2> QED
    BY ZenonT(30), <2>1, <2>2 DEF Areas, Apart
<1>10. /\ DOMAIN P = DOMAIN pte[p]
       /\ \A v \in DOMAIN P : P[v] \in Entries /\ P[v].f = pte[p][v].f
                              /\ P[v].w = IF v \in lo .. hi - 1 THEN w ELSE pte[p][v].w
  <2>1. \A v \in DOMAIN pte[p] : pte[p][v] \in Entries
    BY ZenonT(30), <1>4 DEF Table
  <2> QED
    BY ZenonT(30), <1>0, <1>2, <2>1 DEF Entries
<1>11. Table(P)
  BY ZenonT(30), <1>4, <1>10 DEF Table
<1>12. Tracked(S, P)
  <2> SUFFICES ASSUME NEW v \in DOMAIN P
               PROVE  \E b \in S : /\ v \in Span(b) /\ v \in DOMAIN b.frames /\ b.frames[v] = P[v].f
                                   /\ P[v].w => b.w
    BY ZenonT(30) DEF Tracked
  <2>1. PICK a \in areas[p] : v \in Span(a) /\ v \in DOMAIN a.frames /\ a.frames[v] = pte[p][v].f /\ (pte[p][v].w => a.w)
    BY ZenonT(30), <1>4, <1>10 DEF Tracked
  <2>2. v \in Nat
    BY <1>4, <1>10, MemoryAssumption DEF Table, Pages
  <2>3. PICK b \in Protect(a, lo, hi, w) : v \in Span(b)
    BY <1>0, <1>7, <2>1, ProtectParts
  <2>4. b.w = IF v \in lo .. hi - 1 THEN w ELSE a.w
    BY <1>0, <1>7, <2>2, <2>3, ProtectParts
  <2>5. v \in DOMAIN b.frames /\ b.frames[v] = a.frames[v]
    BY ZenonT(30), <1>7, <2>1, <2>3 DEF Part
  <2> QED
    BY ZenonT(30), <1>6, <1>10, <2>1, <2>3, <2>4, <2>5
<1>13. HeapOK(S, brk[p], uses)
  <2> SUFFICES ASSUME NEW b \in S
               PROVE  b.type # "heap" /\ (b.type = "elf" => b.lo = 0 /\ b.hi = 1)
    BY ZenonT(30) DEF HeapOK
  <2>1. PICK a \in areas[p] : b \in Protect(a, lo, hi, w)
    BY ZenonT(30), <1>5
  <2>2. b.type = a.type
    BY ZenonT(30), <1>7, <2>1 DEF Part
  <2>3. "brk" \notin uses.calls
    BY ZenonT(30), <1>3 DEF Regular
  <2>4. a.type # "heap" /\ (a.type = "elf" => a.lo = 0 /\ a.hi = 1)
    BY ZenonT(30), <1>4, <2>3 DEF HeapOK
  <2> QED
    BY <1>0, <1>7, <2>1, <2>2, <2>4, ProtectParts
<1>14. \A f \in Frames : f \in Used' => mem'[f] \in Values
  BY ZenonT(30), <1>3, <1>8, PartsUsed DEF IInv, Filled
<1>15. Filled'
  BY ZenonT(30), <1>14 DEF Filled
<1>16. Typed' /\ SpacesOK'
  BY ZenonT(30), <1>3, <1>9, <1>11, <1>12, <1>13, RestTyped, OneSpaceKeeps DEF IInv
<1>17. Owned /\ CowSafe(uses) => Owned'
  <2> SUFFICES ASSUME Owned, CowSafe(uses) PROVE Owned'
    BY ZenonT(30)
  <2>1. w => ~Shares(uses)
    BY ZenonT(30), <1>0, <1>3 DEF CowSafe
  <2>2. \A v \in DOMAIN P : v \in DOMAIN pte[p] /\ (P[v].w => pte[p][v].w \/ ~Shares(uses))
    BY ZenonT(30), <1>10, <2>1
  <2> QED
    BY ZenonT(30), <1>3, <1>8, <1>9, <2>2, PartsOwned DEF IInv
<1> QED
  BY ZenonT(30), <1>15, <1>16, <1>17 DEF Keeps, IInv

(* One area of p gets a frame g for page v that nobody uses.               *)
Given(a, v, g) == [a EXCEPT !.frames = With(@, v, g)]

(* It stays the same area otherwise.                                       *)
LEMMA GivenIs ==
  ASSUME NEW a, AreaOK(a), NEW v \in Span(a), NEW g \in Frames, NEW b, b = Given(a, v, g)
  PROVE  /\ AreaOK(b) /\ Span(b) = Span(a) /\ b.w = a.w /\ b.shared = a.shared /\ b.type = a.type
         /\ b.lo = a.lo /\ b.hi = a.hi
         /\ DOMAIN b.frames = DOMAIN a.frames \cup {v} /\ b.frames[v] = g
         /\ \A u \in DOMAIN a.frames : u # v => b.frames[u] = a.frames[u]
<1>1. PICK fs : fs = With(a.frames, v, g)
  BY ZenonT(30)
<1>2. DOMAIN fs = DOMAIN a.frames \cup {v} /\ fs = [u \in DOMAIN fs |-> IF u = v THEN g ELSE a.frames[u]]
  BY ZenonT(30), <1>1 DEF With
<1>3. a \in AreaRecords /\ a.frames \in FrameMaps /\ a.lo \in Nat /\ a.hi \in Nat
  BY ZenonT(30) DEF AreaOK, AreaRecords
<1>4. v \in Pages
  BY <1>3, MemoryAssumption DEF Span, AreaOK, Pages
<1>5. DOMAIN fs \subseteq Pages /\ \A u \in DOMAIN fs : fs[u] \in Frames
  BY ZenonT(30), <1>2, <1>3, <1>4, FrameMapIs
<1>6. fs \in [DOMAIN fs -> Frames]
  BY ZenonT(30), <1>2, <1>5
<1>7. fs \in FrameMaps
  BY ZenonT(30), <1>5, <1>6, FrameMapOf
<1>8. b = [a EXCEPT !.frames = fs]
  BY ZenonT(30), <1>1, <1>3 DEF Given, AreaRecords
<1>9. /\ b \in AreaRecords /\ b.lo = a.lo /\ b.hi = a.hi /\ b.w = a.w /\ b.shared = a.shared /\ b.type = a.type
      /\ b.frames = fs
  BY ZenonT(30), <1>3, <1>7, <1>8 DEF AreaRecords
<1>10. Span(b) = Span(a)
  BY ZenonT(30), <1>9 DEF Span
<1>11. AreaOK(b)
  BY ZenonT(30), <1>2, <1>9, <1>10 DEF AreaOK
<1>12. /\ DOMAIN b.frames = DOMAIN a.frames \cup {v} /\ b.frames[v] = g
       /\ \A u \in DOMAIN a.frames : u # v => b.frames[u] = a.frames[u]
  BY ZenonT(30), <1>2, <1>9
<1> QED
  BY ZenonT(30), <1>9, <1>10, <1>11, <1>12

(* A page of p gets a new frame: handle_cow_fault and handle_demand_fault. *)
LEMMA GivenKeeps ==
  ASSUME IInv, NEW p \in live, NEW v \in Pages, NEW a \in areas[p], v \in Span(a), NEW g \in Free,
         NEW S, S = (areas[p] \ {a}) \cup {Given(a, v, g)},
         NEW P, DOMAIN P = DOMAIN pte[p] \cup {v}, P[v] \in Entries, P[v].f = g, P[v].w => a.w,
         \A u \in DOMAIN pte[p] : u # v => P[u] = pte[p][u],
         OneSpace(p, S, P), UNCHANGED <<brk, vparent, borrows, file, cache>>,
         NEW x \in Values, Contents([mem EXCEPT ![g] = x])
  PROVE  Keeps
<1>0. p \in Procs /\ Areas(areas[p]) /\ Table(pte[p]) /\ Tracked(areas[p], pte[p]) /\ HeapOK(areas[p], brk[p], uses)
  BY ZenonT(30) DEF IInv, Typed, SpacesOK
<1>1. AreaOK(a) /\ g \in Frames
  BY ZenonT(30), <1>0 DEF Areas, Free
<1>2. PICK b : b = Given(a, v, g)
  BY ZenonT(30)
<1>3. /\ AreaOK(b) /\ Span(b) = Span(a) /\ b.w = a.w /\ b.shared = a.shared /\ b.type = a.type
      /\ b.lo = a.lo /\ b.hi = a.hi
      /\ DOMAIN b.frames = DOMAIN a.frames \cup {v} /\ b.frames[v] = g
      /\ \A u \in DOMAIN a.frames : u # v => b.frames[u] = a.frames[u]
  BY <1>1, <1>2, GivenIs
<1>4. S = (areas[p] \ {a}) \cup {b}
  BY ZenonT(30), <1>2
<1>5. Areas(S)
  BY ZenonT(30), <1>0, <1>3, <1>4 DEF Areas, Apart
<1>6. Table(P)
  BY ZenonT(30), <1>0 DEF Table
<1>7. Tracked(S, P)
  <2> SUFFICES ASSUME NEW u \in DOMAIN P
               PROVE  \E c \in S : /\ u \in Span(c) /\ u \in DOMAIN c.frames /\ c.frames[u] = P[u].f
                                   /\ P[u].w => c.w
    BY ZenonT(30) DEF Tracked
  <2>1. CASE u = v
    BY ZenonT(30), <1>3, <1>4, <2>1
  <2>2. CASE u # v
    <3>1. u \in DOMAIN pte[p] /\ P[u] = pte[p][u]
      BY ZenonT(30), <2>2
    <3>2. PICK c \in areas[p] : u \in Span(c) /\ u \in DOMAIN c.frames /\ c.frames[u] = pte[p][u].f /\ (pte[p][u].w => c.w)
      BY ZenonT(30), <1>0, <3>1 DEF Tracked
    <3>3. CASE c = a
      <4>1. b \in S /\ u \in Span(b) /\ u \in DOMAIN b.frames /\ b.frames[u] = P[u].f /\ (P[u].w => b.w)
        BY ZenonT(30), <1>3, <1>4, <2>2, <3>1, <3>2, <3>3
      <4> QED
        BY ZenonT(30), <4>1
    <3>4. CASE c # a
      <4>1. c \in S /\ c.frames[u] = P[u].f /\ (P[u].w => c.w)
        BY ZenonT(30), <1>4, <3>1, <3>2, <3>4
      <4> QED
        BY ZenonT(30), <3>2, <4>1
    <3> QED
      BY ZenonT(30), <3>3, <3>4
  <2> QED
    BY ZenonT(30), <2>1, <2>2
<1>b. \A c \in S : c = b \/ (c \in areas[p] /\ c # a)
  BY ZenonT(30), <1>4
<1>8. HeapOK(S, brk[p], uses)
  <2>1. \A c \in S : \E d \in areas[p] : c.type = d.type /\ c.lo = d.lo /\ c.hi = d.hi
    BY ZenonT(30), <1>3, <1>b
  <2>2. \A d \in areas[p] : \E c \in S : c.type = d.type /\ c.lo = d.lo /\ c.hi = d.hi
    BY ZenonT(30), <1>3, <1>4
  <2> QED
    BY <1>0, <1>3, <1>4, <2>1, <2>2 DEF HeapOK
<1>9. \A u, f : Tracks(S, u, f) => Tracks(areas[p], u, f) \/ (u = v /\ f = g)
  <2> SUFFICES ASSUME NEW u, NEW f, NEW c \in S, u \in DOMAIN c.frames, c.frames[u] = f, u # v \/ f # g
               PROVE  Tracks(areas[p], u, f)
    BY ZenonT(30) DEF Tracks
  <2>1. CASE c = b
    <3>1. u \in DOMAIN a.frames /\ a.frames[u] = f
      BY ZenonT(30), <1>3, <2>1
    <3> QED
      BY ZenonT(30), <3>1 DEF Tracks
  <2>2. CASE c # b
    BY ZenonT(30), <1>b, <2>2 DEF Tracks
  <2> QED
    BY ZenonT(30), <2>1, <2>2
<1>10. /\ \A q \in live : \A u : ~Tracks(areas[q], u, g)
       /\ \A k \in DOMAIN cache : cache[k] # g
  <2>1. g \notin UsedBy(areas, live, cache)
    BY ZenonT(30), UsedNow DEF Free
  <2> QED
    BY ZenonT(30), <2>1, UsedIs
<1>11. ASSUME NEW f \in Frames, f \in Used' PROVE [mem EXCEPT ![g] = x][f] \in Values
  <2>1. f \in UsedBy(areas', live', cache')
    BY ZenonT(30), <1>11, UsedNow
  <2>2. (\E q \in live' : \E u : Tracks(areas'[q], u, f)) \/ \E k \in DOMAIN cache' : cache'[k] = f
    BY <2>1, UsedIs
  <2>3. ASSUME NEW q \in live', NEW u, Tracks(areas'[q], u, f) PROVE f = g \/ (q \in live /\ Tracks(areas[q], u, f))
    <3>1. q \in live /\ q \in Procs /\ DOMAIN areas = Procs
      BY ZenonT(30) DEF OneSpace, IInv, Typed
    <3> QED
      BY ZenonT(30), <1>0, <1>9, <2>3, <3>1 DEF OneSpace
  <2>4. f = g \/ (\E q \in live : \E u : Tracks(areas[q], u, f)) \/ \E k \in DOMAIN cache : cache[k] = f
    BY ZenonT(30), <2>2, <2>3
  <2>5. f = g \/ f \in Used
    BY ZenonT(30), <2>4, UsedIs, UsedNow
  <2> QED
    BY ZenonT(30), <2>5 DEF IInv, Filled, Typed
<1>12. mem' \in [Frames -> Values \cup {Garbage}] /\ Filled'
  BY ZenonT(30), <1>11, ContentsFill
<1>13. Typed' /\ SpacesOK'
  BY ZenonT(30), <1>5, <1>6, <1>7, <1>8, <1>12, RestTyped, OneSpaceKeeps DEF IInv
<1>14. NewIn(S, p, v, g)
  BY ZenonT(30), <1>9, <1>10 DEF NewIn
<1>a. Typed
  BY ZenonT(30) DEF IInv
<1>15. Owned => Owned'
  <2> SUFFICES ASSUME Owned PROVE Owned'
    BY ZenonT(30)
  <2>1. AddsNew(p, S)
    BY ZenonT(30), <1>9, <1>14 DEF AddsNew
  <2>2. ASSUME NEW c \in S, NEW u \in DOMAIN c.frames, ~c.shared, ~Shares(uses) \/ (u \in DOMAIN P /\ P[u].w)
        PROVE  NewIn(S, p, u, c.frames[u]) \/ Only(p, u, c.frames[u])
    <3>1. CASE c = b /\ u = v
      BY ZenonT(30), <1>3, <1>14, <3>1
    <3>2. CASE c = b /\ u # v
      <4>1. u \in DOMAIN a.frames /\ c.frames[u] = a.frames[u] /\ ~a.shared
        BY ZenonT(30), <1>3, <2>2, <3>2
      <4> QED
        BY ZenonT(30), <2>2, <3>2, <4>1 DEF Owned
    <3>3. CASE c # b
      <4>1. c \in areas[p] /\ c # a
        BY ZenonT(30), <1>4, <3>3
      <4>2. u # v
        <5>1. u \in Span(c)
          BY ZenonT(30), <1>0, <4>1 DEF Areas, AreaOK
        <5> QED
          BY ZenonT(30), <1>0, <4>1, <5>1 DEF Areas, Apart
      <4> QED
        BY ZenonT(30), <2>2, <4>1, <4>2 DEF Owned
    <3> QED
      BY ZenonT(30), <3>1, <3>2, <3>3
  <2>3. CachesShared(p, S) /\ OwnedIn(p, S, P)
    BY ZenonT(30), <2>2 DEF CachesShared, OwnedIn
  <2> QED
    BY ZenonT(30), <1>5, <1>a, <2>1, <2>3, OneSpaceOwned
<1> QED
  BY ZenonT(30), <1>12, <1>13, <1>15 DEF Keeps, IInv

(* A frame with one reference belongs to the page that refers to it.       *)
LEMMA SoleIsOnly ==
  ASSUME IInv, NEW p \in live, NEW v, NEW f, Tracks(areas[p], v, f), SoleOwner(f)
  PROVE  Only(p, v, f)
<1>1. PICK r : Refs(f) = {r}
  BY ZenonT(30) DEF SoleOwner
<1>2. ASSUME NEW q \in live, NEW u, Tracks(areas[q], u, f) PROVE \E a : <<q, a, u>> \in Refs(f)
  <2>1. PICK a \in areas[q] : u \in DOMAIN a.frames /\ a.frames[u] = f
    BY ZenonT(30), <1>2 DEF Tracks
  <2>2. q \in Procs /\ u \in Pages
    BY ZenonT(30), <1>2, TracksPages DEF IInv, Typed
  <2>3. a \in UNION {areas[s] : s \in live}
    BY ZenonT(30)
  <2>4. <<q, a, u>> \in live \X (UNION {areas[s] : s \in live}) \X Pages
    BY ZenonT(30), <2>2, <2>3
  <2> QED
    BY ZenonT(30), <2>1, <2>4 DEF Refs
<1>3. \A k \in DOMAIN cache : cache[k] = f => <<"cache", k>> \in Refs(f)
  BY ZenonT(30) DEF Refs
<1>4. PICK a : r = <<p, a, v>>
  BY ZenonT(30), <1>1, <1>2
<1>5. ASSUME NEW q \in live, NEW u, Tracks(areas[q], u, f) PROVE q = p /\ u = v
  <2>1. PICK b : <<q, b, u>> \in Refs(f)
    BY ZenonT(30), <1>2, <1>5
  <2> QED
    BY <1>1, <1>4, <2>1
<1>6. \A k : <<"cache", k>> # <<p, a, v>>
  BY ZenonT(30)
<1> QED
  BY ZenonT(30), <1>1, <1>3, <1>4, <1>5, <1>6 DEF Only

(* And the other way round.                                                *)
LEMMA OnlyIsSole ==
  ASSUME IInv, NEW p \in live, NEW v, NEW f, Tracks(areas[p], v, f), Only(p, v, f)
  PROVE  SoleOwner(f)
<1>1. PICK a \in areas[p] : v \in DOMAIN a.frames /\ a.frames[v] = f
  BY ZenonT(30) DEF Tracks
<1>2. p \in Procs /\ v \in Pages /\ Areas(areas[p])
  BY ZenonT(30), TracksPages DEF IInv, Typed
<1>3. <<p, a, v>> \in Refs(f)
  <2>1. a \in UNION {areas[s] : s \in live}
    BY ZenonT(30)
  <2>2. <<p, a, v>> \in live \X (UNION {areas[s] : s \in live}) \X Pages
    BY ZenonT(30), <1>2, <2>1
  <2> QED
    BY ZenonT(30), <1>1, <2>2 DEF Refs
<1>4. ASSUME NEW r \in Refs(f) PROVE r = <<p, a, v>>
  <2>1. CASE r \in {<<"cache", k>> : k \in {j \in DOMAIN cache : cache[j] = f}}
    BY ZenonT(30), <2>1 DEF Only
  <2>2. CASE /\ r \in live \X (UNION {areas[s] : s \in live}) \X Pages
             /\ r[2] \in areas[r[1]] /\ r[3] \in DOMAIN r[2].frames /\ r[2].frames[r[3]] = f
    <3>1. PICK q \in live, b \in UNION {areas[s] : s \in live}, u \in Pages : r = <<q, b, u>>
      BY <2>2
    <3>2. b \in areas[q] /\ u \in DOMAIN b.frames /\ b.frames[u] = f
      BY ZenonT(30), <2>2, <3>1
    <3>3. q = p /\ u = v
      BY ZenonT(30), <3>2 DEF Only, Tracks
    <3>4. v \in Span(a) /\ v \in Span(b)
      BY ZenonT(30), <1>1, <1>2, <3>2, <3>3 DEF Areas, AreaOK
    <3>5. a = b
      BY ZenonT(30), <1>2, <3>2, <3>3, <3>4 DEF Areas, Apart
    <3> QED
      BY ZenonT(30), <3>1, <3>3, <3>5
  <2> QED
    BY ZenonT(30), <2>1, <2>2 DEF Refs
<1> QED
  BY ZenonT(30), <1>3, <1>4 DEF SoleOwner

(* handle_cow_fault.                                                       *)
LEMMA CowFaultKeeps ==
  ASSUME IInv, NEW p, NEW v \in Pages, CowFault(p, v)
  PROVE  Keeps
<1>1. p \in live /\ v \in DOMAIN pte[p] /\ UNCHANGED <<brk, live, vparent, borrows, file, cache, uses>>
  BY ZenonT(30) DEF CowFault
<1>2. PICK a \in AreasAt(p, v) :
        /\ CowAllowed(a) /\ (a.shared \/ v \in DOMAIN a.frames)
        /\ \/ /\ ~Privatised(a, pte[p][v].f)
              /\ pte' = [pte EXCEPT ![p][v].w = TRUE]
              /\ UNCHANGED <<areas, mem>>
           \/ /\ Privatised(a, pte[p][v].f)
              /\ \E f \in Free :
                   /\ areas' = [areas EXCEPT ![p] = (@ \ {a}) \cup {[a EXCEPT !.frames[v] = f]}]
                   /\ pte' = [pte EXCEPT ![p][v] = [f |-> f, w |-> TRUE]]
                   /\ Contents([mem EXCEPT ![f] = mem[pte[p][v].f]])
  BY ZenonT(30) DEF CowFault
<1>3. p \in Procs /\ Areas(areas[p]) /\ Table(pte[p]) /\ Tracked(areas[p], pte[p]) /\ HeapOK(areas[p], brk[p], uses)
  BY ZenonT(30), <1>1 DEF IInv, Typed, SpacesOK
<1>4. a \in areas[p] /\ v \in Span(a) /\ AreaOK(a) /\ a.w
  BY ZenonT(30), <1>2, <1>3 DEF AreasAt, Areas, CowAllowed
<1>5. /\ pte[p][v].f \in Frames /\ Tracks(areas[p], v, pte[p][v].f) /\ mem[pte[p][v].f] \in Values
      /\ pte[p][v] \in Entries /\ DOMAIN pte = Procs /\ DOMAIN areas = Procs
  BY ZenonT(30), <1>1, <1>3, MappedFilled DEF Table, IInv, Typed
<1>6. v \in DOMAIN a.frames /\ a.frames[v] = pte[p][v].f
  <2>1. PICK c \in areas[p] : v \in Span(c) /\ v \in DOMAIN c.frames /\ c.frames[v] = pte[p][v].f
    BY ZenonT(30), <1>1, <1>3 DEF Tracked
  <2>2. c = a
    BY ZenonT(30), <1>3, <1>4, <2>1 DEF Areas, Apart
  <2> QED
    BY ZenonT(30), <2>1, <2>2
<1>7. CASE ~Privatised(a, pte[p][v].f) /\ pte' = [pte EXCEPT ![p][v].w = TRUE] /\ UNCHANGED <<areas, mem>>
  <2>1. PICK P : P = [pte[p] EXCEPT ![v].w = TRUE]
    BY ZenonT(30)
  <2>2. pte' = [pte EXCEPT ![p] = P]
    BY ZenonT(30), <1>5, <1>7, <2>1
  <2>3. OneSpace(p, areas[p], P)
    BY ZenonT(30), <1>1, <1>7, <2>2, OneSpaceIs DEF IInv
  <2>4. /\ DOMAIN P = DOMAIN pte[p] /\ P[v] \in Entries /\ P[v].f = pte[p][v].f /\ P[v].w
        /\ \A u \in DOMAIN pte[p] : u # v => P[u] = pte[p][u]
    BY ZenonT(30), <1>1, <1>5, <2>1 DEF Entries
  <2>5. Table(P)
    BY ZenonT(30), <1>3, <2>4 DEF Table
  <2>6. Tracked(areas[p], P)
    <3> SUFFICES ASSUME NEW u \in DOMAIN P
                 PROVE  \E c \in areas[p] : /\ u \in Span(c) /\ u \in DOMAIN c.frames /\ c.frames[u] = P[u].f
                                            /\ P[u].w => c.w
      BY ZenonT(30) DEF Tracked
    <3>1. CASE u = v
      BY ZenonT(30), <1>4, <1>6, <2>4, <3>1
    <3>2. CASE u # v
      BY ZenonT(30), <1>3, <2>4, <3>2 DEF Tracked
    <3> QED
      BY ZenonT(30), <3>1, <3>2
  <2>7. Used' = Used
    BY ZenonT(30), <1>1, <1>7 DEF Used
  <2>8. Filled'
    BY ZenonT(30), <1>7, <2>7 DEF IInv, Filled
  <2>9. Typed' /\ SpacesOK'
    BY ZenonT(30), <1>1, <1>3, <1>7, <2>3, <2>5, <2>6, RestTyped, OneSpaceKeeps DEF IInv
  <2>10. Owned => Owned'
    <3> SUFFICES ASSUME Owned PROVE Owned'
      BY ZenonT(30)
    <3>1. AddsNew(p, areas[p]) /\ CachesShared(p, areas[p])
      BY ZenonT(30), <1>1 DEF AddsNew, CachesShared
    <3>2. ASSUME NEW c \in areas[p], NEW u \in DOMAIN c.frames, ~c.shared, ~Shares(uses) \/ (u \in DOMAIN P /\ P[u].w)
          PROVE  Only(p, u, c.frames[u])
      <4>1. CASE u # v
        BY ZenonT(30), <1>1, <2>4, <3>2, <4>1 DEF Owned
      <4>2. CASE u = v
        <5>1. c = a
          BY ZenonT(30), <1>3, <1>4, <3>2, <4>2 DEF Areas, AreaOK, Apart
        <5>2. SoleOwner(pte[p][v].f)
          BY ZenonT(30), <1>7, <3>2, <5>1 DEF Privatised
        <5> QED
          BY ZenonT(30), <1>1, <1>5, <1>6, <4>2, <5>1, <5>2, SoleIsOnly
      <4> QED
        BY ZenonT(30), <4>1, <4>2
    <3>3. OwnedIn(p, areas[p], P)
      BY ZenonT(30), <3>2 DEF OwnedIn
    <3>4. Typed
      BY ZenonT(30) DEF IInv
    <3> QED
      BY ZenonT(30), <1>1, <1>3, <2>3, <3>1, <3>3, <3>4, OneSpaceOwned
  <2> QED
    BY ZenonT(30), <2>8, <2>9, <2>10 DEF Keeps, IInv
<1>8. ASSUME NEW f \in Free,
             areas' = [areas EXCEPT ![p] = (@ \ {a}) \cup {[a EXCEPT !.frames[v] = f]}],
             pte' = [pte EXCEPT ![p][v] = [f |-> f, w |-> TRUE]],
             Contents([mem EXCEPT ![f] = mem[pte[p][v].f]])
      PROVE  Keeps
  <2>1. PICK x \in Values : x = mem[pte[p][v].f]
    BY ZenonT(30), <1>5
  <2>2. PICK e : e = [f |-> f, w |-> TRUE]
    BY ZenonT(30)
  <2>3. e \in Entries /\ e.f = f
    BY ZenonT(30), <2>2 DEF Entries, Free
  <2>4. PICK P : P = [pte[p] EXCEPT ![v] = e]
    BY ZenonT(30)
  <2>5. PICK S : S = (areas[p] \ {a}) \cup {Given(a, v, f)}
    BY ZenonT(30)
  <2>6. [a EXCEPT !.frames[v] = f] = Given(a, v, f)
    <3>1. DOMAIN a.frames \cup {v} = DOMAIN a.frames
      BY ZenonT(30), <1>6
    <3>2. [a.frames EXCEPT ![v] = f] = With(a.frames, v, f)
      BY ZenonT(30), <3>1 DEF With
    <3>3. a \in AreaRecords
      BY ZenonT(30), <1>4 DEF AreaOK
    <3> QED
      BY ZenonT(30), <3>2, <3>3 DEF Given, AreaRecords
  <2>7. areas' = [areas EXCEPT ![p] = S]
    BY ZenonT(30), <1>3, <1>5, <1>8, <2>5, <2>6
  <2>8. pte' = [pte EXCEPT ![p] = P]
    BY ZenonT(30), <1>8, <2>2, <2>4
  <2>9. OneSpace(p, S, P)
    BY ZenonT(30), <1>1, <2>7, <2>8, OneSpaceIs DEF IInv
  <2>10. /\ DOMAIN P = DOMAIN pte[p] \cup {v} /\ P[v] \in Entries /\ P[v].f = f
         /\ \A u \in DOMAIN pte[p] : u # v => P[u] = pte[p][u]
    BY ZenonT(30), <1>1, <2>3, <2>4
  <2>11. Contents([mem EXCEPT ![f] = x])
    BY ZenonT(30), <1>8, <2>1
  <2> QED
    BY SMTT(20), <1>1, <1>4, <2>5, <2>9, <2>10, <2>11, GivenKeeps
<1> QED
  BY ZenonT(30), <1>2, <1>7, <1>8

(* handle_demand_fault.                                                    *)
LEMMA DemandFaultKeeps ==
  ASSUME IInv, NEW p, NEW v \in Pages, DemandFault(p, v)
  PROVE  Keeps
<1>1. p \in live /\ v \notin DOMAIN pte[p] /\ UNCHANGED <<brk, live, vparent, borrows, file, cache, uses>>
  BY ZenonT(30) DEF DemandFault
<1>2. PICK a \in AreasAt(p, v), g \in Free :
        /\ areas' = [areas EXCEPT ![p] = (@ \ {a}) \cup {[a EXCEPT !.frames = With(@, v, g)]}]
        /\ pte' = [pte EXCEPT ![p] = With(@, v, [f |-> g, w |-> a.w])]
        /\ Contents([mem EXCEPT ![g] = FirstContents(a, v)])
  BY ZenonT(30) DEF DemandFault
<1>3. p \in Procs /\ Areas(areas[p]) /\ DOMAIN areas = Procs /\ DOMAIN pte = Procs
  BY ZenonT(30), <1>1 DEF IInv, Typed
<1>4. a \in areas[p] /\ v \in Span(a) /\ a.w \in BOOLEAN
  BY ZenonT(30), <1>2, <1>3 DEF AreasAt, Areas, AreaOK, AreaRecords
<1>5. FirstContents(a, v) \in Values
  BY ZenonT(30), MemoryAssumption DEF FirstContents, FilePage, IInv, Typed
<1>6. PICK x \in Values : x = FirstContents(a, v)
  BY ZenonT(30), <1>5
<1>7. PICK e : e = [f |-> g, w |-> a.w]
  BY ZenonT(30)
<1>8. e \in Entries /\ e.f = g /\ e.w = a.w
  BY ZenonT(30), <1>4, <1>7 DEF Entries, Free
<1>9. PICK P : P = With(pte[p], v, e)
  BY ZenonT(30)
<1>10. PICK S : S = (areas[p] \ {a}) \cup {Given(a, v, g)}
  BY ZenonT(30)
<1>11. areas' = [areas EXCEPT ![p] = S] /\ pte' = [pte EXCEPT ![p] = P]
  BY ZenonT(30), <1>2, <1>3, <1>7, <1>9, <1>10 DEF Given
<1>12. OneSpace(p, S, P)
  BY ZenonT(30), <1>1, <1>11, OneSpaceIs DEF IInv
<1>13. /\ DOMAIN P = DOMAIN pte[p] \cup {v} /\ P[v] \in Entries /\ P[v].f = g /\ (P[v].w => a.w)
       /\ \A u \in DOMAIN pte[p] : u # v => P[u] = pte[p][u]
  BY ZenonT(30), <1>8, <1>9 DEF With
<1>14. Contents([mem EXCEPT ![g] = x])
  BY ZenonT(30), <1>2, <1>6
<1> QED
  BY SMTT(20), <1>1, <1>4, <1>10, <1>12, <1>13, <1>14, GivenKeeps
=============================================================================
