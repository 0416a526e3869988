---------------------------- MODULE KernelProofs ----------------------------
(***************************************************************************)
(* Proofs about four components, each for every value of its constants:    *)
(* the frame allocator, credentials, the locks of threads, and pipes.      *)
(***************************************************************************)
EXTENDS FrameAllocator, Credentials, SleepLocks, Pipe, SequenceTheorems, TLAPS

(* The time a prover has for a step, where the step does not say.          *)
USE SMTT(30)

(* The frame allocator.  For every memory size and every DMA block size,   *)
(* each frame below the bump pointer has exactly one owner, and no owner   *)
(* can make dealloc panic.  The inductive invariant is FramesTypeOK /\     *)
(* OneOwner itself.                                                        *)

FramesInv == FramesTypeOK /\ OneOwner

(* A function on 1 .. n is a sequence of length n.                         *)
LEMMA IntervalSeq ==
  ASSUME NEW S, NEW n \in Nat, NEW f \in [1 .. n -> S]
  PROVE  f \in Seq(S) /\ Len(f) = n
<1>1. f \in Seq(S)
  BY ZenonT(30), SeqDef
<1>2. Len(f) \in Nat /\ 1 .. Len(f) = 1 .. n
  BY ZenonT(30), <1>1, LenProperties
<1> QED BY <1>1, <1>2

(* The last entry popped by alloc belongs to no other slot of the stack.   *)
LEMMA PopIsolates ==
  ASSUME FramesInv, recycled # <<>>
  PROVE  LET n == Len(recycled)
             r == SubSeq(recycled, 1, n - 1)
         IN  /\ n \in Nat \ {0}
             /\ r \in Seq(AllFrames)
             /\ Len(r) = n - 1
             /\ \A i \in 1 .. n - 1 : r[i] = recycled[i]
             /\ recycled[n] \in RecycledSet
             /\ {r[i] : i \in 1 .. n - 1} = RecycledSet \ {recycled[n]}
<1> DEFINE n == Len(recycled)
           r == SubSeq(recycled, 1, n - 1)
<1>1. recycled \in Seq(AllFrames) /\ n \in Nat \ {0}
  BY DEF FramesInv, FramesTypeOK
<1>2. r \in Seq(AllFrames) /\ Len(r) = n - 1 /\ \A i \in 1 .. n - 1 : r[i] = recycled[i]
  <2>1. 1 \in Int /\ n - 1 \in Int /\ \A i \in 1 .. n - 1 : recycled[i] \in AllFrames
    BY <1>1
  <2>2. /\ r \in Seq(AllFrames) /\ Len(r) = IF 1 <= n - 1 THEN n - 1 - 1 + 1 ELSE 0
        /\ \A i \in 1 .. n - 1 - 1 + 1 : r[i] = recycled[1 + i - 1]
    <3> HIDE DEF n
    <3> QED BY <2>1, SubSeqProperties
  <2> HIDE DEF n, r
  <2> QED BY <1>1, <2>2
<1>3. recycled[n] \in RecycledSet
  BY <1>1 DEF RecycledSet
<1>4. {r[i] : i \in 1 .. n - 1} = RecycledSet \ {recycled[n]}
  <2>1. \A i \in 1 .. n - 1 : recycled[i] # recycled[n]
    BY <1>1 DEF FramesInv, OneOwner
  <2>2. \A i \in 1 .. n : i = n \/ i \in 1 .. n - 1
    BY <1>1
  <2> QED BY <1>1, <1>2, <2>1, <2>2 DEF RecycledSet
<1> QED BY ZenonT(30), <1>1, <1>2, <1>3, <1>4

(* The initial state satisfies the invariant: nothing is owned yet.        *)
LEMMA FramesInitInv == FramesInit => FramesInv
BY RangeAssumption DEF FramesInit, FramesInv, FramesTypeOK, OneOwner, DmaFrames, RecycledSet, AllFrames

(* alloc from the recycled stack moves one frame to a tracker.             *)
LEMMA StepAllocRecycled == FramesInv /\ AllocRecycled => FramesInv'
<1> SUFFICES ASSUME FramesInv, AllocRecycled PROVE FramesInv'
  BY ZenonT(30)
<1> DEFINE n == Len(recycled)
<1>1. recycled # <<>> /\ recycled' = SubSeq(recycled, 1, n - 1)
  BY ZenonT(30) DEF AllocRecycled
<1>2. /\ n \in Nat \ {0} /\ recycled' \in Seq(AllFrames) /\ Len(recycled') = n - 1
      /\ \A i \in 1 .. n - 1 : recycled'[i] = recycled[i]
      /\ recycled[n] \in RecycledSet
      /\ RecycledSet' = RecycledSet \ {recycled[n]}
  BY ZenonT(30), <1>1, PopIsolates DEF RecycledSet
<1>3. trackers' = trackers \cup {recycled[n]} /\ current' = current /\ dma' = dma
  BY ZenonT(30) DEF AllocRecycled
<1>4. DmaFrames' = DmaFrames
  BY ZenonT(30), <1>3 DEF DmaFrames, BlockFrames
<1>5. FramesTypeOK'
  <2>1. recycled[n] \in AllFrames
    BY <1>2 DEF FramesInv, FramesTypeOK
  <2> QED BY ZenonT(30), <1>2, <1>3, <2>1 DEF FramesInv, FramesTypeOK
<1>6. \A i, j \in 1 .. Len(recycled') : recycled'[i] = recycled'[j] => i = j
  BY <1>2 DEF FramesInv, OneOwner
<1>7. OneOwner'
  BY <1>2, <1>3, <1>4, <1>6 DEF FramesInv, OneOwner, BlockFrames
<1> QED BY ZenonT(30), <1>5, <1>7 DEF FramesInv

(* alloc from the untouched range: the frame at the bump pointer is new.   *)
LEMMA StepAllocFresh == FramesInv /\ AllocFresh => FramesInv'
<1> SUFFICES ASSUME FramesInv, AllocFresh PROVE FramesInv'
  OBVIOUS
<1>1. /\ current \in Start .. End - 1 /\ current' = current + 1
      /\ trackers' = trackers \cup {current} /\ recycled' = recycled /\ dma' = dma
  BY RangeAssumption DEF FramesInv, FramesTypeOK, AllocFresh
<1>2. DmaFrames' = DmaFrames /\ RecycledSet' = RecycledSet
  BY ZenonT(30), <1>1 DEF DmaFrames, BlockFrames, RecycledSet
<1>3. FramesTypeOK'
  BY <1>1, RangeAssumption DEF FramesInv, FramesTypeOK, AllFrames
<1>4. Start .. current' - 1 = (Start .. current - 1) \cup {current}
  BY <1>1, RangeAssumption
<1>5. current \notin Start .. current - 1
  BY <1>1, RangeAssumption
<1>6. OneOwner'
  BY <1>1, <1>2, <1>4, <1>5 DEF FramesInv, OneOwner, BlockFrames
<1> QED BY <1>3, <1>6 DEF FramesInv

(* Dropping a tracker moves its frame to the top of the stack.             *)
LEMMA StepDropTracker ==
  ASSUME FramesInv, NEW ppn \in trackers, DropTracker(ppn)
  PROVE  FramesInv'
<1> DEFINE n == Len(recycled)
<1>1. /\ ppn \in AllFrames /\ recycled \in Seq(AllFrames) /\ n \in Nat
      /\ recycled' = Append(recycled, ppn)
      /\ trackers' = trackers \ {ppn} /\ current' = current /\ dma' = dma
  BY DEF FramesInv, FramesTypeOK, DropTracker
<1>2. /\ recycled' \in Seq(AllFrames) /\ Len(recycled') = n + 1 /\ recycled'[n + 1] = ppn
      /\ \A i \in 1 .. n : recycled'[i] = recycled[i]
  BY <1>1
<1>3. \A i \in 1 .. n + 1 : i = n + 1 \/ i \in 1 .. n
  BY <1>1
<1>4. RecycledSet' = RecycledSet \cup {ppn}
  BY <1>1, <1>2, <1>3 DEF RecycledSet
<1>5. DmaFrames' = DmaFrames
  BY ZenonT(30), <1>1 DEF DmaFrames, BlockFrames
<1>6. ppn \notin RecycledSet /\ ppn \notin DmaFrames
  BY ZenonT(30) DEF FramesInv, OneOwner
<1>7. \A i, j \in 1 .. Len(recycled') : recycled'[i] = recycled'[j] => i = j
  BY <1>1, <1>2, <1>3, <1>6 DEF FramesInv, OneOwner, RecycledSet
<1>8. FramesTypeOK'
  BY ZenonT(30), <1>1, <1>2 DEF FramesInv, FramesTypeOK
<1>9. OneOwner'
  BY <1>1, <1>4, <1>5, <1>6, <1>7 DEF FramesInv, OneOwner, BlockFrames
<1> QED BY ZenonT(30), <1>8, <1>9 DEF FramesInv

(* A DMA block takes the frames just above the bump pointer.               *)
LEMMA StepDmaAlloc ==
  ASSUME FramesInv, NEW pages \in 1 .. MaxPages, DmaAlloc(pages)
  PROVE  FramesInv'
<1> DEFINE new == [base |-> current, pages |-> pages]
<1>1. /\ pages \in Nat \ {0} /\ current \in Start .. End /\ current + pages < End
      /\ current' = current + pages /\ dma' = dma \cup {new}
      /\ recycled' = recycled /\ trackers' = trackers
  BY RangeAssumption DEF FramesInv, FramesTypeOK, DmaAlloc, MoreFits
<1>2. BlockFrames(new) = current .. current + pages - 1
  BY ZenonT(30) DEF BlockFrames
<1>3. RecycledSet' = RecycledSet
  BY ZenonT(30), <1>1 DEF RecycledSet
<1>4. DmaFrames' = DmaFrames \cup (current .. current + pages - 1)
  BY ZenonT(30), <1>1, <1>2 DEF DmaFrames, BlockFrames
<1>5. new \in [base : AllFrames, pages : 1 .. MaxPages] /\ current' \in Start .. End
  BY <1>1, RangeAssumption DEF AllFrames
<1>6. FramesTypeOK'
  BY ZenonT(30), <1>1, <1>5 DEF FramesInv, FramesTypeOK
<1>7. Start .. current' - 1 = (Start .. current - 1) \cup (current .. current + pages - 1)
  BY <1>1, RangeAssumption
<1>8. (Start .. current - 1) \cap (current .. current + pages - 1) = {}
  BY <1>1, RangeAssumption
<1>9. \A b \in dma : BlockFrames(b) \subseteq Start .. current - 1
  BY ZenonT(30) DEF FramesInv, OneOwner, DmaFrames
<1>10. \A b, c \in dma' : b # c => BlockFrames(b) \cap BlockFrames(c) = {}
  BY ZenonT(30), <1>1, <1>2, <1>8, <1>9 DEF FramesInv, OneOwner
<1>11. OneOwner'
  BY ZenonT(30), <1>1, <1>3, <1>4, <1>7, <1>8, <1>10 DEF FramesInv, OneOwner, BlockFrames
<1> QED BY ZenonT(30), <1>6, <1>11 DEF FramesInv

(* A returned DMA block goes to the stack page by page.                    *)
LEMMA StepDmaDealloc ==
  ASSUME FramesInv, NEW b \in dma, DmaDealloc(b)
  PROVE  FramesInv'
<1> DEFINE n == Len(recycled)
           add == [i \in 1 .. b.pages |-> b.base + i - 1]
<1>1. /\ b.base \in AllFrames /\ b.pages \in Nat \ {0} /\ b.base \in Nat
      /\ recycled \in Seq(AllFrames) /\ n \in Nat
      /\ recycled' = recycled \o add
      /\ dma' = dma \ {b} /\ current' = current /\ trackers' = trackers
  BY RangeAssumption DEF FramesInv, FramesTypeOK, DmaDealloc, AllFrames
<1>2. BlockFrames(b) \subseteq AllFrames /\ BlockFrames(b) \subseteq DmaFrames
  <2>1. BlockFrames(b) \subseteq DmaFrames
    BY ZenonT(30) DEF DmaFrames
  <2>2. DmaFrames \subseteq Start .. current - 1
    BY ZenonT(30) DEF FramesInv, OneOwner
  <2>3. Start .. current - 1 \subseteq AllFrames
    BY RangeAssumption DEF FramesInv, FramesTypeOK, AllFrames
  <2> QED BY ZenonT(30), <2>1, <2>2, <2>3
<1>3. \A i \in 1 .. b.pages : b.base + i - 1 \in BlockFrames(b)
  BY <1>1 DEF BlockFrames
<1>4. add \in Seq(AllFrames) /\ Len(add) = b.pages
  <2>1. \A i \in 1 .. b.pages : b.base + i - 1 \in AllFrames
    BY ZenonT(30), <1>2, <1>3
  <2>2. add \in [1 .. b.pages -> AllFrames]
    BY ZenonT(30), <2>1
  <2>3. b.pages \in Nat
    BY ZenonT(30), <1>1
  <2> HIDE DEF add
  <2> QED BY ZenonT(30), <2>2, <2>3, IntervalSeq
<1>5. /\ recycled' \in Seq(AllFrames) /\ Len(recycled') = n + b.pages
      /\ \A i \in 1 .. n : recycled'[i] = recycled[i]
      /\ \A i \in n + 1 .. n + b.pages : recycled'[i] = b.base + (i - n) - 1
  BY <1>1, <1>4
<1>6. BlockFrames(b) \cap RecycledSet = {}
  BY ZenonT(30), <1>2 DEF FramesInv, OneOwner
<1>7. RecycledSet' = RecycledSet \cup BlockFrames(b)
  <2>1. ASSUME NEW f \in BlockFrames(b)
        PROVE  f \in RecycledSet'
    <3> DEFINE m == n + (f - b.base) + 1
    <3>1. f \in Int /\ m \in n + 1 .. n + b.pages /\ f = b.base + (m - n) - 1
      BY <1>1, <2>1 DEF BlockFrames
    <3> HIDE DEF m
    <3>2. recycled'[m] = f
      BY ZenonT(30), <1>5, <3>1
    <3>3. m \in 1 .. Len(recycled')
      BY <1>1, <1>5, <3>1
    <3> QED BY ZenonT(30), <3>2, <3>3 DEF RecycledSet
  <2>2. RecycledSet \subseteq RecycledSet'
    BY <1>1, <1>5 DEF RecycledSet
  <2>3. ASSUME NEW i \in 1 .. Len(recycled')
        PROVE  recycled'[i] \in RecycledSet \cup BlockFrames(b)
    <3>1. CASE i \in 1 .. n
      BY ZenonT(30), <1>5, <3>1 DEF RecycledSet
    <3>2. CASE i \in n + 1 .. n + b.pages
      <4>1. i - n \in 1 .. b.pages
        BY <1>1, <3>2
      <4> QED BY ZenonT(30), <1>3, <1>5, <3>2, <4>1
    <3> QED BY <1>1, <1>5, <3>1, <3>2
  <2> QED BY ZenonT(30), <2>1, <2>2, <2>3 DEF RecycledSet
<1>8. \A i, j \in 1 .. Len(recycled') : recycled'[i] = recycled'[j] => i = j
  <2> SUFFICES ASSUME NEW i \in 1 .. n + b.pages, NEW j \in 1 .. n + b.pages,
                      recycled'[i] = recycled'[j]
               PROVE  i = j
    BY ZenonT(30), <1>5
  <2>1. ASSUME NEW m \in 1 .. n PROVE recycled'[m] \in RecycledSet
    BY ZenonT(30), <1>5 DEF RecycledSet
  <2>2. ASSUME NEW m \in n + 1 .. n + b.pages PROVE recycled'[m] \in BlockFrames(b)
    <3>1. m - n \in 1 .. b.pages
      BY <1>1
    <3> QED BY ZenonT(30), <1>3, <1>5, <3>1
  <2>3. CASE i \in 1 .. n /\ j \in 1 .. n
    BY ZenonT(30), <1>5, <2>3 DEF FramesInv, OneOwner
  <2>4. CASE i \in n + 1 .. n + b.pages /\ j \in n + 1 .. n + b.pages
    BY <1>1, <1>5, <2>4
  <2>5. CASE i \in 1 .. n /\ j \in n + 1 .. n + b.pages
    BY ZenonT(30), <1>6, <2>1, <2>2, <2>5
  <2>6. CASE i \in n + 1 .. n + b.pages /\ j \in 1 .. n
    BY ZenonT(30), <1>6, <2>1, <2>2, <2>6
  <2> QED BY <1>1, <2>3, <2>4, <2>5, <2>6
<1>9. DmaFrames' = DmaFrames \ BlockFrames(b)
  BY <1>1 DEF FramesInv, OneOwner, DmaFrames
<1>10. FramesTypeOK'
  BY ZenonT(30), <1>1, <1>5 DEF FramesInv, FramesTypeOK
<1>11. OneOwner'
  BY ZenonT(30), <1>1, <1>2, <1>6, <1>7, <1>8, <1>9 DEF FramesInv, OneOwner
<1> QED BY <1>10, <1>11 DEF FramesInv

(* Each frame below the bump pointer always has exactly one owner, for     *)
(* every memory range: alloc (frame_allocator.rs:68) never hands out a     *)
(* frame in use and dealloc (:88) loses none.                              *)
THEOREM FramesHaveOneOwner == FramesSpec => [](FramesTypeOK /\ OneOwner)
<1>1. FramesInv /\ [FramesNext]_frameVars => FramesInv'
  <2> SUFFICES ASSUME FramesInv, [FramesNext]_frameVars PROVE FramesInv'
    BY ZenonT(30)
  <2>1. CASE AllocRecycled
    BY ZenonT(30), <2>1, StepAllocRecycled
  <2>2. CASE AllocFresh
    BY ZenonT(30), <2>2, StepAllocFresh
  <2>3. ASSUME NEW ppn \in trackers, DropTracker(ppn) PROVE FramesInv'
    BY ZenonT(30), <2>3, StepDropTracker
  <2>4. ASSUME NEW pages \in 1 .. MaxPages, DmaAlloc(pages) PROVE FramesInv'
    BY ZenonT(30), <2>4, StepDmaAlloc
  <2>5. ASSUME NEW b \in dma, DmaDealloc(b) PROVE FramesInv'
    BY <2>5, StepDmaDealloc
  <2>6. CASE UNCHANGED frameVars
    BY <2>6 DEF frameVars, FramesInv, FramesTypeOK, OneOwner, DmaFrames, BlockFrames, RecycledSet
  <2> QED BY ZenonT(30), <2>1, <2>2, <2>3, <2>4, <2>5, <2>6 DEF FramesNext
<1> QED BY FramesInitInv, <1>1, PTL DEF FramesSpec, FramesInv

(* The panic at frame_allocator.rs:91 is never reached by an owner that    *)
(* returns a frame it holds.                                               *)
THEOREM DropsNeverPanic == FramesSpec => []DropNeverPanics
<1>1. FramesTypeOK /\ OneOwner => DropNeverPanics
  BY RangeAssumption DEF FramesTypeOK, OneOwner, DropNeverPanics, DeallocAccepts, AllFrames
<1> QED BY FramesHaveOneOwner, <1>1, PTL

(* Frames are accounted for exactly, for every memory range and whatever   *)
(* the owners do: what the model checker sees on five frames.              *)
THEOREM FramesStayExact == FramesSpec => []FramesExact
<1>1. FramesTypeOK /\ OneOwner /\ DropNeverPanics => FramesExact
  BY ZenonT(30) DEF FramesExact
<1> QED BY FramesHaveOneOwner, DropsNeverPanic, <1>1, PTL

-----------------------------------------------------------------------------
(* Credentials.  Ids that a process has given up stay given up, for every  *)
(* set of ids and of processes.                                            *)

Gives(p, k, c) == cred' = [cred EXCEPT ![p][k] = c]

(* What the checks of a call leave: typed ids, and for a process without     *)
(* root among its ids of that kind no id that it did not hold.               *)
Allowed(p, k) == {c \in IdsOfKind :
  0 \notin Held(p, k) => {c.real, c.effective, c.saved} \subseteq Held(p, k)}

(* sys_setuid and sys_setgid give allowed ids.                               *)
LEMMA SetIdAllowed ==
  ASSUME cred \in CredType, NEW p \in Procs, NEW k \in Kinds, NEW i \in Ids, SetId(p, k, i)
  PROVE  \E c \in Allowed(p, k) : Gives(p, k, c)
<1> DEFINE o == cred[p][k]
           c == [o EXCEPT !.real = IF Privileged(p, k) THEN i ELSE o.real, !.effective = i, !.fs = i]
<1>1. o \in IdsOfKind
  BY ZenonT(30) DEF CredType
<1>2. c \in Allowed(p, k)
  BY ZenonT(30), <1>1 DEF SetId, IdsOfKind, Allowed, Held, Privileged
<1>3. Gives(p, k, c)
  BY ZenonT(30) DEF SetId, Gives
<1> QED
  BY ZenonT(30), <1>2, <1>3

(* sys_setreuid and sys_setregid do.                                         *)
LEMMA SetReIdAllowed ==
  ASSUME cred \in CredType, NEW p \in Procs, NEW k \in Kinds,
         NEW r \in Ids \cup {Keep}, NEW e \in Ids \cup {Keep}, SetReId(p, k, r, e)
  PROVE  \E c \in Allowed(p, k) : Gives(p, k, c)
<1> DEFINE o == cred[p][k]
           effective == Chosen(e, o.effective)
           c == [real |-> Chosen(r, o.real), effective |-> effective,
                 fs |-> IF e = Keep THEN o.fs ELSE e,
                 saved |-> IF r # Keep \/ effective # o.real THEN effective ELSE o.saved]
<1>1. o \in IdsOfKind
  BY ZenonT(30) DEF CredType
<1>2. c \in Allowed(p, k)
  BY ZenonT(30), <1>1 DEF SetReId, IdsOfKind, Allowed, Held, Privileged, Chosen
<1>3. Gives(p, k, c)
  BY ZenonT(30) DEF SetReId, Gives
<1> QED
  BY ZenonT(30), <1>2, <1>3

(* sys_setresuid and sys_setresgid do.                                       *)
LEMMA SetResIdAllowed ==
  ASSUME cred \in CredType, NEW p \in Procs, NEW k \in Kinds,
         NEW i \in Ids \cup {Keep}, NEW j \in Ids \cup {Keep}, NEW l \in Ids \cup {Keep},
         SetResId(p, k, <<i, j, l>>)
  PROVE  \E c \in Allowed(p, k) : Gives(p, k, c)
<1>1. Privileged(p, k) \/ {i, j, l} \subseteq {Keep} \cup Held(p, k)
  BY DEF SetResId, MaySetRes
<1> DEFINE o == cred[p][k]
           c == [real |-> Chosen(i, o.real), effective |-> Chosen(j, o.effective),
                 saved |-> Chosen(l, o.saved), fs |-> Chosen(j, o.fs)]
<1>2. o \in IdsOfKind
  BY ZenonT(30) DEF CredType
<1>3. c \in Allowed(p, k)
  BY <1>1, <1>2 DEF IdsOfKind, Allowed, Held, Privileged, Chosen
<1>4. Gives(p, k, c)
  BY ZenonT(30) DEF SetResId, Gives
<1> QED
  BY ZenonT(30), <1>3, <1>4

(* sys_setfsuid and sys_setfsgid do.                                         *)
LEMMA SetFsIdAllowed ==
  ASSUME cred \in CredType, NEW p \in Procs, NEW k \in Kinds, NEW i \in Ids, SetFsId(p, k, i)
  PROVE  \E c \in Allowed(p, k) : Gives(p, k, c)
<1> DEFINE c == [cred[p][k] EXCEPT !.fs = i]
<1>1. c \in Allowed(p, k)
  BY DEF CredType, IdsOfKind, Allowed, Held
<1>2. Gives(p, k, c)
  BY ZenonT(30) DEF SetFsId, Gives, CredType
<1> QED
  BY ZenonT(30), <1>1, <1>2

(* A step keeps the type and never adds to the ids of a process without root.*)
LEMMA StepDropsForGood ==
  ASSUME cred \in CredType, NEW p \in Procs, CredStep(p)
  PROVE  /\ cred' \in CredType
         /\ \A q \in Procs, k \in Kinds : 0 \notin Held(q, k) => Held(q, k)' \subseteq Held(q, k)
<1>1. PICK k \in Kinds : \E c \in Allowed(p, k) : Gives(p, k, c)
  BY ZenonT(30), SetIdAllowed, SetReIdAllowed, SetResIdAllowed, SetFsIdAllowed DEF CredStep
<1>2. PICK c \in Allowed(p, k) : Gives(p, k, c)
  BY ZenonT(30), <1>1
<1>3. cred' \in CredType
  BY ZenonT(30), <1>2 DEF Gives, Allowed, CredType
<1>4. cred'[p][k] = c /\ \A q \in Procs, l \in Kinds : q # p \/ l # k => cred'[q][l] = cred[q][l]
  BY ZenonT(30), <1>2 DEF Gives, CredType
<1>5. ASSUME NEW q \in Procs, NEW l \in Kinds, 0 \notin Held(q, l)
      PROVE  Held(q, l)' \subseteq Held(q, l)
  BY ZenonT(30), <1>4, <1>5, c \in Allowed(p, k) DEF Held, Allowed
<1> QED
  BY ZenonT(30), <1>3, <1>5

(* DroppedForGood for every sequence of the calls: the process that gave     *)
(* root up in its real, effective and saved id never gets another id back.   *)
THEOREM IdsDroppedForGood == CredSpec => DroppedForGood
<1>1. CredInit => cred \in CredType
  BY ZenonT(30) DEF CredInit
<1>2. cred \in CredType /\ [\E p \in Procs : CredStep(p)]_cred => (cred \in CredType)'
  BY ZenonT(30), StepDropsForGood
<1>3. cred \in CredType /\ [\E p \in Procs : CredStep(p)]_cred
        => [\A p \in Procs, k \in Kinds : 0 \notin Held(p, k) => Held(p, k)' \subseteq Held(p, k)]_cred
  BY ZenonT(30), StepDropsForGood
<1> QED
  BY <1>1, <1>2, <1>3, PTL DEF CredSpec, DroppedForGood

-----------------------------------------------------------------------------
(* The locks of threads.  For every set of threads and every initial       *)
(* count, the mutex has one holder at a time, the semaphore lets through   *)
(* as many downs as it has permits, and no waiter is lost or doubled in a  *)
(* queue.  The inductive invariant is LocksTypeOK /\ LocksExact: that the  *)
(* mutex has one holder needs to know who it was handed to, which needs    *)
(* the queues to be exact.                                                 *)

LocksInv == LocksTypeOK /\ LocksExact

(* What push_back does to a queue that does not have the thread.           *)
LEMMA PushBack ==
  ASSUME NEW T, NEW q \in Seq(T), NEW t \in T, Once(q), ~InQueue(t, q)
  PROVE  /\ Append(q, t) \in Seq(T) /\ Len(Append(q, t)) = Len(q) + 1
         /\ Once(Append(q, t))
         /\ \A u \in T : InQueue(u, Append(q, t)) <=> (u = t \/ InQueue(u, q))
<1> DEFINE n == Len(q)
           p == Append(q, t)
<1>1. /\ n \in Nat /\ p \in Seq(T) /\ Len(p) = n + 1 /\ p[n + 1] = t
      /\ \A i \in 1 .. n : p[i] = q[i]
  OBVIOUS
<1>2. \A i \in 1 .. n + 1 : i \in 1 .. n \/ i = n + 1
  BY <1>1
<1> HIDE DEF p
<1>3. Once(p)
  BY ZenonT(30), <1>1, <1>2 DEF Once, InQueue
<1>4. ASSUME NEW u \in T PROVE InQueue(u, p) <=> (u = t \/ InQueue(u, q))
  <2>1. ASSUME InQueue(u, p) PROVE u = t \/ InQueue(u, q)
    BY ZenonT(30), <1>1, <1>2, <2>1 DEF InQueue
  <2>2. ASSUME u = t PROVE InQueue(u, p)
    BY <1>1, <2>2 DEF InQueue
  <2>3. ASSUME InQueue(u, q) PROVE InQueue(u, p)
    <3>1. PICK i \in 1 .. n : q[i] = u
      BY ZenonT(30), <2>3 DEF InQueue
    <3>2. i \in 1 .. n + 1 /\ p[i] = u
      BY <1>1, <3>1
    <3> QED BY ZenonT(30), <1>1, <3>2 DEF InQueue
  <2> QED BY ZenonT(30), <2>1, <2>2, <2>3
<1> QED BY ZenonT(30), <1>1, <1>3, <1>4 DEF p

(* What pop_front does to a queue.                                         *)
LEMMA PopFront ==
  ASSUME NEW T, NEW q \in Seq(T), q # <<>>, Once(q)
  PROVE  /\ Tail(q) \in Seq(T) /\ Len(Tail(q)) = Len(q) - 1 /\ Head(q) \in T
         /\ InQueue(Head(q), q)
         /\ Once(Tail(q))
         /\ \A u \in T : InQueue(u, Tail(q)) <=> (u # Head(q) /\ InQueue(u, q))
<1> DEFINE n == Len(q)
           p == Tail(q)
           h == Head(q)
<1>1. /\ n \in Nat \ {0} /\ p \in Seq(T) /\ Len(p) = n - 1 /\ h \in T /\ h = q[1]
      /\ \A i \in 1 .. n - 1 : p[i] = q[i + 1]
  OBVIOUS
<1> HIDE DEF p, h
<1>2. InQueue(h, q)
  BY <1>1 DEF InQueue
<1>3. Once(p)
  <2> SUFFICES ASSUME NEW i \in 1 .. n - 1, NEW j \in 1 .. n - 1, p[i] = p[j] PROVE i = j
    BY ZenonT(30), <1>1 DEF Once
  <2>1. i + 1 \in 1 .. n /\ j + 1 \in 1 .. n /\ q[i + 1] = q[j + 1]
    BY <1>1
  <2>2. i + 1 = j + 1
    BY ZenonT(30), <2>1 DEF Once
  <2> QED BY <2>2
<1>4. ASSUME NEW u \in T PROVE InQueue(u, p) <=> (u # h /\ InQueue(u, q))
  <2>1. ASSUME InQueue(u, p) PROVE u # h /\ InQueue(u, q)
    <3>1. PICK i \in 1 .. n - 1 : p[i] = u
      BY ZenonT(30), <1>1, <2>1 DEF InQueue
    <3>2. i + 1 \in 1 .. n /\ 1 \in 1 .. n /\ i + 1 # 1 /\ q[i + 1] = u
      BY <1>1, <3>1
    <3>3. q[1] # q[i + 1]
      BY ZenonT(30), <3>2 DEF Once
    <3> QED BY ZenonT(30), <1>1, <3>2, <3>3 DEF InQueue
  <2>2. ASSUME u # h, InQueue(u, q) PROVE InQueue(u, p)
    <3>1. PICK i \in 1 .. n : q[i] = u
      BY ZenonT(30), <2>2 DEF InQueue
    <3>2. i # 1
      BY ZenonT(30), <1>1, <2>2, <3>1
    <3>3. i - 1 \in 1 .. n - 1 /\ p[i - 1] = q[(i - 1) + 1] /\ (i - 1) + 1 = i
      BY <1>1, <3>1, <3>2
    <3> QED BY ZenonT(30), <1>1, <3>1, <3>3 DEF InQueue
  <2> QED BY ZenonT(30), <2>1, <2>2
<1> QED BY ZenonT(30), <1>1, <1>2, <1>3, <1>4 DEF p, h

(* The empty queue has nobody.                                             *)
LEMMA NobodyQueued ==
  ASSUME NEW T
  PROVE  /\ <<>> \in Seq(T) /\ Len(<<>>) = 0 /\ Once(<<>>)
         /\ \A u \in T : ~InQueue(u, <<>>)
BY DEF Once, InQueue

-----------------------------------------------------------------------------
(* Mutex::lock keeps the invariant, wherever it is called from.            *)
LEMMA LockKeeps ==
  ASSUME LocksInv, NEW t \in Contenders, t \notin blocked, t \notin holds,
         at[t] \in {"user", "spin", "cond"}, Lock(t), UNCHANGED <<fixed, semaphore, condQueue>>
  PROVE  LocksInv'
<1> USE DEF LocksInv, LocksTypeOK, LocksExact, OneHolder, PermitsCounted, Queues, Handed, fixed, mutex, semaphore
<1>1. /\ ~InQueue(t, mutexQueue) /\ ~InQueue(t, semQueue) /\ ~InQueue(t, condQueue)
      /\ t \notin Handed
  BY ZenonT(30)
<1>2. CASE /\ ~locked /\ locked' = TRUE /\ holds' = holds \cup {t}
           /\ at' = [at EXCEPT ![t] = "user"] /\ UNCHANGED <<mutexQueue, blocked>>
  <2>1. LocksTypeOK'
    BY <1>2
  <2>2. Handed' = Handed /\ holds \cup Handed = {}
    BY ZenonT(30), <1>1, <1>2
  <2>3. Queues(mutexQueue, "mutex")' /\ Queues(semQueue, "sem")' /\ Queues(condQueue, "cond")'
    BY ZenonT(30), <1>1, <1>2
  <2> QED BY ZenonT(30), <1>2, <2>1, <2>2, <2>3
<1>3. CASE /\ locked /\ spins /\ at' = [at EXCEPT ![t] = "spin"] /\ UNCHANGED <<mutex, blocked>>
  <2>1. LocksTypeOK'
    BY <1>3
  <2>2. Handed' = Handed
    BY ZenonT(30), <1>1, <1>3
  <2>3. Queues(mutexQueue, "mutex")' /\ Queues(semQueue, "sem")' /\ Queues(condQueue, "cond")'
    BY ZenonT(30), <1>1, <1>3
  <2> QED BY <1>3, <2>1, <2>2, <2>3
<1>4. CASE /\ locked /\ ~spins /\ mutexQueue' = Append(mutexQueue, t)
           /\ at' = [at EXCEPT ![t] = "mutex"] /\ blocked' = blocked \cup {t}
           /\ UNCHANGED <<locked, holds>>
  <2>1. /\ mutexQueue' \in Seq(Contenders) /\ Once(mutexQueue')
        /\ \A u \in Contenders : InQueue(u, mutexQueue') <=> (u = t \/ InQueue(u, mutexQueue))
    BY ZenonT(30), <1>1, <1>4, PushBack
  <2>2. LocksTypeOK'
    BY <1>4, <2>1
  <2>3. Handed' = Handed
    BY ZenonT(30), <1>1, <1>4
  <2>4. Queues(mutexQueue, "mutex")' /\ Queues(semQueue, "sem")' /\ Queues(condQueue, "cond")'
    BY <1>1, <1>4, <2>1
  <2>5. OneHolder'
    BY <1>4, <2>3
  <2>6. PermitsCounted'
    BY ZenonT(30)
  <2> HIDE DEF LocksTypeOK, OneHolder, PermitsCounted, Queues, Handed
  <2> QED BY ZenonT(30), <2>2, <2>4, <2>5, <2>6
<1> QED BY ZenonT(30), <1>2, <1>3, <1>4 DEF Lock

(* What Mutex::unlock makes of the mutex: it is free, or the head of the   *)
(* queue has it.                                                           *)
LEMMA UnlockHands ==
  ASSUME LocksInv, NEW t \in holds, at[t] = "user", Unlock(t)
  PROVE  /\ holds' = {} /\ t \in Contenders /\ t \notin blocked /\ Handed = {}
         /\ \/ /\ locked' = FALSE /\ mutexQueue' = mutexQueue /\ mutexQueue = <<>> /\ Unlocks.woken = {}
            \/ /\ locked' = TRUE /\ ~spins /\ mutexQueue' \in Seq(Contenders) /\ Once(mutexQueue')
               /\ \E h \in Contenders :
                     /\ Unlocks.woken = {h} /\ at[h] = "mutex" /\ h \in blocked
                     /\ \A u \in Contenders : InQueue(u, mutexQueue') <=> (u # h /\ InQueue(u, mutexQueue))
<1> USE DEF LocksInv, LocksTypeOK, LocksExact, OneHolder, PermitsCounted, Queues
<1>1. t \in Contenders /\ t \notin blocked /\ holds' = {} /\ Handed = {}
  BY DEF Unlock, Handed
<1>2. CASE spins \/ mutexQueue = <<>>
  BY ZenonT(30), <1>1, <1>2 DEF Unlock, Unlocks
<1>3. CASE ~(spins \/ mutexQueue = <<>>)
  <2>1. Unlocks = [locked |-> TRUE, queue |-> Tail(mutexQueue), woken |-> {Head(mutexQueue)}]
    BY ZenonT(30), <1>3 DEF Unlocks
  <2>2. /\ Tail(mutexQueue) \in Seq(Contenders) /\ Head(mutexQueue) \in Contenders
        /\ InQueue(Head(mutexQueue), mutexQueue) /\ Once(Tail(mutexQueue))
        /\ \A u \in Contenders : InQueue(u, Tail(mutexQueue)) <=> (u # Head(mutexQueue) /\ InQueue(u, mutexQueue))
    BY ZenonT(30), <1>3, PopFront
  <2> QED BY ZenonT(30), <1>1, <1>3, <2>1, <2>2 DEF Unlock
<1> QED BY ZenonT(30), <1>2, <1>3

(* sys_mutex_unlock keeps the invariant.                                   *)
LEMMA UnlockKeeps ==
  ASSUME LocksInv, NEW t \in Contenders, SysMutexUnlock(t)
  PROVE  LocksInv'
<1> USE DEF LocksInv, LocksTypeOK, LocksExact, OneHolder, PermitsCounted, Queues, Handed, fixed, semaphore
<1>1. /\ t \in holds /\ at[t] = "user" /\ Unlock(t) /\ blocked' = blocked \ Unlocks.woken
      /\ UNCHANGED <<fixed, semaphore, condQueue, at>>
  BY ZenonT(30) DEF SysMutexUnlock
<1>2. /\ holds' = {} /\ t \in Contenders /\ t \notin blocked /\ Handed = {}
      /\ \/ /\ locked' = FALSE /\ mutexQueue' = mutexQueue /\ mutexQueue = <<>> /\ Unlocks.woken = {}
         \/ /\ locked' = TRUE /\ ~spins /\ mutexQueue' \in Seq(Contenders) /\ Once(mutexQueue')
            /\ \E h \in Contenders :
                  /\ Unlocks.woken = {h} /\ at[h] = "mutex" /\ h \in blocked
                  /\ \A u \in Contenders : InQueue(u, mutexQueue') <=> (u # h /\ InQueue(u, mutexQueue))
  BY ZenonT(30), <1>1, UnlockHands
<1>3. CASE locked' = FALSE /\ mutexQueue' = mutexQueue /\ mutexQueue = <<>> /\ Unlocks.woken = {}
  BY ZenonT(30), <1>1, <1>2, <1>3
<1>4. CASE /\ locked' = TRUE /\ ~spins /\ mutexQueue' \in Seq(Contenders) /\ Once(mutexQueue')
           /\ \E h \in Contenders :
                 /\ Unlocks.woken = {h} /\ at[h] = "mutex" /\ h \in blocked
                 /\ \A u \in Contenders : InQueue(u, mutexQueue') <=> (u # h /\ InQueue(u, mutexQueue))
  <2>1. PICK h \in Contenders :
              /\ Unlocks.woken = {h} /\ at[h] = "mutex" /\ h \in blocked
              /\ \A u \in Contenders : InQueue(u, mutexQueue') <=> (u # h /\ InQueue(u, mutexQueue))
    BY ZenonT(30), <1>4
  <2>2. LocksTypeOK'
    BY ZenonT(30), <1>1, <1>2, <1>4, <2>1
  <2>3. Handed' = {h}
    BY <1>1, <1>2, <2>1
  <2>4. Queues(mutexQueue, "mutex")' /\ Queues(semQueue, "sem")' /\ Queues(condQueue, "cond")'
    BY ZenonT(30), <1>1, <1>4, <2>1
  <2> QED BY ZenonT(30), <1>1, <1>2, <1>4, <2>2, <2>3, <2>4
<1> QED BY ZenonT(30), <1>2, <1>3, <1>4

(* sys_condvar_wait keeps the invariant.                                   *)
LEMMA WaitKeeps ==
  ASSUME LocksInv, NEW t \in Contenders, SysCondvarWait(t)
  PROVE  LocksInv'
<1> USE DEF LocksInv, LocksTypeOK, LocksExact, OneHolder, PermitsCounted, Queues, Handed, fixed, semaphore
<1>1. /\ t \in holds /\ at[t] = "user" /\ Unlock(t) /\ condQueue' = Append(condQueue, t)
      /\ at' = [at EXCEPT ![t] = "cond"] /\ blocked' = (blocked \ Unlocks.woken) \cup {t}
      /\ UNCHANGED <<fixed, semaphore>>
  BY ZenonT(30) DEF SysCondvarWait
<1>2. /\ holds' = {} /\ t \in Contenders /\ t \notin blocked /\ Handed = {}
      /\ \/ /\ locked' = FALSE /\ mutexQueue' = mutexQueue /\ mutexQueue = <<>> /\ Unlocks.woken = {}
         \/ /\ locked' = TRUE /\ ~spins /\ mutexQueue' \in Seq(Contenders) /\ Once(mutexQueue')
            /\ \E h \in Contenders :
                  /\ Unlocks.woken = {h} /\ at[h] = "mutex" /\ h \in blocked
                  /\ \A u \in Contenders : InQueue(u, mutexQueue') <=> (u # h /\ InQueue(u, mutexQueue))
  BY ZenonT(30), <1>1, UnlockHands
<1>3. /\ condQueue' \in Seq(Contenders) /\ Once(condQueue')
      /\ \A u \in Contenders : InQueue(u, condQueue') <=> (u = t \/ InQueue(u, condQueue))
  BY ZenonT(30), <1>1, <1>2, PushBack
<1>4. CASE locked' = FALSE /\ mutexQueue' = mutexQueue /\ mutexQueue = <<>> /\ Unlocks.woken = {}
  <2>0. blocked' = blocked \cup {t}
    BY ZenonT(30), <1>1, <1>4
  <2>1. LocksTypeOK'
    <3>1. at' \in [Contenders -> {"user", "spin", "mutex", "sem", "cond"}]
      BY ZenonT(30), <1>1
    <3>2. blocked' \subseteq {u \in Contenders : at'[u] \in {"mutex", "sem", "cond"}}
      BY <1>1, <2>0
    <3>3. locked' \in BOOLEAN /\ mutexQueue' \in Seq(Contenders) /\ holds' = {}
      BY ZenonT(30), <1>2, <1>4
    <3> QED BY ZenonT(30), <1>1, <1>3, <3>1, <3>2, <3>3
  <2>2. Handed' = {}
    BY ZenonT(30), <1>1, <1>2, <1>4
  <2>3. Queues(mutexQueue, "mutex")' /\ Queues(semQueue, "sem")' /\ Queues(condQueue, "cond")'
    BY <1>1, <1>2, <1>3, <1>4
  <2> QED BY ZenonT(30), <1>1, <1>2, <1>4, <2>1, <2>2, <2>3
<1>5. CASE /\ locked' = TRUE /\ ~spins /\ mutexQueue' \in Seq(Contenders) /\ Once(mutexQueue')
           /\ \E h \in Contenders :
                 /\ Unlocks.woken = {h} /\ at[h] = "mutex" /\ h \in blocked
                 /\ \A u \in Contenders : InQueue(u, mutexQueue') <=> (u # h /\ InQueue(u, mutexQueue))
  <2>1. PICK h \in Contenders :
              /\ Unlocks.woken = {h} /\ at[h] = "mutex" /\ h \in blocked
              /\ \A u \in Contenders : InQueue(u, mutexQueue') <=> (u # h /\ InQueue(u, mutexQueue))
    BY <1>5
  <2>2. LocksTypeOK'
    BY <1>1, <1>2, <1>3, <1>5, <2>1
  <2>3. Handed' = {h}
    BY <1>1, <1>2, <2>1
  <2>4. Queues(mutexQueue, "mutex")'
    BY <1>1, <1>5, <2>1
  <2>5. Queues(semQueue, "sem")' /\ Queues(condQueue, "cond")'
    BY <1>1, <1>2, <1>3, <2>1
  <2> QED BY ZenonT(30), <1>1, <1>2, <1>5, <2>2, <2>3, <2>4, <2>5
<1> HIDE DEF LocksInv, LocksTypeOK, LocksExact, OneHolder, PermitsCounted, Queues, Handed, fixed, mutex
<1> QED BY ZenonT(30), <1>2, <1>4, <1>5

(* sys_semaphore_down keeps the invariant.                                 *)
LEMMA DownKeeps ==
  ASSUME LocksInv, NEW t \in Contenders, SysSemaphoreDown(t)
  PROVE  LocksInv'
<1> USE DEF LocksInv, LocksTypeOK, LocksExact, OneHolder, PermitsCounted, Queues, Handed, fixed, mutex
<1>0. /\ count \in Int /\ inside \in Int /\ permits \in Nat /\ Len(semQueue) \in Nat
      /\ PermitsCounted
  OBVIOUS
<1>1. /\ at[t] = "user" /\ count' = count - 1 /\ UNCHANGED <<fixed, mutex, condQueue>>
      /\ ~InQueue(t, mutexQueue) /\ ~InQueue(t, semQueue) /\ ~InQueue(t, condQueue)
  BY ZenonT(30) DEF SysSemaphoreDown
<1>2. CASE count - 1 < 0
  <2>1. /\ semQueue' = Append(semQueue, t) /\ at' = [at EXCEPT ![t] = "sem"]
        /\ blocked' = blocked \cup {t} /\ inside' = inside
    BY ZenonT(30), <1>2 DEF SysSemaphoreDown
  <2>2. /\ semQueue' \in Seq(Contenders) /\ Once(semQueue') /\ Len(semQueue') = Len(semQueue) + 1
        /\ \A u \in Contenders : InQueue(u, semQueue') <=> (u = t \/ InQueue(u, semQueue))
    BY ZenonT(30), <1>1, <2>1, PushBack
  <2>3. LocksTypeOK'
    BY <1>1, <2>1, <2>2
  <2>4. Handed' = Handed
    BY ZenonT(30), <1>1, <2>1
  <2>5. PermitsCounted'
    <3> HIDE DEF LocksInv, LocksTypeOK, LocksExact, Queues, Handed
    <3> QED BY <1>0, <1>1, <1>2, <2>1, <2>2
  <2>6. Queues(mutexQueue, "mutex")' /\ Queues(semQueue, "sem")' /\ Queues(condQueue, "cond")'
    BY <1>1, <2>1, <2>2
  <2>7. OneHolder'
    BY <1>1, <2>4
  <2> HIDE DEF LocksTypeOK, OneHolder, PermitsCounted, Queues, Handed
  <2> QED BY ZenonT(30), <2>3, <2>5, <2>6, <2>7
<1>3. CASE ~(count - 1 < 0)
  <2>1. inside' = inside + 1 /\ UNCHANGED <<semQueue, at, blocked>>
    BY ZenonT(30), <1>3 DEF SysSemaphoreDown
  <2>2. PermitsCounted'
    <3> HIDE DEF LocksInv, LocksTypeOK, LocksExact, Queues, Handed
    <3> QED BY <1>0, <1>1, <1>3, <2>1
  <2> QED BY <1>1, <2>1, <2>2
<1> QED BY ZenonT(30), <1>2, <1>3

(* sys_semaphore_up keeps the invariant.                                   *)
LEMMA UpKeeps ==
  ASSUME LocksInv, NEW t \in Contenders, SysSemaphoreUp(t)
  PROVE  LocksInv'
<1> USE DEF LocksInv, LocksTypeOK, LocksExact, OneHolder, PermitsCounted, Queues, Handed, fixed, mutex
<1>0. /\ count \in Int /\ inside \in Int /\ permits \in Nat /\ Len(semQueue) \in Nat
      /\ PermitsCounted
  OBVIOUS
<1>1. count' = count + 1 /\ UNCHANGED <<fixed, mutex, condQueue, at>>
  BY ZenonT(30) DEF SysSemaphoreUp
<1>2. CASE count + 1 <= 0 /\ semQueue # <<>>
  <2> DEFINE h == Head(semQueue)
  <2>1. semQueue' = Tail(semQueue) /\ blocked' = blocked \ {h} /\ inside' = inside
    BY ZenonT(30), <1>2 DEF SysSemaphoreUp
  <2>2. /\ semQueue' \in Seq(Contenders) /\ Once(semQueue') /\ Len(semQueue') = Len(semQueue) - 1
        /\ h \in Contenders /\ InQueue(h, semQueue)
        /\ \A u \in Contenders : InQueue(u, semQueue') <=> (u # h /\ InQueue(u, semQueue))
    BY ZenonT(30), <1>2, <2>1, PopFront
  <2> HIDE DEF h
  <2>3. at[h] = "sem"
    BY ZenonT(30), <2>2
  <2>4. LocksTypeOK'
    BY <1>1, <2>1, <2>2
  <2>5. Handed' = Handed
    BY ZenonT(30), <1>1, <2>1, <2>3
  <2>6. PermitsCounted'
    <3> HIDE DEF LocksInv, LocksTypeOK, LocksExact, Queues, Handed
    <3>1. Len(semQueue') = Len(semQueue) - 1 /\ count' = count + 1 /\ inside' = inside
      BY ZenonT(30), <1>1, <2>1, <2>2
    <3>2. permits' = permits
      BY ZenonT(30), <1>1
    <3> QED BY <1>0, <1>2, <3>1, <3>2
  <2>7. Queues(mutexQueue, "mutex")' /\ Queues(semQueue, "sem")' /\ Queues(condQueue, "cond")'
    BY ZenonT(30), <1>1, <2>1, <2>2, <2>3
  <2>8. OneHolder'
    BY <1>1, <2>5
  <2> HIDE DEF LocksTypeOK, OneHolder, PermitsCounted, Queues, Handed
  <2> QED BY <2>4, <2>6, <2>7, <2>8
<1>3. CASE ~(count + 1 <= 0 /\ semQueue # <<>>)
  <2>1. inside' = inside - 1 /\ UNCHANGED <<semQueue, blocked>>
    BY ZenonT(30), <1>3 DEF SysSemaphoreUp
  <2>2. semQueue = <<>> => Len(semQueue) = 0
    BY ZenonT(30)
  <2>3. PermitsCounted'
    <3> HIDE DEF LocksInv, LocksTypeOK, LocksExact, Queues, Handed
    <3> QED BY <1>0, <1>1, <1>3, <2>1, <2>2
  <2> QED BY <1>1, <2>1, <2>3
<1> QED BY ZenonT(30), <1>2, <1>3

(* sys_condvar_signal keeps the invariant.                                 *)
LEMMA SignalKeeps ==
  ASSUME LocksInv, NEW t \in Contenders, SysCondvarSignal(t)
  PROVE  LocksInv'
<1> USE DEF LocksInv, LocksTypeOK, LocksExact, OneHolder, PermitsCounted, Queues, Handed, fixed, mutex, semaphore
<1> DEFINE h == Head(condQueue)
<1>1. /\ condQueue # <<>> /\ condQueue' = Tail(condQueue) /\ blocked' = blocked \ {h}
      /\ UNCHANGED <<fixed, mutex, semaphore, at>>
  BY ZenonT(30) DEF SysCondvarSignal
<1>2. /\ condQueue' \in Seq(Contenders) /\ Once(condQueue') /\ h \in Contenders /\ InQueue(h, condQueue)
      /\ \A u \in Contenders : InQueue(u, condQueue') <=> (u # h /\ InQueue(u, condQueue))
  BY ZenonT(30), <1>1, PopFront
<1> HIDE DEF h
<1>3. at[h] = "cond"
  BY ZenonT(30), <1>2
<1>4. LocksTypeOK'
  BY ZenonT(30), <1>1, <1>2
<1>5. Handed' = Handed
  BY ZenonT(30), <1>1, <1>3
<1>6. Queues(mutexQueue, "mutex")' /\ Queues(semQueue, "sem")' /\ Queues(condQueue, "cond")'
  BY ZenonT(30), <1>1, <1>2, <1>3
<1> QED BY <1>1, <1>4, <1>5, <1>6

(* A thread that runs again keeps the invariant.                           *)
LEMMA ResumeKeeps ==
  ASSUME LocksInv, NEW t \in Contenders, Resume(t)
  PROVE  LocksInv'
<1> USE DEF LocksInv, LocksTypeOK, LocksExact, OneHolder, PermitsCounted, Queues, Handed, fixed, mutex, semaphore
<1>1. t \notin blocked
  BY ZenonT(30) DEF Resume
<1>2. CASE at[t] \in {"spin", "cond"} /\ Lock(t) /\ UNCHANGED <<fixed, semaphore, condQueue>>
  BY ZenonT(30), <1>1, <1>2, LockKeeps
<1>3. CASE /\ at[t] = "mutex" /\ at' = [at EXCEPT ![t] = "user"] /\ holds' = holds \cup {t}
           /\ UNCHANGED <<fixed, semaphore, condQueue, locked, mutexQueue, blocked>>
  <2>1. LocksTypeOK'
    BY <1>1, <1>3
  <2>2. t \in Handed /\ holds' \cup Handed' = holds \cup Handed
    BY <1>1, <1>3
  <2>3. Queues(mutexQueue, "mutex")' /\ Queues(semQueue, "sem")' /\ Queues(condQueue, "cond")'
    BY ZenonT(30), <1>1, <1>3
  <2>4. OneHolder' /\ PermitsCounted'
    BY <1>3, <2>2
  <2> HIDE DEF LocksTypeOK, OneHolder, PermitsCounted, Queues, Handed
  <2> QED BY ZenonT(30), <2>1, <2>3, <2>4
<1>4. CASE /\ at[t] = "sem" /\ at' = [at EXCEPT ![t] = "user"]
           /\ UNCHANGED <<fixed, mutex, semaphore, condQueue, blocked>>
  <2>1. LocksTypeOK'
    BY ZenonT(30), <1>1, <1>4
  <2>2. Handed' = Handed
    BY ZenonT(30), <1>1, <1>4
  <2>3. Queues(mutexQueue, "mutex")' /\ Queues(semQueue, "sem")' /\ Queues(condQueue, "cond")'
    BY ZenonT(30), <1>1, <1>4
  <2>4. OneHolder'
    BY <1>4, <2>2
  <2>5. PermitsCounted'
    BY ZenonT(30), <1>4
  <2> HIDE DEF LocksTypeOK, OneHolder, PermitsCounted, Queues, Handed
  <2> QED BY ZenonT(30), <2>1, <2>3, <2>4, <2>5
<1> QED BY ZenonT(30), <1>2, <1>3, <1>4 DEF Resume

(* One holder at a time, as many downs as permits, exact queues, for every *)
(* set of threads and every initial count (sync/mutex.rs, semaphore.rs,    *)
(* condvar.rs).                                                            *)
THEOREM LocksStayExact == LocksSpec => []LocksExact
<1>1. LocksInit => LocksInv
  <2> SUFFICES ASSUME LocksInit PROVE LocksInv
    BY ZenonT(30)
  <2>1. LocksTypeOK
    <3>1. <<>> \in Seq(Contenders)
      BY ZenonT(30), NobodyQueued
    <3>2. spins \in BOOLEAN /\ locked \in BOOLEAN
      BY ZenonT(30) DEF LocksInit
    <3>3. permits \in Nat /\ count \in Int /\ inside \in Int
      BY LocksAssumption DEF LocksInit
    <3>4. at \in [Contenders -> {"user", "spin", "mutex", "sem", "cond"}] /\ blocked = {} /\ holds = {}
      BY ZenonT(30) DEF LocksInit
    <3> QED BY ZenonT(30), <3>1, <3>2, <3>3, <3>4 DEF LocksInit, LocksTypeOK
  <2>2. LocksExact
    BY LocksAssumption, NobodyQueued DEF LocksInit, LocksExact, OneHolder, PermitsCounted, Queues, Handed
  <2> QED BY ZenonT(30), <2>1, <2>2 DEF LocksInv
<1>2. LocksInv /\ [LocksNext]_lockVars => LocksInv'
  <2> SUFFICES ASSUME LocksInv, [LocksNext]_lockVars PROVE LocksInv'
    OBVIOUS
  <2>1. CASE UNCHANGED lockVars
    BY <2>1 DEF lockVars, fixed, mutex, semaphore, LocksInv, LocksTypeOK, LocksExact, OneHolder, PermitsCounted, Queues, Handed
  <2>2. ASSUME NEW t \in Contenders, SysMutexLock(t) PROVE LocksInv'
    <3>1. /\ t \notin blocked /\ t \notin holds /\ at[t] = "user" /\ Lock(t)
          /\ UNCHANGED <<fixed, semaphore, condQueue>>
      BY ZenonT(30), <2>2 DEF SysMutexLock, LocksInv, LocksTypeOK
    <3> QED BY ZenonT(30), <3>1, LockKeeps
  <2> QED BY ZenonT(30), <2>1, <2>2, UnlockKeeps, DownKeeps, UpKeeps, SignalKeeps, WaitKeeps, ResumeKeeps
          DEF LocksNext
<1>3. LocksInv => LocksExact
  BY ZenonT(30) DEF LocksInv
<1> QED BY <1>1, <1>2, <1>3, PTL DEF LocksSpec

-----------------------------------------------------------------------------
(* Pipes.  For every capacity, every set of threads and every choice of    *)
(* the data written, the ring stays well formed, an error moves nothing,   *)
(* transfers are unbroken, and the pipe implements the byte stream of      *)
(* module ByteStream.                                                      *)

(* What a thread's call leaves in the variables of the other call, that a  *)
(* call in progress keeps its end open, and that a read asks for something.*)
CallsOK ==
  \A t \in Threads :
    /\ op[t] # "write" => wtodo[t] = <<>>
    /\ op[t] # "read" => got[t] = <<>>
    /\ op[t] = "read" => readOpen /\ (total[t] > 0 \/ rtodo[t] > 0)
    /\ op[t] = "write" => writeOpen

(* The inductive invariant.                                                *)
IInv == TypeOK /\ CallsOK /\ TransfersUnbroken /\ ErrorMovesNothing

(* Wrap is subtraction of the capacity for the indices the ring computes.  *)
LEMMA WrapCases ==
  ASSUME NEW i \in Nat, i < 2 * Capacity
  PROVE  Wrap(i) = IF i < Capacity THEN i ELSE i - Capacity
BY PipeAssumption, SMT DEF Wrap

(* Wrap of a sum of two indices.                                           *)
LEMMA WrapSum ==
  \A i, j \in Nat : i + j < 2 * Capacity => Wrap(i + j) = IF i + j < Capacity THEN i + j ELSE i + j - Capacity
<1>1. SUFFICES ASSUME NEW i \in Nat, NEW j \in Nat, i + j < 2 * Capacity
               PROVE  Wrap(i + j) = IF i + j < Capacity THEN i + j ELSE i + j - Capacity
  BY ZenonT(30)
<1>2. PICK k \in Nat : k = i + j
  OBVIOUS
<1>3. Wrap(k) = IF k < Capacity THEN k ELSE k - Capacity
  BY ZenonT(30), <1>1, <1>2, WrapCases
<1>. QED BY <1>2, <1>3, PipeAssumption DEF Wrap

(* A function on 1 .. n with values in S is a sequence over S.             *)
LEMMA IntervalIsSeq ==
  ASSUME NEW S, NEW n \in Nat, NEW f, f = [i \in 1 .. n |-> f[i]], \A i \in 1 .. n : f[i] \in S
  PROVE  f \in Seq(S) /\ Len(f) = n
<1>1. f \in [1 .. n -> S]
  BY ZenonT(30)
<1>2. f \in Seq(S)
  BY ZenonT(30), <1>1, SeqDef
<1>3. Len(f) = n
  BY <1>1, <1>2, LenProperties
<1>. QED BY ZenonT(30), <1>2, <1>3

(* The contents of the ring are a sequence of len bytes.                   *)
LEMMA ContentsType ==
  ASSUME TypeOK
  PROVE  Contents \in Seq(Bytes) /\ Len(Contents) = len
<1>1. \A i \in 1 .. len : Wrap(head + i - 1) \in Slots
  <2>1. SUFFICES ASSUME NEW i \in 1 .. len PROVE Wrap(head + i - 1) \in Slots
    BY ZenonT(30)
  <2>2. head + i - 1 \in Nat /\ head + i - 1 < 2 * Capacity
    BY PipeAssumption, <2>1 DEF TypeOK, Slots
  <2>. QED BY <2>2, WrapCases, PipeAssumption DEF Slots
<1>2. \A i \in 1 .. len : Contents[i] \in Bytes
  BY ZenonT(30), <1>1 DEF Contents, TypeOK
<1>3. Contents = [i \in 1 .. len |-> Contents[i]]
  BY ZenonT(30) DEF Contents
<1>4. len \in Nat
  BY PipeAssumption DEF TypeOK
<1>. QED BY ZenonT(30), <1>2, <1>3, <1>4, IntervalIsSeq

-----------------------------------------------------------------------------
(* The invariant holds initially and every action preserves it.            *)

(* An empty ring with both ends open satisfies the invariant.              *)
LEMMA InitIInv == ASSUME Init PROVE IInv
<1>1. Wrap(0 + 0) = 0
  BY WrapCases, PipeAssumption
<1>2. TypeOK
  BY <1>1, PipeAssumption DEF Init, TypeOK, Slots
<1>. QED BY ZenonT(30), <1>2 DEF Init, IInv, CallsOK, TransfersUnbroken, ErrorMovesNothing

(* Return, which ends a call, keeps it.                                    *)
LEMMA ReturnIInv ==
  ASSUME IInv, NEW t \in Threads, NEW ret \in {"ok", "EAGAIN", "EINTR", "EPIPE"},
         ret # "ok" => total[t] = 0, Runs(t), Return(t, ret)
  PROVE  IInv'
<1>. USE DEF IInv, Return, ring, ends
<1>1. TypeOK'
  BY DEF TypeOK
<1>2. CallsOK'
  BY ZenonT(30) DEF CallsOK, TypeOK
<1>3. TransfersUnbroken'
  <2>1. SUFFICES ASSUME NEW u \in Threads, op'[u] # "none", total'[u] > 0 PROVE FALSE
    BY ZenonT(30) DEF TransfersUnbroken
  <2>2. u # t /\ op[u] # "none" /\ total[u] > 0
    BY ZenonT(30), <2>1 DEF TypeOK
  <2>3. busy = u
    BY ZenonT(30), <2>2 DEF TransfersUnbroken
  <2>. QED BY ZenonT(30), <2>2, <2>3, PipeAssumption DEF Runs
<1>4. ErrorMovesNothing'
  BY ZenonT(30) DEF ErrorMovesNothing, TypeOK
<1>. QED BY ZenonT(30), <1>1, <1>2, <1>3, <1>4

(* So does a turn of a call on a full or an empty ring.                    *)
LEMMA CannotProgressIInv ==
  ASSUME IInv, NEW t \in Threads, total[t] = 0, Runs(t), op[t] # "none", CannotProgress(t)
  PROVE  IInv'
<1>1. CASE nonblock[op[t]]
  <2>1. Return(t, "EAGAIN")
    BY ZenonT(30), <1>1 DEF CannotProgress
  <2>. QED BY ZenonT(30), <2>1, ReturnIInv
<1>2. CASE ~nonblock[op[t]] /\ pending[t]
  <2>1. Return(t, "EINTR")
    BY ZenonT(30), <1>2 DEF CannotProgress
  <2>. QED BY ZenonT(30), <2>1, ReturnIInv
<1>3. CASE ~nonblock[op[t]] /\ ~pending[t]
  <2>1. busy' = Nobody /\ UNCHANGED <<ring, ends, calls, pending>>
    BY ZenonT(30), <1>3 DEF CannotProgress
  <2>2. TypeOK' /\ CallsOK' /\ ErrorMovesNothing'
    BY ZenonT(30), <2>1 DEF IInv, TypeOK, CallsOK, ErrorMovesNothing, ring, ends, calls, Contents
  <2>3. TransfersUnbroken'
    <3>1. SUFFICES ASSUME NEW u \in Threads, op[u] # "none", total[u] > 0 PROVE FALSE
      BY ZenonT(30), <2>1 DEF TransfersUnbroken, calls
    <3>2. busy = u /\ u # t
      BY <3>1 DEF IInv, TransfersUnbroken
    <3>. QED BY ZenonT(30), <3>2, PipeAssumption DEF Runs
  <2>. QED BY ZenonT(30), <2>2, <2>3 DEF IInv
<1>. QED BY ZenonT(30), <1>1, <1>2, <1>3

(* A call that starts keeps it: nothing has been moved yet.                *)
LEMMA StartIInv ==
  ASSUME IInv, NEW t \in Threads,
         (\E n \in Reads : StartRead(t, n)) \/ (\E data \in Writes : StartWrite(t, data))
  PROVE  IInv'
<1>. USE DEF IInv, StartRead, StartWrite, ring, ends
<1>1. TypeOK'
  <2>1. CASE \E n \in Reads : StartRead(t, n)
    BY <2>1, PipeAssumption DEF TypeOK
  <2>2. CASE \E data \in Writes : StartWrite(t, data)
    <3>1. PICK data \in Writes : StartWrite(t, data)
      BY ZenonT(30), <2>2
    <3>2. data \in Seq(Bytes)
      BY ZenonT(30), PipeAssumption
    <3>. QED BY ZenonT(30), <3>1, <3>2 DEF TypeOK
  <2>. QED BY ZenonT(30), <2>1, <2>2
<1>2. CallsOK'
  <2>1. CASE \E n \in Reads : StartRead(t, n)
    <3>1. PICK n \in Reads : StartRead(t, n)
      BY ZenonT(30), <2>1
    <3>2. n > 0
      BY PipeAssumption
    <3>. QED BY ZenonT(30), <3>1, <3>2 DEF CallsOK, TypeOK
  <2>2. CASE \E data \in Writes : StartWrite(t, data)
    BY <2>2 DEF CallsOK, TypeOK
  <2>. QED BY ZenonT(30), <2>1, <2>2
<1>3. TransfersUnbroken'
  BY PipeAssumption DEF TransfersUnbroken, TypeOK
<1>4. ErrorMovesNothing'
  BY ZenonT(30) DEF ErrorMovesNothing
<1>. QED BY ZenonT(30), <1>1, <1>2, <1>3, <1>4

(* Facts about the chunk of a read: it is not empty, it fits the ring up   *)
(* to its end, and the bytes copied are the oldest n of the contents.      *)
LEMMA ReadChunkFacts ==
  ASSUME IInv, NEW t \in Threads, NEW slice \in 1 .. rtodo[t], ReadChunk(t, slice)
  PROVE  \E n \in 1 .. len :
           /\ n <= Capacity - head /\ n <= rtodo[t]
           /\ got' = [got EXCEPT ![t] = @ \o SubSeq(Contents, 1, n)]
           /\ head' = Wrap(head + n) /\ head' \in Slots
           /\ len' = len - n
           /\ total' = [total EXCEPT ![t] = @ + n]
           /\ rtodo' = [rtodo EXCEPT ![t] = @ - n]
           /\ busy' = t
           /\ tail = Wrap(head' + len')
<1>. DEFINE n == Min2(Min2(Capacity - head, len), slice)
            chunk == [i \in 1 .. n |-> buf[head + i - 1]]
<1>1. /\ head \in Nat /\ head < Capacity /\ len \in Nat /\ len <= Capacity
      /\ Capacity \in Nat /\ len > 0 /\ rtodo[t] \in Nat /\ slice \in Nat /\ slice > 0 /\ slice <= rtodo[t]
      /\ tail = Wrap(head + len)
  BY PipeAssumption DEF IInv, TypeOK, Slots, ReadChunk
<1>2. n \in 1 .. len /\ n <= Capacity - head /\ n <= slice
  BY <1>1 DEF Min2
<1>3. /\ got' = [got EXCEPT ![t] = @ \o chunk]
      /\ head' = Wrap(head + n) /\ len' = len - n
      /\ total' = [total EXCEPT ![t] = @ + n]
      /\ rtodo' = [rtodo EXCEPT ![t] = @ - n]
      /\ busy' = t
  BY ZenonT(30) DEF ReadChunk
<1>. HIDE DEF n
<1>4. Wrap(head + n) = IF head + n < Capacity THEN head + n ELSE head + n - Capacity
  BY <1>1, <1>2, WrapCases
<1>5. head' \in Slots
  BY <1>1, <1>2, <1>3, <1>4 DEF Slots
<1>6. tail = Wrap(head' + len')
  <2>1. Wrap(head + len) = IF head + len < Capacity THEN head + len ELSE head + len - Capacity
    BY <1>1, WrapCases
  <2>2. head' \in Nat /\ len' \in Nat /\ head' + len' < 2 * Capacity
    BY <1>1, <1>2, <1>3, <1>4
  <2>3. Wrap(head' + len') = IF head' + len' < Capacity THEN head' + len' ELSE head' + len' - Capacity
    BY ZenonT(30), <2>2, WrapSum
  <2>. QED BY <1>1, <1>2, <1>3, <1>4, <2>1, <2>3
<1>7. chunk = SubSeq(Contents, 1, n)
  <2>1. Contents \in Seq(Bytes) /\ Len(Contents) = len
    BY ZenonT(30), ContentsType DEF IInv
  <2>2. SubSeq(Contents, 1, n) = [i \in 1 .. n |-> Contents[i]]
    <3>1. 1 \in 1 .. len + 1 /\ n \in 1 - 1 .. len
      BY <1>1, <1>2
    <3>2. /\ SubSeq(Contents, 1, n) \in Seq(Bytes)
          /\ Len(SubSeq(Contents, 1, n)) = n
          /\ \A i \in 1 .. n : SubSeq(Contents, 1, n)[i] = Contents[i]
      BY <1>1, <1>2, <2>1, <3>1, SubSeqProperties
    <3>. QED BY ZenonT(30), <1>2, <3>2, LenProperties
  <2>3. \A i \in 1 .. n : Contents[i] = buf[head + i - 1]
    <3>1. SUFFICES ASSUME NEW i \in 1 .. n PROVE Contents[i] = buf[head + i - 1]
      BY ZenonT(30)
    <3>2. i \in 1 .. len /\ head + i - 1 \in Nat /\ head + i - 1 < Capacity
      BY <1>1, <1>2, <3>1
    <3>3. Wrap(head + i - 1) = head + i - 1
      BY <1>1, <3>2, WrapCases
    <3>. QED BY ZenonT(30), <3>2, <3>3 DEF Contents
  <2>. QED BY ZenonT(30), <2>2, <2>3
<1>8. n <= rtodo[t]
  BY <1>1, <1>2
<1>9. got' = [got EXCEPT ![t] = @ \o SubSeq(Contents, 1, n)]
  BY ZenonT(30), <1>3, <1>7
<1>10. n \in 1 .. len
  BY ZenonT(30), <1>2
<1>. HIDE DEF chunk
<1>. QED BY ZenonT(30), <1>2, <1>3, <1>5, <1>6, <1>8, <1>9, <1>10

(* A chunk read keeps it.                                                  *)
LEMMA ReadChunkIInv ==
  ASSUME IInv, NEW t \in Threads, NEW slice \in 1 .. rtodo[t], ReadChunk(t, slice)
  PROVE  IInv'
<1>1. PICK n \in 1 .. len :
           /\ n <= Capacity - head /\ n <= rtodo[t]
           /\ got' = [got EXCEPT ![t] = @ \o SubSeq(Contents, 1, n)]
           /\ head' = Wrap(head + n) /\ head' \in Slots
           /\ len' = len - n
           /\ total' = [total EXCEPT ![t] = @ + n]
           /\ rtodo' = [rtodo EXCEPT ![t] = @ - n]
           /\ busy' = t
           /\ tail = Wrap(head' + len')
  BY ZenonT(30), ReadChunkFacts
<1>2. Contents \in Seq(Bytes) /\ Len(Contents) = len
  BY ZenonT(30), ContentsType DEF IInv
<1>3. /\ op[t] = "read" /\ Runs(t)
      /\ UNCHANGED <<buf, tail, readOpen, writeOpen, nonblock, op, wtodo, result, pending>>
  BY ZenonT(30) DEF ReadChunk, ends
<1>4. len \in Nat /\ len <= Capacity /\ Capacity \in Nat /\ rtodo[t] \in Nat /\ total[t] \in Nat
  BY PipeAssumption DEF IInv, TypeOK
<1>5. SubSeq(Contents, 1, n) \in Seq(Bytes)
  BY <1>1, <1>2, <1>4
<1>6. got[t] \o SubSeq(Contents, 1, n) \in Seq(Bytes)
  BY <1>5 DEF IInv, TypeOK
<1>7. len' \in 0 .. Capacity /\ rtodo[t] - n \in Nat /\ total[t] + n \in Nat
  BY <1>1, <1>4
<1>8. TypeOK'
  BY ZenonT(30), <1>1, <1>3, <1>6, <1>7 DEF IInv, TypeOK, Slots
<1>9. CallsOK'
  <2>1. total[t] + n > 0
    BY <1>1, <1>4
  <2>. QED BY ZenonT(30), <1>1, <1>3, <2>1 DEF IInv, CallsOK, TypeOK
<1>10. TransfersUnbroken'
  <2>1. SUFFICES ASSUME NEW u \in Threads, op[u] # "none", total'[u] > 0, u # t PROVE FALSE
    BY ZenonT(30), <1>1, <1>3 DEF TransfersUnbroken
  <2>2. busy = u
    BY ZenonT(30), <1>1, <2>1 DEF IInv, TransfersUnbroken, TypeOK
  <2>. QED BY ZenonT(30), <1>3, <2>1, <2>2, PipeAssumption DEF Runs
<1>11. ErrorMovesNothing'
  BY ZenonT(30), <1>3 DEF IInv, ErrorMovesNothing
<1>. QED BY ZenonT(30), <1>8, <1>9, <1>10, <1>11 DEF IInv

(* The d-th of n bytes from slot a is in the run of n slots from a.        *)
LEMMA SlotOfByte ==
  ASSUME NEW a \in Nat, NEW n \in Nat, NEW d \in 1 .. n, NEW w, w = a + d - 1
  PROVE  w \in a .. a + n - 1 /\ w - a + 1 = d
OBVIOUS

(* Facts about the chunk of a write: it is not empty, it fits the free     *)
(* part of the ring, and it is appended to the contents.                   *)
LEMMA WriteChunkFacts ==
  ASSUME IInv, NEW t \in Threads, NEW slice \in 1 .. Len(wtodo[t]), WriteChunk(t, slice)
  PROVE  \E n \in 1 .. Len(wtodo[t]) :
           /\ n <= Capacity - len
           /\ buf' \in [Slots -> Bytes]
           /\ tail' = Wrap(head + len') /\ tail' \in Slots
           /\ len' = len + n
           /\ total' = [total EXCEPT ![t] = @ + n]
           /\ wtodo' = [wtodo EXCEPT ![t] = SubSeq(@, n + 1, Len(@))]
           /\ busy' = t
           /\ Contents' = Contents \o SubSeq(wtodo[t], 1, n)
<1>. DEFINE n == Min2(Min2(Capacity - tail, Room), slice)
<1>1. /\ head \in Nat /\ head < Capacity /\ tail \in Nat /\ tail < Capacity
      /\ len \in Nat /\ len < Capacity /\ Capacity \in Nat
      /\ wtodo[t] \in Seq(Bytes) /\ slice \in Nat /\ slice > 0 /\ slice <= Len(wtodo[t])
      /\ tail = Wrap(head + len)
  BY PipeAssumption DEF IInv, TypeOK, Slots, WriteChunk
<1>2. n \in 1 .. Len(wtodo[t]) /\ n \in Nat /\ n <= Capacity - tail /\ n <= Capacity - len
  BY <1>1 DEF Min2, Room
<1>3. /\ buf' = [j \in Slots |-> IF j \in tail .. tail + n - 1 THEN wtodo[t][j - tail + 1] ELSE buf[j]]
      /\ tail' = Wrap(tail + n) /\ len' = len + n
      /\ total' = [total EXCEPT ![t] = @ + n]
      /\ wtodo' = [wtodo EXCEPT ![t] = SubSeq(@, n + 1, Len(@))]
      /\ busy' = t /\ head' = head
  BY ZenonT(30) DEF WriteChunk
<1>. HIDE DEF n
<1>4. Wrap(tail + n) = IF tail + n < Capacity THEN tail + n ELSE tail + n - Capacity
  BY <1>1, <1>2, WrapSum
<1>5. Wrap(head + len) = IF head + len < Capacity THEN head + len ELSE head + len - Capacity
  BY <1>1, WrapSum
<1>6. tail' = Wrap(head + len') /\ tail' \in Slots
  <2>1. /\ head \in Nat /\ head < Capacity /\ tail \in Nat /\ tail < Capacity
        /\ len \in Nat /\ Capacity \in Nat
        /\ n \in Nat /\ n <= Capacity - tail /\ n <= Capacity - len
    BY ZenonT(30), <1>1, <1>2
  <2>2. tail' = Wrap(tail + n) /\ len' = len + n /\ tail = Wrap(head + len)
    BY ZenonT(30), <1>1, <1>3
  <2>3. len' \in Nat /\ head + len' < 2 * Capacity
    BY <2>1, <2>2
  <2>4. Wrap(head + len') = IF head + len' < Capacity THEN head + len' ELSE head + len' - Capacity
    BY ZenonT(30), <2>1, <2>3, WrapSum
  <2>5. CASE head + len < Capacity
    <3>1. tail = head + len
      BY ZenonT(30), <1>5, <2>2, <2>5
    <3>2. tail + n = head + len'
      BY <2>1, <2>2, <3>1
    <3>3. tail' = Wrap(head + len')
      BY ZenonT(30), <2>2, <3>2
    <3>4. (IF tail + n < Capacity THEN tail + n ELSE tail + n - Capacity) \in 0 .. Capacity - 1
      BY <2>1
    <3>. QED BY ZenonT(30), <1>4, <2>2, <3>3, <3>4 DEF Slots
  <2>6. CASE ~(head + len < Capacity)
    <3>1. tail = head + len - Capacity
      BY ZenonT(30), <1>5, <2>2, <2>6
    <3>2. tail + n = head + len' - Capacity /\ tail + n < Capacity /\ ~(head + len' < Capacity)
      BY <2>1, <2>2, <2>6, <3>1
    <3>3. tail' = tail + n
      BY ZenonT(30), <1>4, <2>2, <3>2
    <3>4. tail' = Wrap(head + len')
      BY ZenonT(30), <2>4, <3>2, <3>3
    <3>5. tail + n \in 0 .. Capacity - 1
      BY <2>1, <3>2
    <3>. QED BY ZenonT(30), <3>3, <3>4, <3>5 DEF Slots
  <2>. QED BY ZenonT(30), <2>5, <2>6
<1>7. buf' \in [Slots -> Bytes]
  <2>1. \A j \in Slots : j \in tail .. tail + n - 1 => j - tail + 1 \in 1 .. Len(wtodo[t])
    <3>1. tail \in Nat /\ n \in Nat /\ Len(wtodo[t]) \in Nat /\ n <= Len(wtodo[t])
      BY <1>1, <1>2
    <3>. QED BY <3>1
  <2>2. \A j \in Slots : j \in tail .. tail + n - 1 => wtodo[t][j - tail + 1] \in Bytes
    BY ZenonT(30), <1>1, <2>1, ElementOfSeq
  <2>3. \A j \in Slots : buf[j] \in Bytes
    BY ZenonT(30) DEF IInv, TypeOK
  <2>. QED BY ZenonT(30), <1>3, <2>2, <2>3
<1>8. Contents' = Contents \o SubSeq(wtodo[t], 1, n)
  <2>. DEFINE data == SubSeq(wtodo[t], 1, n)
  <2>1. Contents \in Seq(Bytes) /\ Len(Contents) = len /\ \A i \in 1 .. len : Contents[i] = buf[Wrap(head + i - 1)]
    BY ZenonT(30), ContentsType DEF IInv, Contents
  <2>2. /\ data \in Seq(Bytes) /\ Len(data) = n
        /\ \A i \in 1 .. n : data[i] = wtodo[t][i]
    BY <1>1, <1>2
  <2>3. Contents' = [i \in 1 .. len + n |-> buf'[Wrap(head + i - 1)]]
    BY <1>3 DEF Contents
  <2>4. /\ Contents \o data \in Seq(Bytes) /\ Len(Contents \o data) = len + n
        /\ \A i \in 1 .. len + n : (Contents \o data)[i] = IF i <= len THEN Contents[i] ELSE data[i - len]
    <3>. HIDE DEF data
    <3>1. /\ Contents \o data \in Seq(Bytes)
          /\ Len(Contents \o data) = Len(Contents) + Len(data)
          /\ \A i \in 1 .. Len(Contents) + Len(data) :
               (Contents \o data)[i] = IF i <= Len(Contents) THEN Contents[i] ELSE data[i - Len(Contents)]
      BY ZenonT(30), <2>1, <2>2, ConcatProperties
    <3>. QED BY ZenonT(30), <2>1, <2>2, <3>1
  <2>. HIDE DEF data
  <2>5. \A i \in 1 .. len + n : buf'[Wrap(head + i - 1)] = (Contents \o data)[i]
    <3>1. SUFFICES ASSUME NEW i \in 1 .. len + n PROVE buf'[Wrap(head + i - 1)] = (Contents \o data)[i]
      BY ZenonT(30)
    <3>2. PICK k \in Nat : k = i - 1
      BY <1>1, <1>2, <3>1
    <3>3. Wrap(head + k) = IF head + k < Capacity THEN head + k ELSE head + k - Capacity
      <4>1. head + k < 2 * Capacity
        BY <1>1, <1>2, <3>1, <3>2
      <4>. QED BY ZenonT(30), <1>1, <4>1, WrapSum
    <3>4. PICK w : w = Wrap(head + i - 1)
      BY ZenonT(30)
    <3>5. head + i - 1 = head + k
      BY ZenonT(30), <1>1, <1>2, <3>1, <3>2
    <3>6. w = IF head + k < Capacity THEN head + k ELSE head + k - Capacity
      BY ZenonT(30), <3>3, <3>4, <3>5
    <3>7. w \in Slots
      BY <1>1, <1>2, <3>1, <3>2, <3>6 DEF Slots
    <3>8. CASE i <= len
      <4>1. w \notin tail .. tail + n - 1
        BY <1>1, <1>2, <1>5, <3>1, <3>2, <3>6, <3>8
      <4>2. buf'[w] = buf[w]
        BY ZenonT(30), <1>3, <3>7, <4>1
      <4>3. i \in 1 .. len
        BY <1>1, <1>2, <3>1, <3>8
      <4>. QED BY ZenonT(30), <2>1, <2>4, <3>1, <3>4, <3>8, <4>2, <4>3
    <3>9. CASE ~(i <= len)
      <4>1. w = tail + (i - len - 1)
        BY <1>1, <1>2, <1>5, <3>1, <3>2, <3>6, <3>9
      <4>2. w \in tail .. tail + n - 1 /\ w - tail + 1 = i - len /\ i - len \in 1 .. n
        <5>1. PICK d \in 1 .. n : d = i - len
          BY <1>1, <1>2, <3>1, <3>9
        <5>2. w = tail + d - 1
          BY ZenonT(30), <1>1, <3>1, <4>1, <5>1
        <5>3. tail \in Nat /\ n \in Nat
          BY ZenonT(30), <1>1, <1>2
        <5>4. w \in tail .. tail + n - 1 /\ w - tail + 1 = d
          BY <5>1, <5>2, <5>3, SlotOfByte
        <5>. QED BY ZenonT(30), <5>1, <5>4
      <4>3. buf'[w] = wtodo[t][i - len]
        BY ZenonT(30), <1>3, <3>7, <4>2
      <4>. QED BY ZenonT(30), <2>2, <2>4, <3>1, <3>4, <3>9, <4>2, <4>3
    <3>. QED BY ZenonT(30), <3>8, <3>9
  <2>6. Contents \o data = [i \in 1 .. len + n |-> (Contents \o data)[i]]
    BY ZenonT(30), <1>1, <1>2, <2>4, LenProperties
  <2>7. Contents' = Contents \o data
    BY ZenonT(30), <2>3, <2>5, <2>6
  <2>. QED BY ZenonT(30), <2>7 DEF data
<1>9. n \in 1 .. Len(wtodo[t])
  BY ZenonT(30), <1>2
<1>. QED BY ZenonT(30), <1>2, <1>3, <1>6, <1>7, <1>8, <1>9

(* A chunk written keeps it.                                               *)
LEMMA WriteChunkIInv ==
  ASSUME IInv, NEW t \in Threads, NEW slice \in 1 .. Len(wtodo[t]), WriteChunk(t, slice)
  PROVE  IInv'
<1>1. PICK n \in 1 .. Len(wtodo[t]) :
           /\ n <= Capacity - len
           /\ buf' \in [Slots -> Bytes]
           /\ tail' = Wrap(head + len') /\ tail' \in Slots
           /\ len' = len + n
           /\ total' = [total EXCEPT ![t] = @ + n]
           /\ wtodo' = [wtodo EXCEPT ![t] = SubSeq(@, n + 1, Len(@))]
           /\ busy' = t
  BY ZenonT(30), WriteChunkFacts
<1>2. /\ op[t] = "write" /\ Runs(t) /\ readOpen
      /\ UNCHANGED <<head, readOpen, writeOpen, nonblock, op, rtodo, got, result, pending>>
  BY ZenonT(30) DEF WriteChunk, ends
<1>3. len \in Nat /\ len <= Capacity /\ Capacity \in Nat /\ total[t] \in Nat /\ wtodo[t] \in Seq(Bytes)
  BY PipeAssumption DEF IInv, TypeOK
<1>4. SubSeq(wtodo[t], n + 1, Len(wtodo[t])) \in Seq(Bytes)
  BY <1>1, <1>3
<1>5. len' \in 0 .. Capacity /\ total[t] + n \in Nat
  BY <1>1, <1>3
<1>6. TypeOK'
  BY ZenonT(30), <1>1, <1>2, <1>4, <1>5 DEF IInv, TypeOK, Slots
<1>7. CallsOK'
  BY ZenonT(30), <1>1, <1>2 DEF IInv, CallsOK, TypeOK
<1>8. TransfersUnbroken'
  <2>1. SUFFICES ASSUME NEW u \in Threads, op[u] # "none", total'[u] > 0, u # t PROVE FALSE
    BY ZenonT(30), <1>1, <1>2 DEF TransfersUnbroken
  <2>2. busy = u
    BY ZenonT(30), <1>1, <2>1 DEF IInv, TransfersUnbroken, TypeOK
  <2>. QED BY ZenonT(30), <1>2, <2>1, <2>2, PipeAssumption DEF Runs
<1>9. ErrorMovesNothing'
  BY ZenonT(30), <1>2 DEF IInv, ErrorMovesNothing
<1>. QED BY ZenonT(30), <1>6, <1>7, <1>8, <1>9 DEF IInv

(* A read that ends keeps it.                                              *)
LEMMA ReadEndIInv ==
  ASSUME IInv, NEW t \in Threads, ReadEnd(t)
  PROVE  IInv'
<1>1. Runs(t) /\ op[t] = "read"
  BY ZenonT(30) DEF ReadEnd
<1>2. CASE ReadStops(t)
  <2>1. Return(t, "ok")
    BY ZenonT(30), <1>2 DEF ReadEnd
  <2>. QED BY ZenonT(30), <1>1, <2>1, ReturnIInv
<1>3. CASE ~ReadStops(t)
  <2>1. CannotProgress(t)
    BY ZenonT(30), <1>3 DEF ReadEnd
  <2>2. total[t] = 0
    BY <1>3 DEF ReadStops, IInv, TypeOK
  <2>. QED BY ZenonT(30), <1>1, <2>1, <2>2, CannotProgressIInv
<1>. QED BY ZenonT(30), <1>2, <1>3

(* A write that ends keeps it.                                             *)
LEMMA WriteEndIInv ==
  ASSUME IInv, NEW t \in Threads, WriteEnd(t)
  PROVE  IInv'
<1>1. Runs(t) /\ op[t] = "write"
  BY ZenonT(30) DEF WriteEnd
<1>2. CASE Return(t, "ok")
  BY ZenonT(30), <1>1, <1>2, ReturnIInv
<1>3. CASE Return(t, "EPIPE") /\ total[t] = 0
  BY ZenonT(30), <1>1, <1>3, ReturnIInv
<1>4. CASE CannotProgress(t) /\ ~ShortWrite(t)
  <2>1. total[t] = 0
    BY <1>4 DEF ShortWrite, IInv, TypeOK
  <2>. QED BY ZenonT(30), <1>1, <1>4, <2>1, CannotProgressIInv
<1>. QED BY ZenonT(30), <1>2, <1>3, <1>4 DEF WriteEnd

(* Closing an end, fcntl, a signal and a stutter keep it.                  *)
LEMMA OtherIInv ==
  ASSUME IInv,
         \/ CloseRead \/ CloseWrite
         \/ \E e \in {"read", "write"}, flag \in BOOLEAN : SetStatusFlags(e, flag)
         \/ \E t \in Threads : Signal(t)
         \/ UNCHANGED vars
  PROVE  IInv'
<1>. USE DEF IInv, ring, ends, calls
<1>1. TypeOK'
  <2>1. CASE CloseRead \/ CloseWrite \/ UNCHANGED vars
    BY ZenonT(30), <2>1 DEF TypeOK, CloseRead, CloseWrite, vars
  <2>2. CASE \E e \in {"read", "write"}, flag \in BOOLEAN : SetStatusFlags(e, flag)
    BY <2>2 DEF TypeOK, SetStatusFlags
  <2>3. CASE \E t \in Threads : Signal(t)
    BY ZenonT(30), <2>3 DEF TypeOK, Signal
  <2>. QED BY ZenonT(30), <2>1, <2>2, <2>3
<1>2. CallsOK'
  <2>1. CASE CloseRead
    BY ZenonT(30), <2>1 DEF CallsOK, CloseRead
  <2>2. CASE CloseWrite
    BY ZenonT(30), <2>2 DEF CallsOK, CloseWrite
  <2>3. CASE \E e \in {"read", "write"}, flag \in BOOLEAN : SetStatusFlags(e, flag)
    <3>1. CallsOK /\ UNCHANGED <<readOpen, writeOpen, op, wtodo, got, total, rtodo>>
      BY ZenonT(30), <2>3 DEF SetStatusFlags
    <3>. QED BY ZenonT(30), <3>1 DEF CallsOK
  <2>4. CASE \E t \in Threads : Signal(t)
    <3>1. CallsOK /\ UNCHANGED <<readOpen, writeOpen, op, wtodo, got, total, rtodo>>
      BY ZenonT(30), <2>4 DEF Signal
    <3>. QED BY ZenonT(30), <3>1 DEF CallsOK
  <2>5. CASE UNCHANGED vars
    BY ZenonT(30), <2>5 DEF CallsOK, vars
  <2>. QED BY ZenonT(30), <2>1, <2>2, <2>3, <2>4, <2>5
<1>3. TransfersUnbroken' /\ ErrorMovesNothing'
  BY ZenonT(30) DEF TransfersUnbroken, ErrorMovesNothing, CloseRead, CloseWrite, SetStatusFlags, Signal, vars
<1>. QED BY ZenonT(30), <1>1, <1>2, <1>3

(* Every step of a pipe keeps the invariant.                               *)
LEMMA NextIInv ==
  ASSUME IInv, [Next]_vars
  PROVE  IInv'
<1>1. ASSUME NEW t \in Threads, Step(t) PROVE IInv'
  BY ZenonT(30), <1>1, ReadChunkIInv, WriteChunkIInv, ReadEndIInv, WriteEndIInv DEF Step
<1>2. ASSUME NEW t \in Threads, (\E r \in Reads : StartRead(t, r)) \/ (\E w \in Writes : StartWrite(t, w)) PROVE IInv'
  BY ZenonT(30), <1>2, StartIInv
<1>. QED BY ZenonT(30), <1>1, <1>2, OtherIInv DEF Next

(* The invariant, for every capacity and every number of threads: the ring *)
(* indices of PipeBuffer stay consistent with its length.                  *)
THEOREM RingWellFormed == Spec => []TypeOK
<1>1. Init => IInv
  BY InitIInv
<1>2. IInv /\ [Next]_vars => IInv'
  BY NextIInv
<1>3. IInv => TypeOK
  BY ZenonT(30) DEF IInv
<1>. QED BY <1>1, <1>2, <1>3, PTL DEF Spec

(* A call that has moved bytes never suspends, and one that returns EAGAIN,*)
(* EINTR or EPIPE has moved none: the `total > 0` tests of read_user_buffer*)
(* and write_user_buffer are enough for both.                              *)
THEOREM CallsMoveAllOrReport == Spec => [](TransfersUnbroken /\ ErrorMovesNothing)
<1>1. Init => IInv
  BY InitIInv
<1>2. IInv /\ [Next]_vars => IInv'
  BY NextIInv
<1>3. IInv => TransfersUnbroken /\ ErrorMovesNothing
  BY ZenonT(30) DEF IInv
<1>. QED BY <1>1, <1>2, <1>3, PTL DEF Spec

-----------------------------------------------------------------------------
(* The pipe implements the byte stream.                                    *)

(* The bytes a read has copied leave the contents of the ring.             *)
LEMMA ReadChunkDrops ==
  ASSUME IInv, NEW n \in 1 .. len, n <= Capacity - head,
         head' = Wrap(head + n), len' = len - n, buf' = buf
  PROVE  Contents' = SubSeq(Contents, n + 1, len)
<1>1. head \in Nat /\ head < Capacity /\ len \in Nat /\ len <= Capacity /\ Capacity \in Nat /\ n \in Nat
  BY PipeAssumption DEF IInv, TypeOK, Slots
<1>2. Contents \in Seq(Bytes) /\ Len(Contents) = len
  BY ZenonT(30), ContentsType DEF IInv
<1>3. PICK m \in Nat : m = len - n
  BY <1>1
<1>4. /\ SubSeq(Contents, n + 1, len) \in Seq(Bytes)
      /\ Len(SubSeq(Contents, n + 1, len)) = m
      /\ \A i \in 1 .. m : SubSeq(Contents, n + 1, len)[i] = Contents[n + i]
  BY <1>1, <1>2, <1>3
<1>5. Contents' = [i \in 1 .. m |-> buf[Wrap(head' + i - 1)]]
  BY ZenonT(30), <1>3 DEF Contents
<1>6. \A i \in 1 .. m : buf[Wrap(head' + i - 1)] = Contents[n + i]
  <2>1. SUFFICES ASSUME NEW i \in 1 .. m PROVE buf[Wrap(head' + i - 1)] = Contents[n + i]
    BY ZenonT(30)
  <2>2. PICK k \in Nat : k = i - 1 /\ n + k < len
    BY <1>1, <1>3, <2>1
  <2>3. PICK h \in Nat : h = head' /\ h = IF head + n < Capacity THEN head + n ELSE head + n - Capacity
    <3>1. Wrap(head + n) = IF head + n < Capacity THEN head + n ELSE head + n - Capacity
      BY <1>1, WrapSum
    <3>. QED BY <1>1, <3>1
  <2>4. Wrap(h + k) = IF h + k < Capacity THEN h + k ELSE h + k - Capacity
    <3>1. h + k < 2 * Capacity
      BY <1>1, <2>2, <2>3
    <3>. QED BY ZenonT(30), <3>1, WrapSum
  <2>5. PICK p \in Nat : p = n + k
    BY <1>1, <2>2
  <2>6. Wrap(head + p) = IF head + p < Capacity THEN head + p ELSE head + p - Capacity
    <3>1. head + p < 2 * Capacity
      BY <1>1, <2>2, <2>5
    <3>. QED BY ZenonT(30), <1>1, <3>1, WrapSum
  <2>7. Wrap(h + k) = Wrap(head + p)
    BY <1>1, <2>2, <2>3, <2>4, <2>5, <2>6
  <2>8. head + (n + i) - 1 = head + p /\ h + i - 1 = h + k /\ n + i \in 1 .. len
    BY <1>1, <2>1, <2>2, <2>5
  <2>9. Contents[n + i] = buf[Wrap(head + p)]
    BY ZenonT(30), <2>8 DEF Contents
  <2>10. buf[Wrap(head' + i - 1)] = buf[Wrap(h + k)]
    BY ZenonT(30), <2>3, <2>8
  <2>. QED BY ZenonT(30), <2>7, <2>9, <2>10
<1>7. SubSeq(Contents, n + 1, len) = [i \in 1 .. m |-> SubSeq(Contents, n + 1, len)[i]]
  BY ZenonT(30), <1>4, LenProperties
<1>. QED BY ZenonT(30), <1>4, <1>5, <1>6, <1>7

(* A new pipe is an empty stream.                                          *)
LEMMA StreamInit == ASSUME Init PROVE Stream!Init
<1>1. Contents = <<>>
  BY DEF Init, Contents
<1>. QED BY ZenonT(30), <1>1 DEF Init, Stream!Init

(* A step that touches neither ring nor data nor ends is a stutter.        *)
LEMMA StreamStutter ==
  ASSUME UNCHANGED <<buf, head, len, got, wtodo, readOpen, writeOpen>>
  PROVE  UNCHANGED Stream!vars
<1>1. Contents' = Contents
  BY ZenonT(30) DEF Contents
<1>. QED BY ZenonT(30), <1>1 DEF Stream!vars

(* A return delivers the bytes of a read or gives up the rest of a write.  *)
LEMMA StreamReturn ==
  ASSUME IInv, NEW t \in Threads, op[t] \in {"read", "write"}, NEW ret, Return(t, ret)
  PROVE  Stream!Next
<1>1. Contents' = Contents /\ UNCHANGED <<readOpen, writeOpen>>
  BY ZenonT(30) DEF Return, ring, ends, Contents
<1>2. /\ wtodo' = [wtodo EXCEPT ![t] = <<>>] /\ got' = [got EXCEPT ![t] = <<>>]
      /\ wtodo \in [Threads -> Seq(Bytes)] /\ got \in [Threads -> Seq(Bytes)]
  BY ZenonT(30) DEF Return, IInv, TypeOK
<1>3. CASE op[t] = "read"
  <2>1. wtodo[t] = <<>>
    BY ZenonT(30), <1>3 DEF IInv, CallsOK
  <2>2. wtodo' = wtodo
    BY ZenonT(30), <1>2, <2>1
  <2>3. Stream!Deliver(t)
    BY ZenonT(30), <1>1, <1>2, <2>2 DEF Stream!Deliver
  <2>. QED BY ZenonT(30), <2>3 DEF Stream!Next
<1>4. CASE op[t] = "write"
  <2>1. got[t] = <<>>
    BY ZenonT(30), <1>4 DEF IInv, CallsOK
  <2>2. got' = got
    BY ZenonT(30), <1>2, <2>1
  <2>3. wtodo'[t] = <<>>
    BY ZenonT(30), <1>2
  <2>4. Stream!Offer(t)
    BY ZenonT(30), <1>1, <1>2, <2>2, <2>3 DEF Stream!Offer
  <2>. QED BY ZenonT(30), <2>4 DEF Stream!Next
<1>. QED BY ZenonT(30), <1>3, <1>4

(* A turn that cannot go on leaves the stream alone, or ends a call on it. *)
LEMMA StreamCannotProgress ==
  ASSUME IInv, NEW t \in Threads, op[t] \in {"read", "write"}, CannotProgress(t)
  PROVE  [Stream!Next]_Stream!vars
<1>1. CASE \E ret \in {"EAGAIN", "EINTR"} : Return(t, ret)
  BY ZenonT(30), <1>1, StreamReturn
<1>2. CASE UNCHANGED <<ring, ends, calls, pending>>
  BY ZenonT(30), <1>2, StreamStutter DEF ring, ends, calls
<1>. QED BY ZenonT(30), <1>1, <1>2 DEF CannotProgress

(* The turns of a read are steps of the stream.                            *)
LEMMA StreamRead ==
  ASSUME IInv, NEW t \in Threads, NEW slice \in 1 .. rtodo[t], ReadChunk(t, slice)
  PROVE  Stream!Next
<1>1. PICK n \in 1 .. len :
           /\ n <= Capacity - head
           /\ got' = [got EXCEPT ![t] = @ \o SubSeq(Contents, 1, n)]
           /\ head' = Wrap(head + n)
           /\ len' = len - n
  BY ZenonT(30), ReadChunkFacts
<1>2. UNCHANGED <<buf, readOpen, writeOpen, wtodo>> /\ readOpen
  BY ZenonT(30) DEF ReadChunk, ends, IInv, CallsOK
<1>3. Contents' = SubSeq(Contents, n + 1, len)
  BY ZenonT(30), <1>1, <1>2, ReadChunkDrops
<1>4. Len(Contents) = len
  BY ZenonT(30), ContentsType DEF IInv
<1>5. Stream!Take(t, n)
  BY ZenonT(30), <1>1, <1>2, <1>3, <1>4 DEF Stream!Take
<1>6. n \in 1 .. Capacity
  BY <1>1, PipeAssumption DEF IInv, TypeOK
<1>. QED BY ZenonT(30), <1>5, <1>6 DEF Stream!Next

(* The turns of a write are steps of the stream.                           *)
LEMMA StreamWrite ==
  ASSUME IInv, NEW t \in Threads, NEW slice \in 1 .. Len(wtodo[t]), WriteChunk(t, slice)
  PROVE  Stream!Next
<1>1. PICK n \in 1 .. Len(wtodo[t]) :
           /\ n <= Capacity - len
           /\ wtodo' = [wtodo EXCEPT ![t] = SubSeq(@, n + 1, Len(@))]
           /\ Contents' = Contents \o SubSeq(wtodo[t], 1, n)
  BY ZenonT(30), WriteChunkFacts
<1>2. UNCHANGED <<readOpen, writeOpen, got>> /\ readOpen /\ writeOpen
  BY ZenonT(30) DEF WriteChunk, ends, IInv, CallsOK
<1>3. Len(Contents) = len
  BY ZenonT(30), ContentsType DEF IInv
<1>4. /\ len \in Nat /\ Capacity \in Nat /\ Len(wtodo[t]) \in Nat
  BY PipeAssumption DEF IInv, TypeOK
<1>5. Len(Contents) + n <= Capacity /\ n \in 1 .. Capacity
  BY <1>1, <1>3, <1>4
<1>6. Stream!Put(t, n)
  BY ZenonT(30), <1>1, <1>2, <1>5 DEF Stream!Put
<1>. QED BY ZenonT(30), <1>5, <1>6 DEF Stream!Next

(* Every step of a pipe is one of the stream, or a stutter.                *)
LEMMA StreamStep ==
  ASSUME IInv, [Next]_vars
  PROVE  [Stream!Next]_Stream!vars
<1>1. ASSUME NEW t \in Threads, ReadEnd(t) PROVE [Stream!Next]_Stream!vars
  BY ZenonT(30), <1>1, StreamReturn, StreamCannotProgress DEF ReadEnd
<1>2. ASSUME NEW t \in Threads, WriteEnd(t) PROVE [Stream!Next]_Stream!vars
  BY ZenonT(30), <1>2, StreamReturn, StreamCannotProgress DEF WriteEnd
<1>3. ASSUME NEW t \in Threads, NEW r \in Reads, StartRead(t, r) PROVE [Stream!Next]_Stream!vars
  BY ZenonT(30), <1>3, StreamStutter DEF StartRead, ring, ends
<1>4. ASSUME NEW t \in Threads, NEW w \in Writes, StartWrite(t, w) PROVE [Stream!Next]_Stream!vars
  <2>1. Contents' = Contents /\ UNCHANGED <<got, readOpen, writeOpen>>
    BY ZenonT(30), <1>4 DEF StartWrite, ring, ends, Contents
  <2>2. wtodo[t] = <<>> /\ writeOpen /\ w \in Seq(Bytes) /\ wtodo \in [Threads -> Seq(Bytes)]
    BY ZenonT(30), <1>4, PipeAssumption DEF StartWrite, IInv, CallsOK, TypeOK
  <2>3. wtodo' = [wtodo EXCEPT ![t] = w]
    BY ZenonT(30), <1>4 DEF StartWrite
  <2>4. wtodo'[t] = w
    BY ZenonT(30), <2>2, <2>3
  <2>5. Stream!Offer(t)
    BY ZenonT(30), <2>1, <2>2, <2>3, <2>4 DEF Stream!Offer
  <2>. QED BY ZenonT(30), <2>5 DEF Stream!Next
<1>5. ASSUME NEW t \in Threads, Signal(t) PROVE [Stream!Next]_Stream!vars
  BY ZenonT(30), <1>5, StreamStutter DEF Signal, ring, ends, calls
<1>6. ASSUME NEW e, NEW flag, SetStatusFlags(e, flag) PROVE [Stream!Next]_Stream!vars
  BY ZenonT(30), <1>6, StreamStutter DEF SetStatusFlags, ring, calls
<1>7. CASE CloseRead
  <2>1. Contents' = Contents /\ UNCHANGED <<got, wtodo, writeOpen>> /\ readOpen' = FALSE
    BY ZenonT(30), <1>7 DEF CloseRead, ring, calls, Contents
  <2>. QED BY ZenonT(30), <2>1 DEF Stream!CloseRead, Stream!Next
<1>8. CASE CloseWrite
  <2>1. Contents' = Contents /\ UNCHANGED <<got, wtodo, readOpen>> /\ writeOpen' = FALSE
    BY ZenonT(30), <1>8 DEF CloseWrite, ring, calls, Contents
  <2>2. \A t \in Threads : wtodo[t] = <<>>
    BY ZenonT(30), <1>8 DEF CloseWrite, IInv, CallsOK
  <2>. QED BY ZenonT(30), <2>1, <2>2 DEF Stream!CloseWrite, Stream!Next
<1>9. CASE UNCHANGED vars
  BY ZenonT(30), <1>9, StreamStutter DEF vars, ring, ends, calls
<1>. QED BY ZenonT(30), <1>1, <1>2, <1>3, <1>4, <1>5, <1>6, <1>7, <1>8, <1>9, StreamRead, StreamWrite DEF Next, Step

(* The ring with its polling readers and writers implements a bounded      *)
(* first-in first-out byte stream: no byte is lost, duplicated, reordered  *)
(* or written after the reading end is closed.                             *)
THEOREM PipeIsByteStream == Spec => StreamSpec
<1>1. Init => IInv /\ Stream!Init
  BY ZenonT(30), InitIInv, StreamInit
<1>2. IInv /\ [Next]_vars => IInv' /\ [Stream!Next]_Stream!vars
  BY ZenonT(30), NextIInv, StreamStep
<1>. QED BY <1>1, <1>2, PTL DEF Spec, StreamSpec, Stream!Spec

(* A read returns 0 bytes only when the writing end is closed and the ring *)
(* is empty: the early returns of read are reached in no other way.        *)
THEOREM ZeroReadMeansEOF == Spec => ZeroMeansEOF
<1>1. ASSUME IInv, Next, NEW t \in Threads, op[t] = "read", op'[t] = "none",
             result'[t] = [ret |-> "ok", bytes |-> 0]
      PROVE  ~writeOpen /\ len = 0
  <2>1. ReadEnd(t)
    <3>1. ASSUME NEW u \in Threads, ReadEnd(u) \/ WriteEnd(u), u # t PROVE op'[t] = op[t]
      BY ZenonT(30), <1>1, <3>1 DEF ReadEnd, WriteEnd, CannotProgress, Return, calls, IInv, TypeOK
    <3>2. ~WriteEnd(t)
      BY ZenonT(30), <1>1 DEF WriteEnd
    <3>3. ASSUME NEW u \in Threads, NEW r, StartRead(u, r) \/ StartWrite(u, r) \/ ReadChunk(u, r) \/ WriteChunk(u, r) \/ Signal(u)
          PROVE  op'[t] # "none"
      BY ZenonT(30), <1>1, <3>3 DEF StartRead, StartWrite, ReadChunk, WriteChunk, Signal, calls, IInv, TypeOK
    <3>4. ASSUME CloseRead \/ CloseWrite \/ \E e \in {"read", "write"}, flag \in BOOLEAN : SetStatusFlags(e, flag)
          PROVE  op' = op
      BY ZenonT(30), <3>4 DEF CloseRead, CloseWrite, SetStatusFlags, calls
    <3>. QED BY ZenonT(30), <1>1, <3>1, <3>2, <3>3, <3>4 DEF Next, Step
  <2>2. CASE ReadStops(t)
    <3>1. Return(t, "ok")
      BY ZenonT(30), <2>1, <2>2 DEF ReadEnd
    <3>2. total[t] = 0
      BY ZenonT(30), <1>1, <3>1 DEF Return, IInv, TypeOK
    <3>3. rtodo[t] # 0
      <4>1. total[t] > 0 \/ rtodo[t] > 0
        BY ZenonT(30), <1>1 DEF IInv, CallsOK
      <4>. QED BY <3>2, <4>1
    <3>4. rtodo[t] = 0 \/ len = 0
      BY ZenonT(30), <2>1 DEF ReadEnd
    <3>5. total[t] > 0 \/ rtodo[t] = 0 \/ ~writeOpen
      BY ZenonT(30), <2>2 DEF ReadStops
    <3>. QED BY <3>2, <3>3, <3>4, <3>5
  <2>3. CASE ~ReadStops(t)
    <3>1. Return(t, "EAGAIN") \/ Return(t, "EINTR") \/ op' = op
      BY ZenonT(30), <2>1, <2>3 DEF ReadEnd, CannotProgress, calls
    <3>2. result \in [Threads -> [ret : {"none", "ok", "EAGAIN", "EINTR", "EPIPE"}, bytes : Nat]]
      BY ZenonT(30), <1>1 DEF IInv, TypeOK
    <3>3. ASSUME NEW e \in {"EAGAIN", "EINTR"}, Return(t, e) PROVE FALSE
      <4>1. result'[t] = [ret |-> e, bytes |-> total[t]]
        BY ZenonT(30), <3>2, <3>3 DEF Return
      <4>2. result'[t].ret = e /\ result'[t].ret = "ok"
        BY <1>1, <4>1
      <4>. QED BY ZenonT(30), <3>3, <4>2
    <3>. QED BY ZenonT(30), <1>1, <3>1, <3>3
  <2>. QED BY ZenonT(30), <2>2, <2>3
<1>2. IInv /\ [Next]_vars => [\A t \in Threads :
        (op[t] = "read" /\ op'[t] = "none" /\ result'[t] = [ret |-> "ok", bytes |-> 0]) => ~writeOpen /\ len = 0]_vars
  BY ZenonT(30), <1>1
<1>3. Init => IInv
  BY InitIInv
<1>4. IInv /\ [Next]_vars => IInv'
  BY NextIInv
<1>. QED BY <1>2, <1>3, <1>4, PTL DEF Spec, ZeroMeansEOF

=============================================================================
