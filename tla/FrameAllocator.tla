--------------------------- MODULE FrameAllocator ---------------------------
(***************************************************************************)
(* The physical frame allocator (os/src/mm/frame_allocator.rs): a bump     *)
(* pointer `current` up to `end` and a stack `recycled` of returned        *)
(* frames, used by three kinds of owner: FrameTracker values, the nodes of *)
(* page tables (whose tracker is forgotten and freed by ppn) and the DMA   *)
(* blocks of the virtio drivers, which must be contiguous.                 *)
(***************************************************************************)
EXTENDS Integers, Sequences

CONSTANTS Start,     \* first frame after the kernel image (ekernel, rounded up)
          End,       \* first frame past MEMORY_END
          MaxPages   \* largest DMA block a driver asks for

ASSUME RangeAssumption == /\ Start \in Nat
                          /\ End \in Nat
                          /\ Start <= End
                          /\ MaxPages \in Nat

VARIABLES current,   \* StackFrameAllocator.current
          recycled,  \* StackFrameAllocator.recycled, a stack
          trackers,  \* frames owned by a FrameTracker or by a page table
          dma        \* DMA blocks handed to the virtio drivers

frameVars == <<current, recycled, trackers, dma>>

AllFrames == Start .. End - 1

\* The frames of a DMA block: its base and the pages above it.
BlockFrames(b) == b.base .. b.base + b.pages - 1

DmaFrames == UNION {BlockFrames(b) : b \in dma}

RecycledSet == {recycled[i] : i \in 1 .. Len(recycled)}

FramesInit ==
  /\ current = Start
  /\ recycled = <<>>
  /\ trackers = {}
  /\ dma = {}

(* alloc when a frame was returned earlier: the last one is reused.        *)
AllocRecycled ==
  /\ recycled # <<>>
  /\ recycled' = SubSeq(recycled, 1, Len(recycled) - 1)
  /\ trackers' = trackers \cup {recycled[Len(recycled)]}
  /\ UNCHANGED <<current, dma>>

(* alloc from the untouched range; at `end` it returns None.               *)
AllocFresh ==
  /\ recycled = <<>>
  /\ current # End
  /\ current' = current + 1
  /\ trackers' = trackers \cup {current}
  /\ UNCHANGED <<recycled, dma>>

(* Mutant: the validity check compares with <= instead of <, off by one.   *)
DeallocAccepts_OffByOne(ppn) == ppn + 1 < current /\ ppn \notin RecycledSet

(* The guard of dealloc: anything else panics "has not been allocated".    *)
DeallocAccepts(ppn) == ppn < current /\ ppn \notin RecycledSet

(* FrameTracker::drop, or a page table freeing one of its nodes.           *)
DropTracker(ppn) ==
  /\ ppn \in trackers
  /\ DeallocAccepts(ppn)
  /\ recycled' = Append(recycled, ppn)
  /\ trackers' = trackers \ {ppn}
  /\ UNCHANGED <<current, dma>>

(* The test of alloc_more: it never looks at `recycled`, and refuses the   *)
(* request that would use the very last frame.                             *)
MoreFits(pages) == current + pages < End

(* dma_alloc: alloc_more lists the block from its top frame downwards and  *)
(* the driver takes the last entry of that list as its base.               *)
DmaAlloc(pages) ==
  /\ MoreFits(pages)
  /\ current' = current + pages
  /\ dma' = dma \cup {[base |-> current, pages |-> pages]}
  /\ UNCHANGED <<recycled, trackers>>

(* dma_dealloc: the pages of the block are returned from the base up.      *)
DmaDealloc(b) ==
  /\ b \in dma
  /\ \A ppn \in BlockFrames(b) : DeallocAccepts(ppn)
  /\ recycled' = recycled \o [i \in 1 .. b.pages |-> b.base + i - 1]
  /\ dma' = dma \ {b}
  /\ UNCHANGED <<current, trackers>>

FramesNext ==
  \/ AllocRecycled
  \/ AllocFresh
  \/ \E ppn \in trackers : DropTracker(ppn)
  \/ \E pages \in 1 .. MaxPages : DmaAlloc(pages)
  \/ \E b \in dma : DmaDealloc(b)

FramesSpec == FramesInit /\ [][FramesNext]_frameVars

-----------------------------------------------------------------------------
(* Type invariant: the bump pointer stays in range and every frame in play *)
(* lies below it.                                                          *)
FramesTypeOK ==
  /\ current \in Start .. End
  /\ recycled \in Seq(AllFrames)
  /\ trackers \subseteq AllFrames
  /\ dma \subseteq [base : AllFrames, pages : 1 .. MaxPages]

(* Every frame below `current` has exactly one owner: a tracker, a DMA     *)
(* block or one slot of the recycled stack.  A frame with two owners is    *)
(* memory corruption, one with none is leaked; this is what keeps          *)
(* frame_allocator.rs:91 from panicking on a legitimate drop.              *)
OneOwner ==
  /\ trackers \cup DmaFrames \cup RecycledSet = Start .. current - 1
  /\ trackers \cap DmaFrames = {}
  /\ (trackers \cup DmaFrames) \cap RecycledSet = {}
  /\ \A i, j \in 1 .. Len(recycled) : recycled[i] = recycled[j] => i = j
  /\ \A b, c \in dma : b # c => BlockFrames(b) \cap BlockFrames(c) = {}

(* The panic of dealloc (frame_allocator.rs:91) is never reached by an     *)
(* owner that returns what it holds.                                       *)
DropNeverPanics == \A ppn \in trackers \cup DmaFrames : DeallocAccepts(ppn)

(* Frames are accounted for exactly: the three above, after any sequence   *)
(* of alloc, alloc_more, dealloc and drops.                                *)
FramesExact == FramesTypeOK /\ OneOwner /\ DropNeverPanics
=============================================================================
