------------------------------- MODULE EasyFs -------------------------------
(***************************************************************************)
(* The file system of the easy-fs crate: bitmaps (bitmap.rs), inodes with  *)
(* direct, indirect and doubly indirect blocks (layout.rs), the operations *)
(* on files and directories (vfs.rs) and their allocation of inodes and    *)
(* blocks (efs.rs).  Every operation runs under the lock of the file       *)
(* system.  A block is an array of cells: a cell stands for a byte, for a  *)
(* directory entry or for a block number.                                  *)
(***************************************************************************)
EXTENDS Integers, FiniteSets, SequencesExt

CONSTANTS BLOCK_SZ,              \* cells of a block; also INODE_INDIRECT1_COUNT
          INODE_DIRECT_COUNT,
          DATA_BLOCKS, INODES,   \* sizes of the data area and of the inode area
          Names, Offsets, Lengths,
          Repertoires            \* bounds: what the programs of a behaviour may do

ASSUME EasyFsAssumption ==
  /\ {BLOCK_SZ, INODE_DIRECT_COUNT, DATA_BLOCKS, INODES} \subseteq Nat \ {0}
  /\ Names \subseteq Nat \ {0} /\ Offsets \subseteq Nat /\ Lengths \subseteq Nat \ {0}
  /\ Repertoires \subseteq [names : SUBSET Names, offsets : SUBSET Offsets, inodes : 1 .. INODES, subdirs : SUBSET BOOLEAN]

VARIABLES inode_bitmap, data_bitmap,  \* the bits that are set
          inodes,                     \* DiskInode
          blocks,                     \* contents of the data area
          uses                        \* the repertoire, fixed

easyFsVars == <<inode_bitmap, data_bitmap, inodes, blocks, uses>>

(* Block 0 is the superblock, so 0 is no block of a file; the data area is *)
(* taken to start at block 1.                                              *)
InodeIds == 0 .. INODES - 1
DataIds == 1 .. DATA_BLOCKS
Cells == 0 .. BLOCK_SZ - 1
ZeroBlock == [o \in Cells |-> 0]
INDIRECT1_BOUND == INODE_DIRECT_COUNT + BLOCK_SZ
MaxBlocks == INDIRECT1_BOUND + BLOCK_SZ * BLOCK_SZ

(* DiskInode::initialize.                                                  *)
NewInode(dir) == [size |-> 0, direct |-> [k \in 0 .. INODE_DIRECT_COUNT - 1 |-> 0],
                  indirect1 |-> 0, indirect2 |-> 0, dir |-> dir]

(* EasyFileSystem::create: everything zero, and inode 0 the root.          *)
EasyFsInit ==
  /\ inode_bitmap = {0}
  /\ data_bitmap = {}
  /\ inodes = [i \in InodeIds |-> NewInode(i = 0)]
  /\ blocks = [b \in DataIds |-> ZeroBlock]
  /\ uses \in Repertoires

-----------------------------------------------------------------------------
(* Bitmap::alloc takes the first clear bit; the blocks that alloc_data     *)
(* returns to a caller that asks n times.                                  *)
FreeBlocks == DataIds \ data_bitmap
AllocData(n) == [j \in 1 .. n |-> CHOOSE b \in FreeBlocks : Cardinality({c \in FreeBlocks : c < b}) = j - 1]
AllocInode == CHOOSE i \in InodeIds \ inode_bitmap : \A j \in InodeIds \ inode_bitmap : i <= j

(* _data_blocks and total_blocks, with those for the indirect blocks.      *)
CeilDiv(a, b) == (a + b - 1) \div b
DataBlocksOf(size) == CeilDiv(size, BLOCK_SZ)
TotalBlocks(size) ==
  LET n == DataBlocksOf(size)
  IN  n + (IF n > INODE_DIRECT_COUNT THEN 1 ELSE 0)
        + (IF n > INDIRECT1_BOUND THEN 1 + CeilDiv(n - INDIRECT1_BOUND, BLOCK_SZ) ELSE 0)

(* get_block_id, among the blocks blk.                                     *)
GetBlockId(ino, blk, k) ==
  LET last == k - INDIRECT1_BOUND
  IN  CASE k < INODE_DIRECT_COUNT -> ino.direct[k]
        [] k >= INODE_DIRECT_COUNT /\ k < INDIRECT1_BOUND -> blk[ino.indirect1][k - INODE_DIRECT_COUNT]
        [] OTHER -> blk[blk[ino.indirect2][last \div BLOCK_SZ]][last % BLOCK_SZ]

(* increase_size enters data block k of the file, the indirect blocks that *)
(* it needs first, from the list v of new blocks.                          *)
Next1(s) == [s EXCEPT !.v = Tail(@)]
PutDirect(s, k) == Next1([s EXCEPT !.ino.direct[k] = Head(s.v)])
PutIndirect1(s, k) ==
  LET r == IF k = INODE_DIRECT_COUNT THEN Next1([s EXCEPT !.ino.indirect1 = Head(s.v)]) ELSE s
  IN  Next1([r EXCEPT !.blk[r.ino.indirect1][k - INODE_DIRECT_COUNT] = Head(r.v)])
PutIndirect2(s, k) ==
  LET last == k - INDIRECT1_BOUND
      a == last \div BLOCK_SZ
      b == last % BLOCK_SZ
      r == IF last = 0 THEN Next1([s EXCEPT !.ino.indirect2 = Head(s.v)]) ELSE s
      q == IF b = 0 THEN Next1([r EXCEPT !.blk[r.ino.indirect2][a] = Head(r.v)]) ELSE r
  IN  Next1([q EXCEPT !.blk[q.blk[q.ino.indirect2][a]][b] = Head(q.v)])
PutBlock(s, k) == CASE k < INODE_DIRECT_COUNT -> PutDirect(s, k)
                    [] k >= INODE_DIRECT_COUNT /\ k < INDIRECT1_BOUND -> PutIndirect1(s, k)
                    [] OTHER -> PutIndirect2(s, k)

(* Inode::increase_size: allocate what the new size needs and enter it.    *)
Enlarged(ino, size) ==
  LET v == AllocData(TotalBlocks(size) - TotalBlocks(ino.size))
      old == DataBlocksOf(ino.size)
      new == [j \in 1 .. DataBlocksOf(size) - old |-> old + j - 1]
  IN  [FoldLeft(PutBlock, [ino |-> [ino EXCEPT !.size = size], blk |-> blocks, v |-> v], new)
         EXCEPT !.v = ToSet(v)]
GrownInode(ino, size) == IF size < ino.size THEN [ino |-> ino, blk |-> blocks, v |-> {}] ELSE Enlarged(ino, size)
Fits(i, size) ==
  /\ DataBlocksOf(size) <= MaxBlocks
  /\ TotalBlocks(size) - TotalBlocks(inodes[i].size) <= Cardinality(FreeBlocks)

(* DiskInode::read_at of the whole file, and write_at.                     *)
Contents(i) == [x \in 1 .. inodes[i].size |->
                  blocks[GetBlockId(inodes[i], blocks, (x - 1) \div BLOCK_SZ)][(x - 1) % BLOCK_SZ]]
WrittenAt_SameBlock(ino, blk, off, buf) ==
  LET place == [x \in 1 .. Len(buf) |->
                  <<GetBlockId(ino, blk, off \div BLOCK_SZ), (off + x - 1) % BLOCK_SZ>>]
      at(b, o) == {x \in 1 .. Len(buf) : place[x] = <<b, o>>}
  IN  [b \in DataIds |-> [o \in Cells |->
         IF at(b, o) = {} THEN blk[b][o] ELSE buf[CHOOSE x \in at(b, o) : TRUE]]]
WrittenAt(ino, blk, off, buf) ==
  LET place == [x \in 1 .. Len(buf) |->
                  <<GetBlockId(ino, blk, (off + x - 1) \div BLOCK_SZ), (off + x - 1) % BLOCK_SZ>>]
      at(b, o) == {x \in 1 .. Len(buf) : place[x] = <<b, o>>}
  IN  [b \in DataIds |-> [o \in Cells |->
         IF at(b, o) = {} THEN blk[b][o] ELSE buf[CHOOSE x \in at(b, o) : TRUE]]]

(* increase_size, then write_at, on inode i of the inodes all.  Running    *)
(* out of blocks, or of block numbers, is a panic: unwrap on None.         *)
WriteTo(all, i, off, buf) ==
  /\ Fits(i, off + Len(buf))
  /\ \E g \in {GrownInode(all[i], off + Len(buf))} :
       /\ inodes' = [all EXCEPT ![i] = g.ino]
       /\ blocks' = WrittenAt(g.ino, g.blk, off, buf)
       /\ data_bitmap' = data_bitmap \cup g.v

(* DirEntry, as one number; find_inode_id.                                 *)
DirEntry(n, i) == n * INODES + i
EntryName(c) == c \div INODES
EntryInode(c) == c % INODES
Dirents(d) == ToSet(Contents(d))
Find(d, n) == {EntryInode(c) : c \in {c \in Dirents(d) : EntryName(c) = n}}

(* The directories that a path leads to: one whose parent was truncated is *)
(* lost to every path.                                                     *)
Subdirs(ds) == {i \in UNION {{EntryInode(c) : c \in Dirents(d)} : d \in ds} : inodes[i].dir}
Reachable == FoldLeft(LAMBDA ds, k : ds \cup Subdirs(ds), {0}, [k \in 1 .. INODES |-> k])

-----------------------------------------------------------------------------
(* Inode::create and create_dir: nothing for a name that exists, a panic   *)
(* when no inode is free.                                                  *)
Create(d, n, isdir) ==
  /\ d \in Reachable
  /\ Find(d, n) = {}
  /\ inode_bitmap # InodeIds
  /\ inode_bitmap' = inode_bitmap \cup {AllocInode}
  /\ WriteTo([inodes EXCEPT ![AllocInode] = NewInode(isdir)], d, inodes[d].size, <<DirEntry(n, AllocInode)>>)

(* Inode::write_at through a file that is open, and so maybe of a lost     *)
(* directory.  File i is written with the value i.                         *)
WriteAt(i, off, len) ==
  /\ i \in inode_bitmap /\ ~inodes[i].dir
  /\ WriteTo(inodes, i, off, [x \in 1 .. len |-> i])
  /\ UNCHANGED inode_bitmap

(* clear_size: the blocks of a file, in the order they are collected.      *)
Entries(b, n) == [j \in 1 .. n |-> blocks[b][j - 1]]
AtMost(a, b) == IF a < b THEN a ELSE b
ClearSize(ino) ==
  LET n == DataBlocksOf(ino.size)
      n1 == n - INODE_DIRECT_COUNT
      n2 == n1 - BLOCK_SZ
      sub(a) == <<blocks[ino.indirect2][a]>> \o Entries(blocks[ino.indirect2][a], AtMost(n2 - a * BLOCK_SZ, BLOCK_SZ))
  IN  [k \in 1 .. AtMost(n, INODE_DIRECT_COUNT) |-> ino.direct[k - 1]]
      \o (IF n1 > 0 THEN <<ino.indirect1>> \o Entries(ino.indirect1, AtMost(n1, BLOCK_SZ)) ELSE <<>>)
      \o (IF n2 > 0 THEN <<ino.indirect2>> \o FlattenSeq([a \in 1 .. CeilDiv(n2, BLOCK_SZ) |-> sub(a - 1)]) ELSE <<>>)
EmptyInode(ino) == NewInode(ino.dir)

(* EasyFileSystem::dealloc_data.                                           *)
Zeroed_Not(bs) == blocks
Zeroed(bs) == [b \in DataIds |-> IF b \in bs THEN ZeroBlock ELSE blocks[b]]

(* Inode::clear, from open with O_TRUNC: directories are not refused.      *)
ClearInode(i) ==
  LET v == ClearSize(inodes[i])
  IN  /\ inodes' = [inodes EXCEPT ![i] = EmptyInode(@)]
      /\ data_bitmap' = data_bitmap \ ToSet(v)
      /\ blocks' = Zeroed(ToSet(v))
      /\ UNCHANGED inode_bitmap
Clear(i) ==
  /\ i \in IF inodes[i].dir THEN Reachable ELSE inode_bitmap
  /\ ClearInode(i)

(* VfsInode::truncate_to, from truncate and ftruncate, which refuse        *)
(* directories: a shorter file is emptied.                                 *)
EfsTruncateTo(i, size) ==
  /\ i \in inode_bitmap /\ ~inodes[i].dir
  /\ size # inodes[i].size
  /\ IF size > inodes[i].size
     THEN WriteTo(inodes, i, size - 1, <<0>>) /\ UNCHANGED inode_bitmap
     ELSE ClearInode(i)

EasyFsNext ==
  /\ \/ \E d \in InodeIds, n \in uses.names, isdir \in uses.subdirs :
          Cardinality(inode_bitmap) < uses.inodes /\ Create(d, n, isdir)
     \/ \E i \in InodeIds, off \in uses.offsets, len \in Lengths : WriteAt(i, off, len)
     \/ \E i \in InodeIds : Clear(i)
     \/ \E i \in InodeIds, off \in uses.offsets : EfsTruncateTo(i, off + 1)
  /\ UNCHANGED uses
-----------------------------------------------------------------------------
(* An inode that is in use has exactly the block numbers that its size     *)
(* calls for: direct blocks up to its end, the indirect ones only beyond   *)
(* the direct ones (DiskInode::increase_size, clear_size).                 *)
InodesTyped ==
  /\ inode_bitmap \subseteq InodeIds /\ data_bitmap \subseteq DataIds
  /\ blocks \in [DataIds -> [Cells -> Nat]]
  /\ \A i \in InodeIds :
       LET n == DataBlocksOf(inodes[i].size)
       IN  /\ \A k \in DOMAIN inodes[i].direct : inodes[i].direct[k] \in IF k < n THEN DataIds ELSE {0}
           /\ inodes[i].indirect1 \in IF n > INODE_DIRECT_COUNT THEN DataIds ELSE {0}
           /\ inodes[i].indirect2 \in IF n > INDIRECT1_BOUND THEN DataIds ELSE {0}

(* The bit of a data block is set exactly when one inode has the block, as *)
(* data or as an indirect block, in one place, and inodes have the blocks  *)
(* their sizes call for.  So truncating frees what growing took: clear's   *)
(* assert on the number of blocks and dealloc's assert that the bit is set *)
(* hold, no block is leaked and none is shared.  And a free block is all   *)
(* zero, whatever it was part of, which lets increase_size take it for a   *)
(* hole or as an indirect block as it is.                                  *)
BlocksExact ==
  /\ InodesTyped
  /\ \A i \in InodeIds : /\ Len(ClearSize(inodes[i])) = TotalBlocks(inodes[i].size)
                         /\ IsInjective(ClearSize(inodes[i]))
  /\ \A i, j \in InodeIds : i # j => ToSet(ClearSize(inodes[i])) \cap ToSet(ClearSize(inodes[j])) = {}
  /\ data_bitmap = UNION {ToSet(ClearSize(inodes[i])) : i \in inode_bitmap}
  /\ \A b \in FreeBlocks : blocks[b] = ZeroBlock

Dirs == {i \in inode_bitmap : inodes[i].dir}
Tree == INSTANCE FileTree WITH
  Ids <- InodeIds,
  Bufs <- {[x \in 1 .. len |-> v] : len \in Lengths, v \in InodeIds},
  entries <- UNION {{<<d, EntryName(c), EntryInode(c)>> : c \in Dirents(d)} : d \in Dirs},
  dirs <- Dirs,
  bytes <- [i \in inode_bitmap |-> IF inodes[i].dir THEN <<>> ELSE Contents(i)]

(* Through every mix of creations, writes beyond and inside the file and   *)
(* truncations, the blocks, bitmaps and inodes are a tree of files: names  *)
(* lead to the file they were created for and each file reads as what was  *)
(* last written to it, zero where nothing was (vfs.rs over layout.rs).     *)
ActsAsTree == Tree!Init /\ [][UNCHANGED easyFsVars \/ Tree!Next]_(Tree!vars)
=============================================================================
