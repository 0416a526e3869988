-------------------------------- MODULE Ext4 --------------------------------
(* The ext4 inodes of the VFS (os/src/fs/vfs/ext4/inode.rs), found by path    *)
(* (os/src/fs/vfs/core.rs).  An Ext4Inode is a path and a kind; what is on    *)
(* the disk is asked from lwext4, and what it answers about a path is kept in *)
(* caches keyed by that path.  An operator takes a state s of the disk and    *)
(* the caches and gives the next one, so that a call is their composition:    *)
(*   entry    path -> inode number, 0 for none       (external: lwext4)       *)
(*   inode    inode number -> what the disk holds     (external: lwext4)      *)
(*   meta     EXT4_METADATA_CACHE                                             *)
(*   xattr    EXT4_XATTR_CACHE, for one attribute name                        *)
(*   xlist    EXT4_LISTXATTR_CACHE                                            *)
(*   excused  history: paths whose cached answers another name of the file,   *)
(*            an earlier file of the name or the removal of the directory     *)
(*            above it has made stale                                         *)
(*   writers  history: the open files that changed each inode's length, 0     *)
(*            for a path or when the inode is no longer the one first made    *)
EXTENDS Naturals, Sequences, FiniteSets

CONSTANTS Comps,      \* bound: names of directory entries
          MaxDepth    \* bound: components of a path

ASSUME Ext4Assumption == MaxDepth \in Nat \ {0}

Paths == {SubSeq(f, 1, Len(f)) : f \in UNION {[1..n -> Comps] : n \in 0..MaxDepth}}
Inos(s) == DOMAIN s.inode
None == [kind |-> "none"]
NoTarget == [abs |-> FALSE, comps |-> <<>>]
Absent == "absent"
Unknown == "unknown"
Heads(p) == {SubSeq(p, 1, n) : n \in 1..Len(p)}
Parent(p) == SubSeq(p, 1, Len(p) - 1)
Under(d, p) == Len(p) > Len(d) /\ SubSeq(p, 1, Len(d)) = d
Node(kind, target, mode) ==
  [kind |-> kind, ino |-> 0, nlink |-> 1, size |-> 0, mode |-> mode, uid |-> 0, gid |-> 0,
   target |-> target, xa |-> Absent]

(* ext4_raw_metadata: what the disk says of a path.                           *)
Raw(s, p) == IF p \in Paths /\ s.entry[p] # 0 THEN s.inode[s.entry[p]] ELSE None

(* ext4_cached_metadata: the answer about one path.                           *)
Meta(s, p) == IF p \in Paths /\ s.meta[p] # None THEN s.meta[p] ELSE Raw(s, p)

(* resolve_inode: every component is looked up, through the cache, in the     *)
(* directory before it.                                                       *)
Exists(s, p) ==
  /\ p \in Paths
  /\ \A q \in Heads(p) : Meta(s, q) # None
  /\ \A q \in Heads(p) \ {p} : Meta(s, q).kind = "dir"
IsDir(s, p) == p = <<>> \/ (Exists(s, p) /\ Meta(s, p).kind = "dir")

(* What looking the path up leaves in the cache.  An answer that there is no  *)
(* such path is not remembered.                                               *)
Looked(s, p) ==
  [s EXCEPT !.meta = [q \in Paths |-> IF q \in Heads(p) /\ Exists(s, q) THEN Meta(s, q) ELSE s.meta[q]]]

(* size() asks the metadata cache, readlink the disk.                         *)
Size(s, p) == IF Meta(s, p) = None THEN 0 ELSE Meta(s, p).size
ReadLink(s, p) == IF Exists(s, p) /\ Raw(s, p).kind = "link" THEN Raw(s, p).target ELSE NoTarget

(* ext4_cache_remove_path.                                                    *)
Uncached(s, p) == [s EXCEPT !.meta[p] = None, !.xattr[p] = Unknown, !.xlist[p] = Unknown, !.excused = @ \ {p}]
Cached(s, p) == s.meta[p] # None \/ s.xattr[p] # Unknown \/ s.xlist[p] # Unknown

(* External: lwext4 takes a free inode, and has none on a full disk.          *)
FreeInos(s) == {i \in Inos(s) : s.inode[i] = None}
Fresh(s) == CHOOSE i \in FreeInos(s) : \A j \in FreeInos(s) : i <= j

(* create, create_dir, symlink and mknod, once lwext4 has found the parent.   *)
CanMake(s, p) == p \in Paths \ {<<>>} /\ FreeInos(s) # {} /\ Raw(s, p) = None /\ Raw(s, Parent(p)).kind = "dir"
Allocated(s, p, node) ==
  [s EXCEPT !.entry[p] = Fresh(s), !.inode[Fresh(s)] = [node EXCEPT !.ino = Fresh(s)]]
Make(s, p, node) == Uncached(Allocated(s, p, node), p)

(* remove: a name goes, and with its last name an inode; lwext4 removes a     *)
(* directory with all that is in it.  Only the removed path leaves the        *)
(* caches.                                                                    *)
RemoveName(s, p) ==
  LET gone == {q \in Paths : q = p \/ Under(p, q)}
      names == [i \in Inos(s) |-> Cardinality({q \in gone : s.entry[q] = i})]
      left == [i \in Inos(s) |->
                 IF names[i] = 0 THEN s.inode[i]
                 ELSE IF s.inode[i].nlink = names[i] THEN None
                 ELSE [s.inode[i] EXCEPT !.nlink = @ - names[i]]]
  IN
  Uncached([s EXCEPT !.entry = [q \in Paths |-> IF q \in gone THEN 0 ELSE @[q]], !.inode = left,
                     !.excused = @ \cup {q \in gone : Cached(s, q)},
                     !.writers = [i \in Inos(s) |-> IF names[i] # 0 /\ left[i] = None THEN @[i] \cup {0} ELSE @[i]]], p)

(* link_to: the new name's cached answers go, the old name's stay.            *)
Link(s, p, q) ==
  LET i == s.entry[p]
      t == Uncached([s EXCEPT !.entry[q] = i, !.inode[i].nlink = @ + 1], q)
  IN [t EXCEPT !.excused = @ \cup {r \in Paths : t.entry[r] = i}]

(* ext4_metadata_cache_update after a change of one field on the disk, as     *)
(* chmod and chown do once they have read the metadata.                       *)
Updated_DiskOnly(s, p, f, v) == [s EXCEPT !.inode[s.entry[p]][f] = v]
Updated(s, p, f, v) ==
  [s EXCEPT !.inode[s.entry[p]][f] = v, !.meta[p] = IF @ = None THEN None ELSE [@ EXCEPT ![f] = v]]
Asked(s, p) == [s EXCEPT !.meta[p] = Meta(s, p)]
Chmod(s, p, mode) == IF Raw(s, p) = None THEN s ELSE Updated(Asked(s, p), p, "mode", mode)
Chown(s, p, u, g) ==
  IF Raw(s, p) = None THEN s ELSE Updated(Updated(Asked(s, p), p, "uid", u), p, "gid", g)

(* getxattr, setxattr, removexattr, listxattr.  A getxattr that lwext4        *)
(* refuses is remembered as "no such attribute".                              *)
XaOf(s, p) == IF Raw(s, p) = None THEN Absent ELSE Raw(s, p).xa
GetXa(s, p) == IF s.xattr[p] = Unknown THEN [s EXCEPT !.xattr[p] = XaOf(s, p)] ELSE s
SetXa(s, p, v) ==
  [Updated(s, p, "xa", v) EXCEPT !.xattr[p] = v, !.xlist[p] = Unknown]
ListOf(s, p) == IF XaOf(s, p) = Absent THEN Absent ELSE "present"
ListXa(s, p) == IF s.xlist[p] = Unknown THEN [s EXCEPT !.xlist[p] = ListOf(s, p)] ELSE s

(* An open file's inode object: its path and kind, and the lwext4 handle,     *)
(* opened by path at the first access (with_data_file, open_data_file).  For  *)
(* writing, lwext4 makes a file that is not there.                            *)
NoFile == [id |-> 0, path |-> <<>>, kind |-> "none", handle |-> 0, fsize |-> 0, off |-> 0, mode |-> {}]
FileAt(id, p, kind, mode) == [NoFile EXCEPT !.id = id, !.path = p, !.kind = kind, !.mode = mode]
SizeOf(s, i) == IF i = 0 \/ s.inode[i] = None THEN 0 ELSE s.inode[i].size
Opened(s, f) ==
  IF f.kind # "file" \/ f.handle # 0 \/ Raw(s, f.path).kind # "file" THEN f
  ELSE [f EXCEPT !.handle = s.entry[f.path], !.fsize = Raw(s, f.path).size]
OpensNew(s, f) == f.kind = "file" /\ f.handle = 0 /\ CanMake(s, f.path)
ForWriting(s, f) == IF OpensNew(s, f) THEN Allocated(s, f.path, Node("file", NoTarget, {})) ELSE s

(* read_at: the end is the size the handle remembers.  lwext4 then reads the  *)
(* real one, and past it the count of bytes left wraps round.                 *)
ReadCount(s, f, off, n) ==
  LET g == Opened(s, f)
      size == SizeOf(s, g.handle)
  IN IF g.handle = 0 \/ off >= g.fsize THEN 0
     ELSE IF off > size \/ off + n <= size THEN n
     ELSE size - off
AfterRead(s, f, off) ==
  LET g == Opened(s, f) IN
  IF g.handle = 0 \/ off >= g.fsize THEN g ELSE [g EXCEPT !.fsize = SizeOf(s, g.handle)]

(* write_at: the file and the path's cached size grow to the end of the       *)
(* bytes.  A handle of an earlier file of the path writes to that one.        *)
Grown(size, end) == IF end > size THEN end ELSE size
Write(s, f, off, n) ==
  LET t == ForWriting(s, f)
      h == Opened(t, f).handle
      end == off + n
  IN
  IF h = 0 \/ n = 0 THEN t
  ELSE [t EXCEPT !.inode[h] = IF @ = None THEN None ELSE [@ EXCEPT !.size = Grown(@, end)],
                 !.meta[f.path] = IF @ = None THEN None ELSE [@ EXCEPT !.size = Grown(@, end)],
                 !.writers[h] = @ \cup {f.id},
                 !.excused = IF t.entry[f.path] = h THEN @
                             ELSE @ \cup {f.path} \cup {q \in Paths : t.entry[q] = h}]
AfterWrite(s, f, off, n) ==
  LET t == Write(s, f, off, n)
      g == Opened(ForWriting(s, f), f)
  IN [g EXCEPT !.fsize = SizeOf(t, g.handle)]

(* truncate() and truncate_to(): growing writes the last byte; shrinking      *)
(* drops the handle, because lwext4's remembered size may be the old one.     *)
Closed_Kept(f) == f
Closed(f) == [f EXCEPT !.handle = 0, !.fsize = 0]
Cut(s, i, p, size, id) ==
  [s EXCEPT !.inode[i] = IF @ = None THEN None ELSE [@ EXCEPT !.size = IF @ > size THEN size ELSE @],
            !.meta[p] = IF @ = None THEN None ELSE [@ EXCEPT !.size = size],
            !.writers[i] = @ \cup {id},
            !.excused = IF s.entry[p] = i THEN @ ELSE @ \cup {p} \cup {q \in Paths : s.entry[q] = i}]
Truncate(s, f) == IF f.kind = "file" /\ Raw(s, f.path).kind = "file" THEN Cut(s, s.entry[f.path], f.path, 0, f.id) ELSE s
TruncateTo(s, f, size) ==
  LET current == Size(s, f.path)
      t == ForWriting(s, f)
      h == Opened(t, f).handle
  IN
  IF f.kind # "file" \/ size = current THEN s
  ELSE IF size = 0 THEN Truncate(s, f)
  ELSE IF size > current THEN Write(s, f, size - 1, 1)
  ELSE IF h = 0 THEN t
  ELSE Cut(t, h, f.path, size, f.id)
AfterTruncate(s, f, size) ==
  IF f.kind # "file" \/ size = Size(s, f.path) THEN f
  ELSE IF size > Size(s, f.path) THEN AfterWrite(s, f, size - 1, 1)
  ELSE Closed(f)

(* A new disk of n inodes; inode 1 is the root directory.                     *)
Formatted(n, mode) ==
  [entry |-> [p \in Paths |-> IF p = <<>> THEN 1 ELSE 0],
   inode |-> [i \in 1..n |-> IF i = 1 THEN [Node("dir", NoTarget, mode) EXCEPT !.ino = 1] ELSE None],
   meta |-> [p \in Paths |-> None], xattr |-> [p \in Paths |-> Unknown],
   xlist |-> [p \in Paths |-> Unknown], excused |-> {}, writers |-> [i \in 1..n |-> {}]]
=============================================================================
