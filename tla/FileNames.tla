----------------------------- MODULE FileNames -----------------------------
(* The calls of os/src/syscall/fs.rs that name files, and those that read and *)
(* write them, over the ext4 inodes of Ext4.  The kernel runs one call at a   *)
(* time and none of these waits, so each is one step; a call refused by a     *)
(* check has only looked its path up, as StatAt does.                         *)
EXTENDS Ext4, Credentials, SequencesExt

CONSTANTS MaxHops,   \* links followed in a row; 8 in the code
          MaxSize,   \* bound: length of a file
          Opens,     \* open files, as many as RLIMIT_NOFILE
          FsUses     \* bound: programs: the calls they make and with what

ASSUME NamesAssumption == MaxHops \in Nat /\ MaxSize \in Nat

VARIABLES fs,      \* disk and caches, see Ext4
          vfile,   \* open VfsFiles
          place,   \* per process: cwd and root_dir
          ro,      \* READONLY_MOUNTS
          fsUse    \* the program that runs

nameVars == <<fs, vfile, place, ro, cred, fsUse>>

(* normalize_path and resolve_path are lexical: ".." drops a component.       *)
Normalized(cs) ==
  FoldLeft(LAMBDA acc, c : IF c # ".." THEN Append(acc, c) ELSE IF acc = <<>> THEN acc ELSE Parent(acc),
           <<>>, cs)
ResolvePath_FromRoot(base, u) == Normalized(u.comps)
ResolvePath(base, u) == Normalized(IF u.abs THEN u.comps ELSE base \o u.comps)
(* resolve_user_path: the calls that know of chroot.                          *)
UserPath(p, base, u) == Normalized((IF u.abs THEN place[p].root ELSE base) \o u.comps)
(* dirfd_base: the cwd, or the path an open directory was opened by.          *)
Bases(p) == {place[p].cwd} \cup {vfile[o].path : o \in {o \in Opens : vfile[o].kind = "dir"}}
UserPaths(p, u) == {UserPath(p, b, u) : b \in Bases(p)}
PlainPaths(p, u) == {ResolvePath(b, u) : b \in Bases(p)}

(* resolve_final_symlink_checked: the path, or nothing for ELOOP.             *)
ResolveFinal(s, p) ==
  LET at[n \in 0..MaxHops] ==
        IF n = 0 THEN p
        ELSE LET q == at[n - 1]
                 t == ReadLink(s, q)
             IN IF t = NoTarget THEN q ELSE ResolvePath(Parent(q), t)
      end == at[MaxHops]
  IN IF ReadLink(s, end) = NoTarget THEN {end} ELSE {}

(* resolve_access_path and, not following the last component,                 *)
(* resolve_access_path_nofollow: the path, or nothing for an error.           *)
Resolve(s, p, follow) ==
  LET walk[n \in 0..Len(p)] ==
        IF n = 0 THEN {<<>>}
        ELSE {q \in UNION {IF n = Len(p) /\ ~follow THEN {Append(d, p[n])} ELSE ResolveFinal(s, Append(d, p[n])) :
                           d \in walk[n - 1]} :
              n = Len(p) \/ IsDir(s, q)}
  IN walk[Len(p)]

(* access_allowed_egid and metadata_permission_bits.  A mode is a set of      *)
(* pairs <<class, bit>>.                                                      *)
Bits(m, uid, gid) ==
  LET class == IF uid = m.uid THEN "u" ELSE IF gid = m.gid THEN "g" ELSE "o" IN
  {b \in {"r", "w", "x"} : <<class, b>> \in m.mode}
ReadOnly(p) == \E d \in ro : p = d \/ (d # <<>> /\ Under(d, p))
Allowed(s, p, req, uid, gid) ==
  /\ Exists(s, p)
  /\ uid # 0 => \A d \in Heads(p) \ {p} : Meta(s, d).kind = "dir" => "x" \in Bits(Meta(s, d), uid, gid)
  /\ ~("w" \in req /\ ReadOnly(p))
  /\ IF uid = 0
     THEN "x" \in req => IsDir(s, p) \/ \E c \in {"u", "g", "o"} : <<c, "x">> \in Meta(s, p).mode
     ELSE req \subseteq Bits(Meta(s, p), uid, gid)
EUid(p) == cred[p]["u"].effective
EGid(p) == cred[p]["g"].effective
May(p, s, q, req) == Allowed(s, q, req, EUid(p), EGid(p))
MayIfNotRoot(p, s, q, req) == EUid(p) = 0 \/ May(p, s, q, req)

IsOpen(o) == vfile[o].kind # "none"
Calls(c) == c \in fsUse.calls
Seen(p, q) == Looked(Looked(fs, p), q)
Owned(p, s, q, mode) == Chown(Chmod(Looked(s, q), q, mode), q, EUid(p), EGid(p))

(* Calls that look and change nothing but the caches; a call that fails has   *)
(* done as much.  sys_faccessat goes by the real user id; sys_readlinkat and  *)
(* sys_statx follow no link and know of no chroot.                            *)
StatAt(p, u, follow) ==
  /\ Calls("stat")
  /\ \E w \in UserPaths(p, u) : \E q \in Resolve(fs, w, follow) : fs' = Seen(w, q)
  /\ UNCHANGED <<vfile, place, ro>>
AccessAt(p, u, req) ==
  /\ Calls("access")
  /\ \E w \in UserPaths(p, u) : \E q \in Resolve(fs, w, TRUE) :
       /\ Allowed(fs, q, req, cred[p]["u"].real, EGid(p))
       /\ fs' = Seen(w, q)
  /\ UNCHANGED <<vfile, place, ro>>
ReadlinkAt(p, u) ==
  /\ Calls("stat")
  /\ \E q \in PlainPaths(p, u) : ReadLink(fs, q) # NoTarget /\ fs' = Looked(fs, q)
  /\ UNCHANGED <<vfile, place, ro>>
StatxAt(p, u) ==
  /\ Calls("stat")
  /\ \E q \in PlainPaths(p, u) : Exists(fs, q) /\ fs' = Looked(fs, q)
  /\ UNCHANGED <<vfile, place, ro>>
Fstat(o) ==
  /\ Calls("stat") /\ IsOpen(o) /\ vfile[o].path # <<>>
  /\ fs' = Asked(fs, vfile[o].path)
  /\ UNCHANGED <<vfile, place, ro>>

(* sys_openat with open_file.  A file is made with the caller's ids; without  *)
(* a free descriptor the call fails last, with the file made and emptied.     *)
OpenAt(p, u, fl) ==
  /\ Calls("open")
  /\ \E w \in UserPaths(p, u) : \E q \in Resolve(fs, w, TRUE) :
       LET full == \A o \in Opens : IsOpen(o)
           o == IF full THEN 0 ELSE CHOOSE o \in Opens : ~IsOpen(o)
           s == Seen(w, q)
           new == "create" \in fl /\ ~Exists(s, q)
           f == FileAt(o, q, IF new THEN "file" ELSE Meta(s, q).kind,
                       IF "path" \in fl THEN {} ELSE fl \cap {"r", "w", "append"})
           t == IF new THEN Make(s, q, Node("file", NoTarget, {})) ELSE s
           cut == IF "trunc" \in fl THEN Truncate(t, f) ELSE t
       IN
       /\ "create" \in fl => ~IsDir(s, q)
       /\ "directory" \in fl => IsDir(s, q)
       /\ {"create", "trunc"} \cap fl # {} => ~ReadOnly(q)
       /\ IF new THEN IsDir(s, Parent(q)) /\ MayIfNotRoot(p, s, Parent(q), {"w", "x"}) /\ CanMake(s, q)
          ELSE Exists(s, q) /\ MayIfNotRoot(p, s, q, fl \cap {"r", "w"})
       /\ fs' = IF new THEN Owned(p, cut, q, fsUse.mode) ELSE cut
       /\ vfile' = IF full THEN vfile ELSE [vfile EXCEPT ![o] = f]
  /\ UNCHANGED <<place, ro>>

CloseFile(o) ==
  /\ Calls("open") /\ IsOpen(o)
  /\ vfile' = [vfile EXCEPT ![o] = NoFile]
  /\ UNCHANGED <<fs, place, ro>>

(* sys_mkdirat and sys_mknodat follow no link in the path; sys_symlinkat      *)
(* leaves the new link to its default owner and mode.                         *)
MakeAt(p, u, kind) ==
  /\ Calls(kind)
  /\ \E q \in IF kind = "dir" THEN PlainPaths(p, u) ELSE UserPaths(p, u) :
       LET s == Looked(fs, q) IN
       /\ q # <<>> /\ ~Exists(s, q) /\ IsDir(s, Parent(q)) /\ CanMake(s, q)
       /\ fs' = Owned(p, Make(s, q, Node(kind, NoTarget, {})), q, fsUse.mode)
  /\ UNCHANGED <<vfile, place, ro>>
SymlinkAt(p, u, target) ==
  /\ Calls("link")
  /\ \E q \in PlainPaths(p, u) :
       LET s == Looked(fs, q) IN
       /\ q # <<>> /\ ~Exists(s, q) /\ IsDir(s, Parent(q)) /\ CanMake(s, q)
       /\ fs' = Make(s, q, Node("link", target, {}))
  /\ UNCHANGED <<vfile, place, ro>>

(* sys_linkat.                                                                *)
LinkAt(p, u, v) ==
  /\ Calls("hardlink")
  /\ \E w \in UserPaths(p, u), to \in UserPaths(p, v) \ {<<>>} :
       \E q \in Resolve(fs, w, TRUE), d \in Resolve(fs, Parent(to), TRUE) :
         LET new == Append(d, Last(to))
             s == Looked(Looked(Seen(w, q), d), new)
         IN /\ Exists(s, q) /\ ~IsDir(s, q)
            /\ IsDir(s, d) /\ ~Exists(s, new)
            /\ ~ReadOnly(q) /\ ~ReadOnly(new)
            /\ MayIfNotRoot(p, s, q, {}) /\ MayIfNotRoot(p, s, d, {"w", "x"})
            /\ new \in Paths /\ Raw(s, q) # None /\ Raw(s, new) = None /\ Raw(s, d).kind = "dir"
            /\ fs' = Link(s, q, new)
  /\ UNCHANGED <<vfile, place, ro>>

(* sys_unlinkat; with AT_REMOVEDIR a directory goes with all that is in it.   *)
UnlinkAt(p, u, dir) ==
  /\ Calls("unlink")
  /\ \E w \in PlainPaths(p, u) : \E q \in Resolve(fs, w, FALSE) \ {<<>>} :
       LET s == Looked(fs, q) IN
       /\ May(p, s, Parent(q), {"w", "x"})
       /\ Exists(s, q) /\ IsDir(s, q) = dir
       /\ fs' = RemoveName(s, q)
  /\ UNCHANGED <<vfile, place, ro>>

(* sys_renameat2.  A directory is made anew, empty, and the old one removed   *)
(* with all that is in it.  A file is copied: the target is removed first,    *)
(* and when the disk is full the call ends with `copied` bytes in the new     *)
(* file and the old one in place.                                             *)
RenamedDir(s, old, new) == RemoveName(Looked(Make(s, new, Node("dir", NoTarget, {})), old), old)
Cleared(s, new) == IF Exists(s, new) THEN RemoveName(s, new) ELSE s
CopiedTo(s, old, new, n) == Write(Make(s, new, Node("file", NoTarget, {})), FileAt(0, new, "file", {"w"}), 0, n)
RenameAt(p, u, v) ==
  /\ Calls("rename")
  /\ \E old \in PlainPaths(p, u), new \in PlainPaths(p, v) \ {<<>>} :
       LET s == Seen(old, new)
           f == FileAt(0, old, Meta(s, old).kind, {"r"})
           cleared == Cleared(s, new)
           all == ReadCount(s, f, 0, MaxSize)
       IN
       /\ old # new /\ Exists(s, old)
       /\ \/ /\ IsDir(s, old) /\ ~Exists(s, new) /\ IsDir(s, Parent(new)) /\ CanMake(s, new)
             /\ fs' = RenamedDir(s, old, new)
          \/ /\ ~IsDir(s, old) /\ ~IsDir(s, new)
             /\ IF IsDir(cleared, Parent(new)) /\ CanMake(cleared, new)
                THEN \/ fs' = RemoveName(CopiedTo(cleared, old, new, all), old)
                     \/ \E copied \in 0..all - 1 : fs' = CopiedTo(cleared, old, new, copied)
                ELSE fs' = cleared
  /\ UNCHANGED <<vfile, place, ro>>

(* sys_chdir, sys_fchdir, sys_chroot.                                         *)
Chdir(p, u) ==
  /\ Calls("chdir")
  /\ LET q == ResolvePath(place[p].cwd, u) IN
     /\ IsDir(fs, q)
     /\ fs' = Looked(fs, q) /\ place' = [place EXCEPT ![p].cwd = q]
  /\ UNCHANGED <<vfile, ro>>
Fchdir(p, o) ==
  /\ Calls("chdir")
  /\ vfile[o].kind = "dir" /\ May(p, fs, vfile[o].path, {"x"})
  /\ fs' = Looked(fs, vfile[o].path) /\ place' = [place EXCEPT ![p].cwd = vfile[o].path]
  /\ UNCHANGED <<vfile, ro>>
Chroot(p, u) ==
  /\ Calls("chroot") /\ EUid(p) = 0
  /\ \E q \in Resolve(fs, UserPath(p, place[p].cwd, u), TRUE) :
       /\ IsDir(fs, q)
       /\ fs' = Seen(UserPath(p, place[p].cwd, u), q)
       /\ place' = [place EXCEPT ![p] = [root |-> q, cwd |-> IF q # <<>> /\ (@.cwd = q \/ Under(q, @.cwd)) THEN @.cwd ELSE q]]
  /\ UNCHANGED <<vfile, ro>>

(* sys_mount and sys_umount2 keep a set of read-only paths.                   *)
Mount(p, u, readonly) ==
  LET q == ResolvePath(place[p].cwd, u) IN
  /\ Calls("mount")
  /\ ro' = IF readonly THEN ro \cup {q} ELSE ro \ {q}
  /\ UNCHANGED <<fs, vfile, place>>

(* sys_fchmodat, sys_fchmod: the owner's call.  A caller outside the file's   *)
(* group loses the set-group-id bit.                                          *)
SetGid == <<"s", "g">>
SetUid == <<"s", "u">>
ModeFor(p, m, mode) == IF EUid(p) # 0 /\ EGid(p) # m.gid THEN mode \ {SetGid} ELSE mode
MayChmod(p, s, q) == Exists(s, q) /\ ~ReadOnly(q) /\ (EUid(p) = 0 \/ Meta(s, q).uid = EUid(p))
FchmodAt(p, u, mode) ==
  /\ Calls("chmod")
  /\ \E w \in PlainPaths(p, u) : \E q \in Resolve(fs, w, TRUE) \ {<<>>} :
       LET s == Seen(w, q) IN
       /\ MayChmod(p, s, q) /\ MayIfNotRoot(p, s, q, {})
       /\ fs' = Chmod(s, q, ModeFor(p, Meta(s, q), mode))
  /\ UNCHANGED <<vfile, place, ro>>
Fchmod(p, o, mode) ==
  LET q == vfile[o].path
      s == Looked(fs, q)
  IN
  /\ Calls("chmod") /\ IsOpen(o) /\ q # <<>>
  /\ MayChmod(p, s, q)
  /\ fs' = Chmod(s, q, ModeFor(p, Meta(s, q), mode))
  /\ UNCHANGED <<vfile, place, ro>>

(* sys_fchownat, sys_fchown, can_unprivileged_chown; Keep leaves an id.       *)
(* apply_mode_side_effects_after_chown clears the set-id bits.                *)
AfterChown(m) == m.mode \ ({SetUid} \cup IF <<"g", "x">> \in m.mode THEN {SetGid} ELSE {})
Chowned(s, q, uid, gid) ==
  LET m == Meta(s, q)
      t == Chown(s, q, Chosen(uid, m.uid), Chosen(gid, m.gid))
  IN IF m.kind = "dir" \/ AfterChown(m) = m.mode THEN t ELSE Chmod(t, q, AfterChown(m))
MayChown(p, s, q, uid, gid) ==
  /\ Exists(s, q) /\ ~ReadOnly(q)
  /\ \/ EUid(p) = 0
     \/ uid = Keep /\ Meta(s, q).uid = EUid(p) /\ gid \in {Keep, Meta(s, q).gid} \cup Held(p, "g")
FchownAt(p, u, uid, gid, follow) ==
  /\ Calls("chown")
  /\ \E w \in PlainPaths(p, u) : \E q \in Resolve(fs, w, follow) \ {<<>>} :
       LET s == Seen(w, q) IN
       /\ MayChown(p, s, q, uid, gid) /\ MayIfNotRoot(p, s, q, {})
       /\ fs' = Chowned(s, q, uid, gid)
  /\ UNCHANGED <<vfile, place, ro>>
Fchown(p, o, uid, gid) ==
  LET q == vfile[o].path
      s == Looked(fs, q)
  IN
  /\ Calls("chown") /\ IsOpen(o) /\ q # <<>>
  /\ MayChown(p, s, q, uid, gid)
  /\ fs' = Chowned(s, q, uid, gid)
  /\ UNCHANGED <<vfile, place, ro>>

(* sys_setxattr and its like by path, fd or link; XATTR_CREATE and REPLACE    *)
(* ask the attribute first.                                                   *)
XattrAt(p, u, v, flag) ==
  /\ Calls("xattr")
  /\ \E w \in UserPaths(p, u) : \E q \in Resolve(fs, w, TRUE) \ {<<>>} :
       LET s == Seen(w, q)
           got == GetXa(s, q)
       IN
       /\ Exists(s, q)
       /\ \/ flag = "get" /\ fs' = got
          \/ flag = "list" /\ fs' = ListXa(s, q)
          \/ flag = "remove" /\ XaOf(s, q) # Absent /\ Raw(s, q) # None /\ fs' = SetXa(s, q, Absent)
          \/ /\ flag \in {"set", "create", "replace"} /\ Raw(s, q) # None
             /\ flag = "create" => got.xattr[q] = Absent
             /\ flag = "replace" => got.xattr[q] # Absent
             /\ fs' = SetXa(got, q, v)
  /\ UNCHANGED <<vfile, place, ro>>

(* A read or write in parts, as an iovec or the pages of a buffer give them:  *)
(* each part goes where the one before it ended, and a short part is the      *)
(* last.  A part whose memory is bad ends the call as if it were not there.   *)
ReadParts(s, f, off, parts) ==
  LET step[k \in 0..Len(parts)] ==
        IF k = 0 THEN [f |-> f, off |-> off, short |-> FALSE]
        ELSE LET was == step[k - 1]
                 n == ReadCount(s, was.f, was.off, parts[k])
             IN IF was.short THEN was
                ELSE [f |-> AfterRead(s, was.f, was.off), off |-> was.off + n, short |-> n < parts[k]]
  IN step[Len(parts)]
WriteParts(s, f, off, parts) ==
  LET step[k \in 0..Len(parts)] ==
        IF k = 0 THEN [s |-> s, f |-> f, off |-> off]
        ELSE LET was == step[k - 1] IN
             [s |-> Write(was.s, was.f, was.off, parts[k]), f |-> AfterWrite(was.s, was.f, was.off, parts[k]),
              off |-> was.off + parts[k]]
  IN step[Len(parts)]

(* VfsFile::read under sys_read and sys_readv.                                *)
ReadFile(o, parts) ==
  LET r == ReadParts(fs, vfile[o], vfile[o].off, parts) IN
  /\ Calls("read") /\ IsOpen(o) /\ "r" \in vfile[o].mode
  /\ vfile' = [vfile EXCEPT ![o] = [r.f EXCEPT !.off = r.off]]
  /\ UNCHANGED <<fs, place, ro>>

(* sys_pread64, sys_preadv and sys_preadv2, where only the last, and only     *)
(* with offset -1 (here `whole`) and no bad part, moves the file's position.  *)
PreadFile(o, off, parts, whole) ==
  LET r == ReadParts(fs, vfile[o], IF whole THEN vfile[o].off ELSE off, parts) IN
  /\ Calls("pread") /\ vfile[o].kind = "file" /\ "r" \in vfile[o].mode
  /\ vfile' = [vfile EXCEPT ![o] = [r.f EXCEPT !.off = IF whole THEN r.off ELSE @]]
  /\ UNCHANGED <<fs, place, ro>>

(* VfsFile::write under sys_write and sys_writev; O_APPEND starts each part   *)
(* of a writev at the end.                                                    *)
WriteOffset(s, f, off) == IF "append" \in f.mode THEN Size(s, f.path) ELSE off
WriteFile(o, parts) ==
  LET f == vfile[o]
      s == Looked(fs, f.path)
      w == WriteParts(s, f, WriteOffset(s, f, f.off), parts)
  IN
  /\ Calls("write") /\ f.kind = "file" /\ "w" \in f.mode
  /\ w.off <= MaxSize /\ w.f.handle # 0
  /\ fs' = w.s
  /\ vfile' = [vfile EXCEPT ![o] = [w.f EXCEPT !.off = w.off]]
  /\ UNCHANGED <<place, ro>>

(* sys_pwrite64, sys_pwritev: a gap before the offset is filled with zeros,   *)
(* the position stays.                                                        *)
PwriteFile(o, off, parts) ==
  LET f == vfile[o]
      s == Looked(fs, f.path)
      start == WriteOffset(s, f, off)
      gap == IF start > Size(s, f.path) THEN start - Size(s, f.path) ELSE 0
      w == WriteParts(s, f, start - gap, <<gap>> \o parts)
  IN
  /\ Calls("pwrite") /\ f.kind = "file" /\ "w" \in f.mode
  /\ w.off <= MaxSize /\ w.f.handle # 0
  /\ fs' = w.s
  /\ vfile' = [vfile EXCEPT ![o] = w.f]
  /\ UNCHANGED <<place, ro>>

(* sys_lseek to an offset from the start, the position or the end.            *)
SeekFile(o, off) ==
  /\ Calls("seek") /\ IsOpen(o)
  /\ vfile' = [vfile EXCEPT ![o].off = off]
  /\ fs' = Looked(fs, vfile[o].path)
  /\ UNCHANGED <<place, ro>>

(* sys_sendfile between two open files, from the position of the first.       *)
Sendfile(o, i, n) ==
  LET count == ReadCount(fs, vfile[i], vfile[i].off, n)
      f == AfterRead(fs, vfile[i], vfile[i].off)
      out == vfile[o]
  IN
  /\ Calls("sendfile") /\ i # o /\ "r" \in vfile[i].mode /\ "w" \in out.mode /\ out.kind = "file"
  /\ out.off + count <= MaxSize
  /\ LET w == WriteParts(fs, out, out.off, <<count>>) IN
     /\ w.f.handle # 0
     /\ fs' = w.s
     /\ vfile' = [vfile EXCEPT ![i] = [f EXCEPT !.off = @ + count], ![o] = [w.f EXCEPT !.off = w.off]]
  /\ UNCHANGED <<place, ro>>

(* sys_ftruncate, sys_truncate, sys_fallocate.                                *)
Ftruncate(o, size) ==
  LET f == vfile[o] IN
  /\ Calls("truncate") /\ "w" \in f.mode /\ f.kind = "file"
  /\ fs' = TruncateTo(Asked(fs, f.path), f, size)
  /\ vfile' = [vfile EXCEPT ![o] = AfterTruncate(Asked(fs, f.path), f, size)]
  /\ UNCHANGED <<place, ro>>
TruncateAt(p, u, size) ==
  /\ Calls("truncate")
  /\ \E w \in {ResolvePath(place[p].cwd, u)} : \E q \in Resolve(fs, w, TRUE) :
       LET s == Seen(w, q) IN
       /\ ~IsDir(s, q) /\ May(p, s, q, {"w"})
       /\ fs' = TruncateTo(s, FileAt(0, q, Meta(s, q).kind, {"r", "w"}), size)
  /\ UNCHANGED <<vfile, place, ro>>
Fallocate(o, end) ==
  LET f == vfile[o]
      s == Asked(fs, f.path)
  IN
  /\ Calls("truncate") /\ "w" \in f.mode /\ f.kind = "file" /\ end > Size(s, f.path)
  /\ fs' = Write(s, f, end - 1, 1)
  /\ vfile' = [vfile EXCEPT ![o] = AfterWrite(s, f, end - 1, 1)]
  /\ UNCHANGED <<place, ro>>

NamesInit ==
  /\ fsUse \in FsUses
  /\ fs = Formatted(fsUse.inos, fsUse.mode)
  /\ vfile = [o \in Opens |-> NoFile]
  /\ place = [p \in Procs |-> [cwd |-> <<>>, root |-> <<>>]]
  /\ ro = {}
  /\ cred = fsUse.cred

Parts == {<<1>>, <<1, 1>>}
NamesStep ==
  \/ \E p \in Procs, u \in fsUse.paths :
       \/ ReadlinkAt(p, u) \/ StatxAt(p, u) \/ Chdir(p, u) \/ Chroot(p, u)
       \/ \E b \in BOOLEAN : StatAt(p, u, b)
       \/ \E req \in SUBSET {"r", "w", "x"} : AccessAt(p, u, req)
       \/ \E fl \in fsUse.flags : OpenAt(p, u, fl)
       \/ \E kind \in {"dir", "node", "file"} : MakeAt(p, u, kind)
       \/ \E t \in fsUse.targets : SymlinkAt(p, u, t)
       \/ \E v \in fsUse.paths : LinkAt(p, u, v) \/ RenameAt(p, u, v)
       \/ \E b \in BOOLEAN : UnlinkAt(p, u, b) \/ Mount(p, u, b)
       \/ \E mode \in fsUse.modes : FchmodAt(p, u, mode)
       \/ \E uid, gid \in Ids \cup {Keep}, b \in BOOLEAN : FchownAt(p, u, uid, gid, b)
       \/ \E v \in {"v1", "v2"}, flag \in {"get", "list", "remove", "set", "create", "replace"} : XattrAt(p, u, v, flag)
       \/ \E size \in 0..MaxSize : TruncateAt(p, u, size)
  \/ \E o \in Opens :
       \/ CloseFile(o) \/ Fstat(o)
       \/ \E p \in Procs :
            \/ Fchdir(p, o)
            \/ \E mode \in fsUse.modes : Fchmod(p, o, mode)
            \/ \E uid, gid \in Ids \cup {Keep} : Fchown(p, o, uid, gid)
       \/ \E parts \in Parts : ReadFile(o, parts) \/ WriteFile(o, parts)
       \/ \E off \in 0..MaxSize, parts \in Parts :
            \/ PwriteFile(o, off, parts)
            \/ \E b \in BOOLEAN : PreadFile(o, off, parts, b)
       \/ \E n \in 0..MaxSize : SeekFile(o, n) \/ Ftruncate(o, n) \/ Fallocate(o, n)
       \/ \E i \in Opens, n \in 1..MaxSize : Sendfile(o, i, n)
NamesNext ==
  /\ \/ NamesStep /\ UNCHANGED cred
     \/ "ids" \in fsUse.calls /\ (\E p \in Procs : CredStep(p)) /\ UNCHANGED <<fs, vfile, place, ro>>
  /\ UNCHANGED fsUse
NamesSpec == NamesInit /\ [][NamesNext]_nameVars

(* What the caches say of a path is what the disk says: the size, owner, mode *)
(* and attributes a call sees are those earlier calls left, whichever way     *)
(* they named the file.  It fails, and is excused, for a file with two names, *)
(* for what was below a removed directory, and for a name whose earlier file  *)
(* is still written through an open descriptor.                               *)
CacheExact ==
  \A p \in Paths \ fs.excused :
    /\ fs.meta[p] \in {None, Raw(fs, p)}
    /\ fs.xattr[p] \in {Unknown, XaOf(fs, p)}
    /\ fs.xlist[p] \in {Unknown, ListOf(fs, p)}

(* Denotes: the path with, on the disk and without the caches, the shortest   *)
(* part of it that is a link replaced by the link's target, until none is.    *)
LinksIn(p) == {q \in Heads(p) : Raw(fs, q).kind = "link"}
TargetOf(l) == LET t == Raw(fs, l).target IN Normalized((IF t.abs THEN <<>> ELSE Parent(l)) \o t.comps)
Rewritten(p) ==
  LET links == LinksIn(p) IN
  IF links = {} THEN p
  ELSE LET l == CHOOSE l \in links : \A k \in links : Len(l) <= Len(k) IN
       Normalized(TargetOf(l) \o SubSeq(p, Len(l) + 1, Len(p)))
Denotes(p) ==
  LET at[n \in 0..MaxHops] == IF n = 0 THEN p ELSE Rewritten(at[n - 1])
      end == at[MaxHops]
  IN IF LinksIn(end) = {} THEN {end} ELSE {}
PlainLinks ==
  \A l \in Paths : Raw(fs, l).kind = "link" =>
    LinksIn(TargetOf(l)) \subseteq {TargetOf(l)}

(* Following links lands on the file the path denotes (Denotes), and finds    *)
(* it, when no link's target leads through another link.                      *)
FollowsToDenoted ==
  fs.excused = {} => \A p \in Paths :
    /\ \A q \in Resolve(fs, p, TRUE) : Raw(fs, q) # None => Denotes(p) = {q}
    /\ PlainLinks => \A q \in Denotes(p) : Raw(fs, q) # None => q \in Resolve(fs, p, TRUE)

(* A read through a descriptor that alone ever changed the file's length      *)
(* stops exactly at the file's end, although lwext4 remembers a length of its *)
(* own in the descriptor's handle.                                            *)
ReadsExact ==
  \A o \in Opens :
    LET f == vfile[o]
        size == SizeOf(fs, f.handle)
    IN f.handle # 0 /\ fs.writers[f.handle] \subseteq {o} =>
         \A off \in 0..MaxSize, n \in 1..MaxSize :
           ReadCount(fs, f, off, n) = IF off >= size THEN 0 ELSE IF off + n <= size THEN n ELSE size - off
=============================================================================
