------------------------------ MODULE MCFiles ------------------------------
EXTENDS Files

Abs(c) == [abs |-> TRUE, comps |-> c]
Rel(c) == [abs |-> FALSE, comps |-> c]
A == Abs(<<"a">>)
B == Abs(<<"b">>)
AA == Abs(<<"a", "a">>)
AB == Abs(<<"a", "b">>)
Bit(c, bs) == {<<c, b>> : b \in bs}
Mode755 == Bit("u", {"r", "w", "x"}) \cup Bit("g", {"r", "x"}) \cup Bit("o", {"r", "x"})
Mode6711 == Bit("u", {"r", "w", "x"}) \cup Bit("g", {"x"}) \cup Bit("o", {"x"}) \cup Bit("s", {"u", "g"})
AllIds(i) == [p \in Procs |-> [k \in Kinds |-> Cred(i)]]
TwoGroups == [p \in Procs |-> [k \in Kinds |-> IF k = "g" THEN [Cred(1) EXCEPT !.saved = 2] ELSE Cred(1)]]

Use(inos, calls, paths) ==
  [inos |-> inos, calls |-> calls, paths |-> paths, targets |-> {}, modes |-> {}, mode |-> Mode755,
   cred |-> AllIds(0), flags |-> {{"r", "w", "create"}}]
Idle == Use(1, {}, {})
NameUses == {
  Use(2, {"open", "read", "write", "truncate"}, {A}),
  [Use(2, {"open", "write", "seek"}, {A}) EXCEPT !.flags = {{"w", "create"}, {"w", "append"}}],
  Use(2, {"open", "pread", "pwrite", "unlink"}, {A}),
  [Use(3, {"stat", "open", "write", "unlink"}, {A}) EXCEPT !.flags = {{"r", "w", "create"}, {"w", "trunc"}}],
  Use(3, {"stat", "file", "truncate", "unlink", "hardlink"}, {A, B}),
  Use(3, {"dir", "file", "unlink", "rename"}, {A, B, AB}),
  Use(3, {"file", "truncate", "rename"}, {A, B}),
  [Use(4, {"dir", "file", "link", "unlink"}, {A, B, AB}) EXCEPT
     !.targets = {Rel(<<"b">>), Rel(<<"..", "b">>), A}],
  [Use(3, {"dir", "link", "stat"}, {A, B}) EXCEPT !.targets = {A, Rel(<<"b">>)}],
  [Use(2, {"stat", "file", "chmod", "chown", "open"}, {A}) EXCEPT !.modes = {Mode6711}, !.flags = {{"path"}}],
  [Use(2, {"file", "chmod", "chown"}, {A}) EXCEPT !.modes = {Mode6711}, !.cred = TwoGroups],
  Use(3, {"unlink", "xattr", "file"}, {A, B}),
  Use(3, {"open", "sendfile", "write"}, {A, B}),
  [Use(3, {"dir", "open", "unlink", "mount", "access"}, {A, AB}) EXCEPT !.cred = AllIds(1)],
  [Use(3, {"dir", "chdir", "chroot", "node", "open"}, {A, Rel(<<"b">>), Rel(<<"..">>)}) EXCEPT !.flags = {{"r", "directory"}}],
  Use(2, {"ids"}, {})}

FdUse(calls, pids, limit) == [calls |-> calls, pids |-> pids, limit |-> limit]
NoFds == FdUse({}, {}, 0)
DescriptorUses == {
  FdUse({"open", "flock", "dup", "setfd", "close"}, {1, 2}, 2),
  FdUse({"open", "flock", "dup3", "close"}, {1, 2}, 2),
  FdUse({"open", "pipe", "dup", "close", "setfd"}, {1}, 3),
  FdUse({"memfd", "close"}, {1, 2}, 1)}

\* easy-fs, where a block has two cells and an inode one direct block: a file
\* of one block is direct, of three uses the indirect block, of seven is the
\* largest.  One file of every depth; two files that grow and are truncated in
\* turn; directories, of several blocks and below one another.
NoEfs == [names |-> {}, offsets |-> {}, inodes |-> 1, subdirs |-> {FALSE}]
EasyFsUses == {
  [names |-> {1}, offsets |-> {1, 5, 12}, inodes |-> 2, subdirs |-> {FALSE}],
  [names |-> {1, 2}, offsets |-> {0, 4}, inodes |-> 3, subdirs |-> {FALSE}],
  [names |-> {1, 2, 3}, offsets |-> {}, inodes |-> 4, subdirs |-> BOOLEAN]}

MCFsUses == NameUses \cup {Idle}
MCFdUses == DescriptorUses \cup {NoFds}
MCRepertoires == EasyFsUses \cup {NoEfs}
MCPrograms ==
       {<<u, NoFds, FALSE, NoEfs>> : u \in NameUses}
  \cup {<<Idle, d, FALSE, NoEfs>> : d \in DescriptorUses}
  \cup {<<Idle, NoFds, TRUE, NoEfs>>}
  \cup {<<Idle, NoFds, FALSE, e>> : e \in EasyFsUses}
=============================================================================
