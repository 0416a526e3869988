------------------------------ MODULE MCMemory ------------------------------
(* Memory for TLC: the repertoires of the programs, and the symmetry of    *)
(* frames and of processes.                                                *)
EXTENDS Memory, TLC

Symmetry == Permutations(Frames) \cup Permutations(Procs)

Plain == [calls |-> {}, pages |-> 2, kinds |-> {"anon"}, lengths |-> {1}, fixed |-> {},
          unmap |-> {}, protect |-> {}, perms |-> BOOLEAN]

\* Mappings of three pages, mapped over, cut at either end or in the middle, and protected.
Protects == [Plain EXCEPT !.calls = {"mmap", "munmap", "mprotect", "copyout"}, !.pages = 4, !.kinds = {"anon", "shanon"},
                          !.lengths = {1, 3}, !.fixed = {2}, !.unmap = {<<1, 2>>, <<2, 3>>, <<2, 4>>, <<1, 4>>},
                          !.protect = {<<1, 2>>, <<2, 3>>, <<2, 4>>, <<1, 4>>}]
\* The heap between mappings.
UsesHeap == [Plain EXCEPT !.calls = {"mmap", "munmap", "brk"}, !.pages = 4, !.kinds = {"anon", "shanon"},
                          !.lengths = {1, 2}, !.unmap = {<<1, 2>>, <<2, 4>>, <<1, 4>>}]
\* fork, exec and exit with private and shared memory, and read-only pages.
Forks == [Plain EXCEPT !.calls = {"mmap", "munmap", "mprotect", "fork", "exec", "exit"}, !.kinds = {"anon", "shanon"},
                       !.unmap = {<<1, 2>>}, !.protect = {<<0, 1>>}, !.perms = {FALSE}]
\* vfork children that exit without exec.
Vforks == [Plain EXCEPT !.calls = {"mmap", "munmap", "vfork", "exit"}, !.unmap = {<<1, 2>>}]
\* Mappings of a file across fork.
MapsFiles == [Plain EXCEPT !.calls = {"mmap", "munmap", "fork", "exit", "msync", "write", "truncate"},
                           !.kinds = {"file", "shfile"}, !.unmap = {<<1, 2>>}]
Supported == {Protects, UsesHeap, Forks, Vforks, MapsFiles}

\* The theorems of MemorySetProofs are about these.
ASSUME SupportedAssumption == \A r \in Supported : Regular(r) /\ CowSafe(r)

\* mprotect with PROT_WRITE after fork.
ForksAndProtects == {[Plain EXCEPT !.calls = {"fork", "mprotect"}, !.protect = {<<0, 1>>}]}
=============================================================================
