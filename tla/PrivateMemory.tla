---------------------------- MODULE PrivateMemory ----------------------------
(***************************************************************************)
(* What an address space promises about its private pages: each process    *)
(* has its own image.  Fork copies the image, a store changes one page of  *)
(* one image, and no step of one process changes the image of another; the *)
(* only exception is a vfork child that is still running its parent's      *)
(* program and gives its pages back when it exits.                         *)
(***************************************************************************)
EXTENDS Integers

CONSTANTS Procs, Pages, Values, Hole, Untouched(_), FilePages, Nobody

VARIABLES image,     \* per process and page: a value, Hole, or an untouched file page
          running,   \* the processes that exist
          lender,    \* whose program and memory a vfork child is using, or Nobody
          file

vars == <<image, running, lender, file>>

Empty == [v \in Pages |-> Hole]
Fresh == {Hole, 0} \cup {Untouched(k) : k \in FilePages}

Init == /\ image \in [Procs -> [Pages -> Values \cup Fresh]]
        /\ running \subseteq Procs
        /\ \A p \in Procs \ running : image[p] = Empty
        /\ lender = [p \in Procs |-> Nobody]
        /\ file \in [FilePages -> Values]

Store(p, v) == /\ image[p][v] \in Values
               /\ image'[p][v] \in Values
               /\ image' = [image EXCEPT ![p][v] = image'[p][v]]
               /\ UNCHANGED <<running, lender, file>>

(* The first access to a page of a private file mapping reads the file.    *)
Touch(p, v) == /\ \E k \in FilePages : /\ image[p][v] = Untouched(k)
                                       /\ image' = [image EXCEPT ![p][v] = file[k]]
               /\ UNCHANGED <<running, lender, file>>

(* mmap, munmap, brk: pages come as zeros or as file pages, and go.        *)
(* (MAP_FIXED over an untouched file page is two such steps.)              *)
Remap(p) == /\ image' = [image EXCEPT ![p] = image'[p]]
            /\ \A v \in Pages : \/ image'[p][v] \in {image[p][v], Hole}
                              \/ (image[p][v] \in Values \cup {Hole} /\ image'[p][v] \in Fresh)
            /\ UNCHANGED <<running, lender, file>>

Fork(p, c, l) == /\ p \in running /\ c \notin running
                 /\ l \in {p, Nobody}
                 /\ image' = [image EXCEPT ![c] = image[p]]
                 /\ running' = running \cup {c}
                 /\ lender' = [lender EXCEPT ![c] = l]
                 /\ UNCHANGED file

Exec(p) == /\ p \in running
           /\ image' = [image EXCEPT ![p] = image'[p]]
           /\ lender' = [lender EXCEPT ![p] = Nobody]
           /\ UNCHANGED <<running, file>>

(* An exit; a vfork child's pages go back to the process it borrowed from. *)
Exit(p) == /\ p \in running
           /\ running' = running \ {p}
           /\ lender' = [q \in Procs |-> IF q = p \/ lender[q] = p THEN Nobody ELSE lender[q]]
           /\ image'[p] = Empty
           /\ \A q \in Procs \ {p}, v \in Pages :
                image'[q][v] = image[q][v] \/ (q = lender[p] /\ image'[q][v] = image[p][v])
           /\ image' = [q \in Procs |-> [v \in Pages |-> image'[q][v]]]
           /\ UNCHANGED file

FileChange == file' \in [FilePages -> Values] /\ UNCHANGED <<image, running, lender>>

Next == \/ \E p \in Procs, v \in Pages : Store(p, v) \/ Touch(p, v)
        \/ \E p \in Procs : Remap(p) \/ Exec(p) \/ Exit(p)
        \/ \E p, c \in Procs : Fork(p, c, p) \/ Fork(p, c, Nobody)
        \/ FileChange

Spec == Init /\ [][Next]_vars
=============================================================================
