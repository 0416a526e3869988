---------------------------- MODULE MCProcesses -----------------------------
(* INITPROC and a few processes below it.                                  *)
EXTENDS Processes

CONSTANTS p1, p2, p3, p4

\* Families of single-threaded processes.
Families == [pcbs |-> PCBs, threads |-> FALSE, calls |-> {"clone_parent"}, targets |-> {-1, 3}]
Vforks == [pcbs |-> {p1, p2, p3}, threads |-> FALSE, calls |-> {"clone_parent", "vfork"}, targets |-> {-1}]
\* Two threads that wait, fork and vfork beside each other.
Threaded == [pcbs |-> {p1, p2, p3}, threads |-> TRUE, calls |-> {"vfork"}, targets |-> {3}]
\* Kills and process groups.
Killing == [pcbs |-> {p1, p2, p3}, threads |-> FALSE, calls |-> {"kill", "setpgid"}, targets |-> {-1, 0}]

All == {Families, Vforks, Threaded, Killing}
Kills == {Killing}
=============================================================================
