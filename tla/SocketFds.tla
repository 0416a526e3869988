----------------------------- MODULE SocketFds ------------------------------
(* The descriptor tables that both socket families install their files in, *)
(* as far as sockets need them (Descriptors has the tables proper).        *)
EXTENDS Integers, FiniteSets, SequencesExt

CONSTANTS Actors,      \* threads
          FDs,         \* bound: descriptors
          Repertoires  \* bounds: [calls, table, limit, socks, ports, names]: the
                       \* groups of calls that each thread of a behaviour makes,
                       \* the descriptor table it uses, the limit of that table
                       \* (RLIMIT_NOFILE), and the sockets that the threads make
                       \* and the ports and names they use, together

VARIABLES fds,         \* descriptor tables: Tables -> (FDs -> file or NoFile)
          uses         \* the repertoire of the behaviour

NoFile == 0
Tables == Actors   \* at most as many as threads

ASSUME TablesAssumption ==
  /\ FDs \subseteq Nat
  /\ \A r \in Repertoires : r.socks \in Nat /\ r.table \in [Actors -> Tables]

FdsInit == /\ fds = [t \in Tables |-> [d \in FDs |-> NoFile]]
           /\ uses \in Repertoires

TableOf == uses.table
Fd(t, d) == fds[TableOf[t]][d]
Open(t, d) == Fd(t, d) # NoFile

(* install_file: the lowest free descriptor, or EMFILE.                    *)
FreeFDs(t) == {d \in FDs : d < uses.limit[TableOf[t]] /\ Fd(t, d) = NoFile}
Installed(t, file) == [fds EXCEPT ![TableOf[t]][Min(FreeFDs(t))] = file]
Installed2(t, f, g) ==
  LET d == Min(FreeFDs(t)) IN [fds EXCEPT ![TableOf[t]][d] = f, ![TableOf[t]][Min(FreeFDs(t) \ {d})] = g]

InTable(tables, file) == \E t \in Tables, d \in FDs : tables[t][d] = file

May(t, call) == call \in uses.calls[t]
=============================================================================
