------------------------------ MODULE FileTree ------------------------------
(***************************************************************************)
(* What a file system promises its users: directories whose entries are    *)
(* neither lost nor doubled, and files that are sequences of bytes.        *)
(***************************************************************************)
EXTENDS Naturals, Sequences

CONSTANTS Ids, Names,      \* file identities, 0 is the root; names
          Offsets, Bufs    \* where, and what, is written

VARIABLES entries,  \* <<directory, name, file>>
          dirs,     \* the directories
          bytes     \* the contents of every file and directory ever created

vars == <<entries, dirs, bytes>>

Init == entries = {} /\ dirs = {0} /\ bytes = [i \in {0} |-> <<>>]

Entry(d, n) == {e \in entries : e[1] = d /\ e[2] = n}

Create ==
  \E d \in dirs, n \in Names, i \in Ids \ DOMAIN bytes, isdir \in BOOLEAN :
    /\ Entry(d, n) = {}
    /\ entries' = entries \cup {<<d, n, i>>}
    /\ dirs' = IF isdir THEN dirs \cup {i} ELSE dirs
    /\ bytes' = [j \in DOMAIN bytes \cup {i} |-> IF j = i THEN <<>> ELSE bytes[j]]

(* The bytes between the old end and the first one written are zero.       *)
Overwritten(s, off, buf) ==
  LET end == off + Len(buf)
  IN  [x \in 1 .. IF end > Len(s) THEN end ELSE Len(s) |->
         IF x > off /\ x <= end THEN buf[x - off] ELSE IF x <= Len(s) THEN s[x] ELSE 0]

Write ==
  \E i \in DOMAIN bytes \ dirs, off \in Offsets, buf \in Bufs :
    /\ bytes' = [bytes EXCEPT ![i] = Overwritten(@, off, buf)]
    /\ UNCHANGED <<entries, dirs>>

Extend ==
  \E i \in DOMAIN bytes \ dirs, off \in Offsets :
    /\ off >= Len(bytes[i])
    /\ bytes' = [bytes EXCEPT ![i] = Overwritten(@, off, <<0>>)]
    /\ UNCHANGED <<entries, dirs>>

(* A directory that is emptied loses its entries.                          *)
Clear ==
  \E i \in DOMAIN bytes :
    /\ bytes' = [bytes EXCEPT ![i] = <<>>]
    /\ entries' = {e \in entries : e[1] # i}
    /\ UNCHANGED dirs

Next == Create \/ Write \/ Extend \/ Clear
=============================================================================
