----------------------------- MODULE ByteStream -----------------------------
(***************************************************************************)
(* What a pipe promises: a bounded first-in first-out stream of bytes with *)
(* two ends.  A write puts a front part of its data on the stream, a read  *)
(* takes bytes off the other side in order; nothing is lost, duplicated or *)
(* reordered, and nothing is put once the reading end is closed.           *)
(***************************************************************************)
EXTENDS Integers, Sequences

CONSTANTS Threads, Bytes, Capacity

VARIABLES queue,      \* the bytes in the pipe, oldest first
          inbox,      \* bytes delivered so far to each thread's read
          outbox,     \* bytes each thread's write still has to put
          readOpen, writeOpen

vars == <<queue, inbox, outbox, readOpen, writeOpen>>

Init == /\ queue = <<>>
        /\ inbox = [t \in Threads |-> <<>>]
        /\ outbox = [t \in Threads |-> <<>>]
        /\ readOpen = TRUE
        /\ writeOpen = TRUE

(* A thread starts a write, or gives up what is left of it.                *)
Offer(t) == /\ outbox'[t] \in Seq(Bytes)
            /\ outbox' = [outbox EXCEPT ![t] = outbox'[t]]
            /\ outbox'[t] # <<>> => outbox[t] = <<>> /\ writeOpen
            /\ UNCHANGED <<queue, inbox, readOpen, writeOpen>>

Put(t, n) == /\ readOpen /\ writeOpen
             /\ n \in 1 .. Len(outbox[t])
             /\ Len(queue) + n <= Capacity
             /\ queue' = queue \o SubSeq(outbox[t], 1, n)
             /\ outbox' = [outbox EXCEPT ![t] = SubSeq(@, n + 1, Len(@))]
             /\ UNCHANGED <<inbox, readOpen, writeOpen>>

Take(t, n) == /\ readOpen
              /\ n \in 1 .. Len(queue)
              /\ inbox' = [inbox EXCEPT ![t] = @ \o SubSeq(queue, 1, n)]
              /\ queue' = SubSeq(queue, n + 1, Len(queue))
              /\ UNCHANGED <<outbox, readOpen, writeOpen>>

(* The read hands its bytes over to the caller.                            *)
Deliver(t) == /\ inbox' = [inbox EXCEPT ![t] = <<>>]
              /\ UNCHANGED <<queue, outbox, readOpen, writeOpen>>

CloseRead == readOpen' = FALSE /\ UNCHANGED <<queue, inbox, outbox, writeOpen>>
CloseWrite == /\ writeOpen' = FALSE
              /\ \A t \in Threads : outbox[t] = <<>>
              /\ UNCHANGED <<queue, inbox, outbox, readOpen>>

Next == \/ \E t \in Threads : \/ Offer(t)
                              \/ Deliver(t)
                              \/ \E n \in 1 .. Capacity : Put(t, n) \/ Take(t, n)
        \/ CloseRead \/ CloseWrite

Spec == Init /\ [][Next]_vars
=============================================================================
