-------------------------------- MODULE Disk --------------------------------
(***************************************************************************)
(* What a block device promises the file systems above it: a read returns  *)
(* what was last written, writes reach the disk in any order and at any    *)
(* time, a sync returns when all of them have, and a power failure keeps   *)
(* what had reached the disk.                                              *)
(***************************************************************************)
CONSTANTS Blocks, Contents, Zero

VARIABLES content,  \* what a read returns
          durable,  \* what a power failure leaves
          answer    \* of the last operation

vars == <<content, durable, answer>>

Init == /\ content = [b \in Blocks |-> Zero]
        /\ durable = content
        /\ answer = <<>>

Read == /\ \E b \in Blocks : answer' = <<b, content[b]>>
        /\ UNCHANGED <<content, durable>>

Write == /\ \E b \in Blocks, v \in Contents : content' = [content EXCEPT ![b] = v]
         /\ UNCHANGED <<durable, answer>>

Persist == /\ \E b \in Blocks : durable' = [durable EXCEPT ![b] = content[b]]
           /\ UNCHANGED <<content, answer>>

Sync == /\ durable = content
        /\ answer' = <<"synced">>
        /\ UNCHANGED <<content, durable>>

PowerFailure == /\ content' = durable
                /\ answer' = <<>>
                /\ UNCHANGED durable

Next == Read \/ Write \/ Persist \/ Sync \/ PowerFailure

Spec == Init /\ [][Next]_vars
=============================================================================
