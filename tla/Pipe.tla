-------------------------------- MODULE Pipe --------------------------------
(***************************************************************************)
(* The in-memory pipe of fs/pipe.rs: a ring buffer, two ends, and reads    *)
(* and writes that copy in chunks and poll while they cannot make          *)
(* progress.  A call gives up the processor only where it suspends, so one *)
(* that has started to copy runs to its end; `busy` is the thread inside.  *)
(***************************************************************************)
EXTENDS Integers, Sequences

CONSTANTS Threads,    \* threads that hold both ends
          Bytes,      \* byte values
          Capacity,   \* size of the ring
          Writes,     \* the byte sequences that programs write
          Reads,      \* the lengths that programs read
          Nobody      \* no thread

ASSUME PipeAssumption ==
  /\ Capacity \in Nat \ {0}
  /\ Nobody \notin Threads
  /\ 0 \in Bytes
  /\ Writes \subseteq Seq(Bytes) \ {<<>>}
  /\ Reads \subseteq Nat \ {0}

VARIABLES
  buf, head, tail, len,    \* PipeBuffer
  readOpen, writeOpen,
  nonblock,    \* O_NONBLOCK of each end
  op,          \* the call each thread is in: "none", "read" or "write"
  rtodo,       \* room left in the user buffer of a read
  wtodo,       \* bytes a write still has to copy
  total,       \* bytes transferred by the call so far
  got,         \* the bytes a read has copied so far
  pending,     \* an unmasked signal is pending for the thread
  busy,        \* the thread running inside a call, or Nobody
  result       \* what each thread's last call returned, and its transfer

ring == <<buf, head, tail, len>>
ends == <<readOpen, writeOpen, nonblock>>
calls == <<op, rtodo, wtodo, total, got, result>>
vars == <<ring, ends, calls, pending, busy>>

Slots == 0 .. Capacity - 1
Wrap(i) == i % Capacity
Min2(a, b) == IF a <= b THEN a ELSE b

Init ==
  /\ buf = [j \in Slots |-> 0]
  /\ head = 0 /\ tail = 0 /\ len = 0
  /\ readOpen = TRUE /\ writeOpen = TRUE
  /\ nonblock = [e \in {"read", "write"} |-> FALSE]
  /\ op = [t \in Threads |-> "none"]
  /\ rtodo = [t \in Threads |-> 0]
  /\ wtodo = [t \in Threads |-> <<>>]
  /\ total = [t \in Threads |-> 0]
  /\ got = [t \in Threads |-> <<>>]
  /\ pending = [t \in Threads |-> FALSE]
  /\ busy = Nobody
  /\ result = [t \in Threads |-> [ret |-> "none", bytes |-> 0]]

Room_Whole == Capacity
Room == Capacity - len

Runs(t) == busy \in {Nobody, t}

(* A call begins.                                                          *)
StartRead(t, n) ==
  /\ busy = Nobody /\ op[t] = "none" /\ readOpen
  /\ op' = [op EXCEPT ![t] = "read"]
  /\ rtodo' = [rtodo EXCEPT ![t] = n]
  /\ total' = [total EXCEPT ![t] = 0]
  /\ busy' = t
  /\ UNCHANGED <<ring, ends, wtodo, got, result, pending>>

StartWrite(t, data) ==
  /\ busy = Nobody /\ op[t] = "none" /\ writeOpen
  /\ op' = [op EXCEPT ![t] = "write"]
  /\ wtodo' = [wtodo EXCEPT ![t] = data]
  /\ total' = [total EXCEPT ![t] = 0]
  /\ busy' = t
  /\ UNCHANGED <<ring, ends, rtodo, got, result, pending>>

(* The call returns to the program; the signal, if any, is handled there.  *)
Return(t, ret) ==
  /\ result' = [result EXCEPT ![t] = [ret |-> ret, bytes |-> total[t]]]
  /\ op' = [op EXCEPT ![t] = "none"]
  /\ rtodo' = [rtodo EXCEPT ![t] = 0]
  /\ wtodo' = [wtodo EXCEPT ![t] = <<>>]
  /\ got' = [got EXCEPT ![t] = <<>>]
  /\ pending' = [pending EXCEPT ![t] = FALSE]
  /\ busy' = Nobody
  /\ UNCHANGED <<ring, ends, total>>

(* A call that cannot make progress: EAGAIN on a non-blocking end, EINTR   *)
(* on a pending signal, else it suspends and polls again.                  *)
CannotProgress_Zero(t) ==
  IF nonblock[op[t]] \/ pending[t] THEN Return(t, "ok")
  ELSE busy' = Nobody /\ UNCHANGED <<ring, ends, calls, pending>>
CannotProgress(t) ==
  IF nonblock[op[t]] THEN Return(t, "EAGAIN")
  ELSE IF pending[t] THEN Return(t, "EINTR")
  ELSE busy' = Nobody /\ UNCHANGED <<ring, ends, calls, pending>>

(* One iteration of read_into: up to the end of the ring, of the data or   *)
(* of the slice.  A user buffer is cut into slices at page boundaries,     *)
(* which may be anywhere: `slice` is what is left of the present one.      *)
ReadChunk(t, slice) ==
  /\ op[t] = "read" /\ Runs(t)
  /\ len > 0
  /\ LET n == Min2(Min2(Capacity - head, len), slice)
     IN  /\ got' = [got EXCEPT ![t] = @ \o [i \in 1 .. n |-> buf[head + i - 1]]]
         /\ head' = Wrap(head + n)
         /\ len' = len - n
         /\ total' = [total EXCEPT ![t] = @ + n]
         /\ rtodo' = [rtodo EXCEPT ![t] = @ - n]
  /\ busy' = t
  /\ UNCHANGED <<buf, tail, ends, op, wtodo, result, pending>>

(* The other branches of read: end of the user buffer, end of file, a      *)
(* short read, or a wait.                                                  *)
ReadStops_NotAtEOF(t) == rtodo[t] = 0 \/ total[t] > 0
ReadStops(t) == rtodo[t] = 0 \/ ~writeOpen \/ total[t] > 0
ReadEnd(t) ==
  /\ op[t] = "read" /\ Runs(t)
  /\ rtodo[t] = 0 \/ len = 0
  /\ IF ReadStops(t) THEN Return(t, "ok") ELSE CannotProgress(t)

(* One iteration of write_from.                                            *)
WriteChunk(t, slice) ==
  /\ op[t] = "write" /\ Runs(t)
  /\ readOpen /\ len < Capacity
  /\ LET n == Min2(Min2(Capacity - tail, Room), slice)
     IN  /\ buf' = [j \in Slots |-> IF j \in tail .. tail + n - 1 THEN wtodo[t][j - tail + 1] ELSE buf[j]]
         /\ tail' = Wrap(tail + n)
         /\ len' = len + n
         /\ total' = [total EXCEPT ![t] = @ + n]
         /\ wtodo' = [wtodo EXCEPT ![t] = SubSeq(@, n + 1, Len(@))]
  /\ busy' = t
  /\ UNCHANGED <<head, ends, op, rtodo, got, result, pending>>

(* The other branches of write_user_buffer: done, reader gone (EPIPE and   *)
(* SIGPIPE if nothing was written), a short write, or a wait.              *)
ShortWrite_Waits(t) == FALSE
ShortWrite(t) == total[t] > 0
WriteEnd(t) ==
  /\ op[t] = "write" /\ Runs(t)
  /\ wtodo[t] = <<>> \/ ~readOpen \/ len = Capacity
  /\ IF wtodo[t] = <<>> THEN Return(t, "ok")
     ELSE IF ~readOpen THEN Return(t, IF total[t] = 0 THEN "EPIPE" ELSE "ok")
     ELSE IF ShortWrite(t) THEN Return(t, "ok") ELSE CannotProgress(t)

(* Drop of a PipeEnd: a call in progress holds a reference to its end.     *)
CloseRead ==
  /\ busy = Nobody /\ readOpen /\ \A t \in Threads : op[t] # "read"
  /\ readOpen' = FALSE
  /\ UNCHANGED <<ring, writeOpen, nonblock, calls, pending, busy>>

CloseWrite ==
  /\ busy = Nobody /\ writeOpen /\ \A t \in Threads : op[t] # "write"
  /\ writeOpen' = FALSE
  /\ UNCHANGED <<ring, readOpen, nonblock, calls, pending, busy>>

SetStatusFlags(e, flag) ==
  /\ busy = Nobody
  /\ nonblock' = [nonblock EXCEPT ![e] = flag]
  /\ UNCHANGED <<ring, readOpen, writeOpen, calls, pending, busy>>

(* A signal reaches a thread that is polling in a call.                    *)
Signal(t) ==
  /\ busy = Nobody /\ op[t] # "none"
  /\ pending' = [pending EXCEPT ![t] = TRUE]
  /\ UNCHANGED <<ring, ends, calls, busy>>

Step(t) == \/ \E slice \in 1 .. rtodo[t] : ReadChunk(t, slice)
           \/ \E slice \in 1 .. Len(wtodo[t]) : WriteChunk(t, slice)
           \/ ReadEnd(t) \/ WriteEnd(t)

Next ==
  \/ \E t \in Threads : \/ \E r \in Reads : StartRead(t, r)
                        \/ \E w \in Writes : StartWrite(t, w)
                        \/ Step(t) \/ Signal(t)
  \/ CloseRead \/ CloseWrite
  \/ \E e \in {"read", "write"}, flag \in BOOLEAN : SetStatusFlags(e, flag)

Spec == Init /\ [][Next]_vars

(* The ready queue is first-in first-out, so a thread that polls gets its  *)
(* turn again and again.                                                   *)
FairSpec == Spec /\ \A t \in Threads : SF_vars(Step(t))

-----------------------------------------------------------------------------
(* Type invariant: the ring's indices agree with its length.               *)
TypeOK ==
  /\ buf \in [Slots -> Bytes]
  /\ head \in Slots /\ tail \in Slots /\ len \in 0 .. Capacity
  /\ tail = Wrap(head + len)
  /\ readOpen \in BOOLEAN /\ writeOpen \in BOOLEAN
  /\ nonblock \in [{"read", "write"} -> BOOLEAN]
  /\ op \in [Threads -> {"none", "read", "write"}]
  /\ rtodo \in [Threads -> Nat]
  /\ wtodo \in [Threads -> Seq(Bytes)]
  /\ total \in [Threads -> Nat]
  /\ got \in [Threads -> Seq(Bytes)]
  /\ pending \in [Threads -> BOOLEAN]
  /\ busy \in Threads \cup {Nobody}
  /\ result \in [Threads -> [ret : {"none", "ok", "EAGAIN", "EINTR", "EPIPE"}, bytes : Nat]]

(* The bytes in the ring, oldest first.                                    *)
Contents == [i \in 1 .. len |-> buf[Wrap(head + i - 1)]]

Stream == INSTANCE ByteStream WITH queue <- Contents, inbox <- got, outbox <- wtodo

(* The pipe is a bounded first-in first-out stream of bytes.               *)
StreamSpec == Stream!Spec

(* EAGAIN, EINTR and EPIPE mean that nothing was transferred: the program  *)
(* will repeat the whole call (the `total > 0` tests of pipe.rs).          *)
ErrorMovesNothing == \A t \in Threads : result[t].ret \in {"EAGAIN", "EINTR", "EPIPE"} => result[t].bytes = 0

(* A call that has transferred something never gives up the processor      *)
(* before it returns, so the bytes of one write stay together.             *)
TransfersUnbroken == \A t \in Threads : (op[t] # "none" /\ total[t] > 0) => busy = t

(* A read returns 0 bytes only at end of file: the writing end is closed   *)
(* and the ring is empty.                                                  *)
ZeroMeansEOF ==
  [][\A t \in Threads : (op[t] = "read" /\ op'[t] = "none" /\ result'[t] = [ret |-> "ok", bytes |-> 0])
                          => ~writeOpen /\ len = 0]_vars

(* Once the other end is closed, a polling read or write returns.          *)
CloseEndsCalls ==
  \A t \in Threads :
    ((op[t] = "read" /\ ~writeOpen) \/ (op[t] = "write" /\ ~readOpen)) ~> (op[t] = "none")
=============================================================================
