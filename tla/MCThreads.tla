----------------------------- MODULE MCThreads ------------------------------
(* Process 1 with threads 1 (main) and 2, process 2 with thread 3, and two *)
(* words of their own.                                                     *)
EXTENDS Threads

TwoProcs == [t \in {1, 2, 3} |-> IF t = 3 THEN 2 ELSE 1]

Plain == [threads |-> {1, 2}, modes |-> {"shared"}, timeouts |-> {FALSE}, signals |-> {}, handled |-> {},
          itimers |-> FALSE, words |-> {0}, joined |-> {1, 2}, bitsets |-> {{1}}, queued |-> 2]

\* Futex waits, kills and exits of both processes.
WaitAndKill == [Plain EXCEPT !.threads = {1, 2, 3}, !.joined = {1, 2, 3}, !.signals = {9}, !.queued = 3]
\* Bit sets and requeues between two words.
Requeue == [Plain EXCEPT !.threads = {1, 2, 3}, !.words = {0, 50}, !.joined = {}, !.bitsets = {{1}, {1, 2}}, !.queued = 3]
\* Stop, continue and kill.
Stop == [Plain EXCEPT !.joined = {}, !.signals = {9, 18, 19}]
\* Timed waits, and ITIMER_REAL with a handler for SIGALRM.
Timed == [Plain EXCEPT !.timeouts = {TRUE, FALSE}, !.modes = {"private"}, !.signals = {9}]
Alarms == [Plain EXCEPT !.itimers = TRUE, !.joined = {}, !.handled = {14}]

All == {Requeue, Stop, Timed, Alarms}
Kills == {WaitAndKill}
=============================================================================
