----------------------------- MODULE MCSignals -----------------------------
\* Small instances of Signals: two threads, two or three signals at a time.
EXTENDS Signals

Act(h, m, f) == [handler |-> h, mask |-> m, flags |-> f]

\* Masks, handlers that block other signals (and try to block SIGKILL), and
\* sigsuspend.
Masks == [signals |-> {9, 10}, masks |-> {{}, {9, 10}},
          actions |-> {Act("user", {9}, {}), Act("ign", {}, {})},
          calls |-> {"sigsuspend", "nanosleep"}]

\* SA_SIGINFO, SA_RESETHAND and cancellation.
Cancel == [signals |-> {10, 33}, masks |-> {{}, {10}, {33}},
           actions |-> {Act("user", {33}, {"SIGINFO"}), Act("user", {}, {"RESETHAND"})},
           calls |-> {}]

\* Ignored signals, stops and sigtimedwait.
Waits == [signals |-> {17, 18, 19}, masks |-> {{17}},
          actions |-> {Act("unmapped", {}, {}), Act("user", {17}, {})},
          calls |-> {"sigtimedwait"}]

All == {Masks, Cancel, Waits}
=============================================================================
