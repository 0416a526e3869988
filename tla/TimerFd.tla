------------------------------ MODULE TimerFd ------------------------------
(* A timer file (os/src/fs/timerfd.rs and the timerfd calls of               *)
(* os/src/syscall/fs.rs) shared by several readers and pollers.  Nothing     *)
(* runs when the timer fires: whoever looks next counts the expirations from *)
(* the clock.                                                                *)
EXTENDS Naturals, FiniteSets

CONSTANTS Readers,   \* bound: threads on the timer
          MaxTime,   \* bound: clock readings, from 1
          Values,    \* bound: it_value and it_interval, in microseconds, 0 for none
          Abstime    \* whether settime may be called with TFD_TIMER_ABSTIME

ASSUME TimerAssumption == MaxTime \in Nat /\ Values \subseteq Nat

VARIABLES timer,     \* TimerFdInner
          now,       \* get_time_us
          reading,   \* threads inside a blocking read
          armed,     \* history: first expiry and interval of the last arming
          told       \* history: expirations reads have returned since

timerVars == <<timer, now, reading, armed, told>>

Disarmed == [expiry |-> 0, interval |-> 0, expirations |-> 0]
TimerInit ==
  /\ timer = Disarmed /\ now = 1 /\ reading = {} /\ armed = [first |-> 0, every |-> 0] /\ told = 0

Tick == now < MaxTime /\ now' = now + 1 /\ UNCHANGED <<timer, reading, armed, told>>

(* check_expirations: the timer after a look at it.                          *)
Extra_RoundUp(elapsed, interval) == (elapsed + interval - 1) \div interval
Extra(elapsed, interval) == elapsed \div interval
Checked ==
  IF timer.expiry = 0 \/ now < timer.expiry THEN timer
  ELSE IF timer.interval = 0 THEN [timer EXCEPT !.expirations = @ + 1, !.expiry = 0]
  ELSE LET fired == 1 + Extra(now - timer.expiry, timer.interval) IN
       [timer EXCEPT !.expirations = @ + fired, !.expiry = @ + fired * timer.interval]

(* TimerFdFile::read: with TFD_NONBLOCK an idle timer is EAGAIN, otherwise   *)
(* the thread looks again each time it is scheduled, until a signal.         *)
Read(t) ==
  \/ /\ Checked.expirations > 0
     /\ told' = told + Checked.expirations
     /\ timer' = [Checked EXCEPT !.expirations = 0]
     /\ reading' = reading \ {t}
  \/ /\ Checked.expirations = 0
     /\ timer' = Checked
     /\ reading' \in {reading \cup {t}, reading \ {t}}
     /\ UNCHANGED told
ReadStep(t) == Read(t) /\ UNCHANGED <<now, armed>>

Poll == timer' = Checked /\ UNCHANGED <<now, reading, armed, told>>

(* sys_timerfd_settime: timerfd_arm, timerfd_disarm.                         *)
SetTime(value, interval, abs) ==
  LET first == IF abs THEN value ELSE now + value IN
  /\ abs => Abstime
  /\ timer' = IF value = 0 THEN Disarmed ELSE [expiry |-> first, interval |-> interval, expirations |-> 0]
  /\ armed' = IF value = 0 THEN [first |-> 0, every |-> 0] ELSE [first |-> first, every |-> interval]
  /\ told' = 0
  /\ UNCHANGED <<now, reading>>

TimerNext ==
  \/ Tick \/ Poll
  \/ \E t \in Readers : ReadStep(t)
  \/ \E value, interval \in Values, abs \in BOOLEAN : SetTime(value, interval, abs)
TimerSpec == TimerInit /\ [][TimerNext]_timerVars

Fires == {t \in 1..now : armed.first # 0 /\ (t = armed.first \/
            (armed.every # 0 /\ t > armed.first /\ (t - armed.first) % armed.every = 0))}

(* Every expiration since the timer was set is reported by one read and no   *)
(* other, whoever looked at the timer in between and however late: what the  *)
(* reads returned and what is counted but not yet read are the expirations   *)
(* before the one the timer waits for.                                       *)
EachExpirationOnce ==
  told + timer.expirations = Cardinality({t \in Fires : timer.expiry = 0 \/ t < timer.expiry})
=============================================================================
