------------------------------ MODULE Schedule ------------------------------
(***************************************************************************)
(* When a scheduled gather or poll runs (flowcb/scheduled/__init__.py,     *)
(* flowcb/scheduled/poll.py).  Time is counted in half minutes, a day in   *)
(* minutes; the flow may be busy for any time between two calls of gather, *)
(* and the clock is read again when the day is over.                       *)
(***************************************************************************)
EXTENDS Naturals, FiniteSetsExt

CONSTANTS
    ScheduleOptions, \* [interval, times]: scheduled_interval; the minutes of the day
                     \* that scheduled_hour, scheduled_minute and scheduled_time name
    MinutesADay,     \* bound: how long a day is
    MaxTime,         \* bound: half minutes
    default_wait

VARIABLES
    sopt, spc,
    clock,
    appointments, next_gather_time,
    last_gather_time,
    served,           \* history: the last time something was run or the program started
    rolledOver        \* history: the day for which "tomorrow" was taken to be the day after it

sVars == <<sopt, spc, clock, appointments, next_gather_time, last_gather_time, served,
           rolledOver>>

Day == 2 * MinutesADay
DayOf(t) == t \div Day
MinuteOf(t) == (t % Day) \div 2
Midnight(day) == day * Day

TypeOK ==
    /\ sopt \in ScheduleOptions
    /\ spc \in {"off", "start", "idle"}
    /\ clock \in 0 .. MaxTime
    /\ next_gather_time \in Nat /\ \A t \in appointments : t % 2 = 0
    /\ served <= clock

-----------------------------------------------------------------------------
HasTimes == sopt.times # {}

(* update_appointments: what is left of the day, the current minute included. *)
UpdateAppointments(when) ==
    {Midnight(DayOf(when)) + 2 * m : m \in {k \in sopt.times : k >= MinuteOf(when)}}

(* calc_next_gather_time: appointments that have gone by are dropped; when none is left
   they are those of tomorrow, as seen from the clock by then. *)
MissedBefore(t, last) == t < last
Missed(t, last) == t <= last

DayAfterTomorrow(t) == DayOf(t) + 2
Tomorrow(t) == DayOf(t) + 1

CalcNext(appts, next, last, later) ==
    LET left == {t \in appts \ {next} : ~Missed(t, last)} IN
    IF sopt.interval > 0
    THEN [appts |-> appts \ {next}, next |-> last + sopt.interval]
    ELSE IF ~HasTimes
    THEN [appts |-> appts \ {next}, next |-> last + default_wait]
    ELSE IF left # {} THEN [appts |-> left, next |-> Min(left)]
    ELSE LET tomorrow == UpdateAppointments(Midnight(Tomorrow(later))) IN
         [appts |-> tomorrow, next |-> Min(tomorrow)]

(* The day is over by the clock: "tomorrow" is the day after the one that has begun. *)
RollsOver(appts, next, last, when, later) ==
    /\ HasTimes /\ sopt.interval = 0 /\ {t \in appts \ {next} : ~Missed(t, last)} = {}
    /\ DayOf(later) # DayOf(when)

(* The clock when it is read the second time. *)
Later(t) == {t, t + 1} \cap 0 .. MaxTime

(* __init__: with an interval the first gather is at once. *)
Start ==
    /\ spc = "start"
    /\ \E later \in Later(clock) :
          LET appts == IF HasTimes THEN UpdateAppointments(clock) ELSE {}
              calc == CalcNext(appts, 0, clock, later) IN
          /\ clock' = later
          /\ served' = later
          /\ IF sopt.interval > 0
             THEN appointments' = appts /\ next_gather_time' = clock
             ELSE appointments' = calc.appts /\ next_gather_time' = calc.next
          /\ rolledOver' = IF RollsOver(appts, 0, clock, clock, later) THEN DayOf(later) ELSE rolledOver
    /\ spc' = "idle"
    /\ UNCHANGED <<sopt, last_gather_time>>

(* gather, after ready_to_gather said yes. *)
ReadyToGather ==
    /\ spc = "idle" /\ clock >= next_gather_time
    /\ \E later \in Later(clock) :
          LET calc == CalcNext(appointments, next_gather_time, clock, later) IN
          /\ appointments' = calc.appts
          /\ next_gather_time' = calc.next
          /\ clock' = later
          /\ rolledOver' = IF RollsOver(appointments, next_gather_time, clock,
                                        next_gather_time, later)
                           THEN DayOf(later) ELSE rolledOver
    /\ last_gather_time' = clock
    /\ served' = clock
    /\ UNCHANGED <<sopt, spc>>

Tick ==
    /\ spc = "idle" /\ clock < MaxTime
    /\ clock' = clock + 1
    /\ UNCHANGED <<sopt, spc, appointments, next_gather_time, last_gather_time, served,
                   rolledOver>>

-----------------------------------------------------------------------------
(* It may be started at any time of its first day. *)
InitAs(pc) ==
    /\ sopt \in (IF pc = "off" THEN {CHOOSE o \in ScheduleOptions : TRUE} ELSE ScheduleOptions)
    /\ spc = (IF pc = "off" THEN "off" ELSE "start")
    /\ clock \in (IF pc = "off" THEN {0} ELSE 0 .. Day - 1)
    /\ appointments = {} /\ next_gather_time = 0
    /\ last_gather_time = 0 /\ served = 0 /\ rolledOver = MaxTime

Init == InitAs("idle")

Next == Start \/ ReadyToGather \/ Tick

Spec == Init /\ [][Next]_sVars

-----------------------------------------------------------------------------
IsAppointment(t) == HasTimes /\ t % 2 = 0 /\ MinuteOf(t) \in sopt.times

(* An appointment that has come since the last gather is answered by the next call of
   gather, however late it is.  Except those of a day that had begun before the last
   appointment of an earlier one was answered: see EveryDay. *)
AppointmentKept ==
    spc = "idle" /\ sopt.interval = 0 =>
        \A t \in 0 .. clock :
            IsAppointment(t) /\ served < t /\ DayOf(t) # rolledOver
                => next_gather_time <= clock

(* scheduled_hour 4,9 is at 4Z and 9Z every day: no appointment is passed over. *)
EveryDay ==
    spc = "idle" /\ sopt.interval = 0 /\ last_gather_time > 0 =>
        \A t \in 0 .. clock :
            IsAppointment(t) /\ served < t => next_gather_time <= clock

(* What is run once for an appointment is not run for it a second time: after a gather
   the next one is for an appointment that is still to come, and an interval away. *)
NotTwice ==
    spc = "idle" /\ last_gather_time > 0 =>
        /\ next_gather_time > last_gather_time
        /\ sopt.interval > 0 => next_gather_time >= last_gather_time + sopt.interval
=============================================================================
