---------------------------- MODULE FanSchedule -----------------------------
(***************************************************************************)
(* The fan of NodeOne (main/app_main.c).  Every message on the time topic  *)
(* spawns a task that looks at the clock about once a second for ever and  *)
(* starts the fan at its time of day; a one-shot esp_timer, kept in a      *)
(* global, stops it.  The monitor tasks, the timer task and the MQTT task  *)
(* share fan_state, fan_timer and the motor without a lock.                *)
(*                                                                         *)
(* The clock counts seconds of a day.  A second may pass while a monitor   *)
(* is between its test and the start of its timer, once in each stay there *)
(* (a bound); the timer task, whose priority is higher, does not lag.      *)
(* SNTP may set the clock to any time, as start-up does not wait for the   *)
(* first answer for ever.  The timer does not follow the clock.            *)
(***************************************************************************)
EXTENDS Integers, Sequences, FiniteSets

CONSTANTS Day,           \* seconds of a day (86400)
          MaxDuration,   \* bound: longest duration of a schedule
          Schedules,     \* [start, duration, speed] a message may carry
          Speeds,        \* speeds of manual commands
          MaxMonitors,   \* bound: schedules received
          retry_count,   \* polls of obtain_time (10)
          MaxClockSteps, \* bound: times SNTP sets the clock
          Timers         \* handles of esp_timer_create: what memory has room for

NULL == "NULL"

ASSUME FanAssumption ==
  /\ Day \in Nat \ {0} /\ MaxDuration \in Nat
  /\ Schedules \subseteq [start : 0 .. Day - 1, duration : 0 .. MaxDuration, speed : Nat]
  /\ Speeds \subseteq Nat
  /\ MaxMonitors \in Nat /\ retry_count \in Nat \ {0} /\ MaxClockSteps \in Nat
  /\ \E t, u \in Timers : t # u
  /\ NULL \notin Timers

VARIABLES clock,       \* time of day
          retry,       \* polls of obtain_time so far; 0 outside it
          started,     \* app_main has started the MQTT client
          clockSteps,  \* times SNTP has set the clock
          monitors,    \* the monitor tasks: the schedule, pc, polls, lag
          fan_state,
          fan_timer,   \* the global handle
          timer,       \* each timer: none, idle, armed or deleted
          left,        \* seconds left of an armed timer
          callback,    \* the timer task inside fan_off_callback
          duty,        \* duty at the motor
          corrupt,     \* a timer was used after its deletion
          manual,      \* history: the duty was last set by hand
          ranFor,      \* history: seconds fan_state has been up (capped), and for whom
          owner,
          raced,       \* history: a monitor passed its test while another was past its
          stepped      \* history: SNTP set the clock while one of those was past its test

timerVars   == <<fan_timer, timer, left, corrupt>>
runVars     == <<ranFor, owner>>
raceVars    == <<raced, stepped>>
historyVars == <<manual, runVars, raceVars>>
startVars   == <<retry, started>>
clockVars   == <<clock, clockSteps>>
vars == <<clockVars, startVars, monitors, fan_state, callback, duty, timerVars, historyVars>>

\* fan_control: 8 bits of duty for a speed in percent.
Duty(speed) == (speed * 255) \div 100

Monitors == DOMAIN monitors

Goto(m, label) == monitors' = [monitors EXCEPT ![m].pc = label]

-----------------------------------------------------------------------------
Init ==
  /\ clock = 0 /\ clockSteps = 0
  /\ retry = 0
  /\ started \in BOOLEAN   \* a clock that survived the reset is not waited for
  /\ monitors = <<>>
  /\ fan_state = FALSE
  /\ fan_timer = NULL
  /\ timer = [t \in Timers |-> "none"]
  /\ left = [t \in Timers |-> 0]
  /\ callback = "idle"
  /\ duty = 0
  /\ corrupt = FALSE
  /\ manual = FALSE /\ ranFor = 0 /\ owner = 0
  /\ raced = FALSE /\ stepped = FALSE

\* set_systemtime_sntp: a clock that is not set is waited for, one poll in two
\* seconds; start-up then goes on with the clock as it is.
synced == clockSteps > 0

\* Mutant: the polls are not counted.
obtain_timeForEver ==
  /\ ~started /\ ~synced
  /\ UNCHANGED vars

obtain_time ==
  /\ ~started /\ ~synced
  /\ retry + 1 < retry_count
  /\ retry' = retry + 1
  /\ UNCHANGED <<clockVars, started, monitors, fan_state, callback, duty, timerVars, historyVars>>

mqtt_app_start ==
  /\ ~started
  /\ synced \/ retry + 1 = retry_count
  /\ started' = TRUE
  /\ retry' = 0
  /\ UNCHANGED <<clockVars, monitors, fan_state, callback, duty, timerVars, historyVars>>

\* app_handle_mqtt_data, fan/time: start_fan_monitoring spawns a task, whatever
\* the tasks there are wait for.
NewSchedule(s) ==
  /\ started
  /\ Len(monitors) < MaxMonitors
  /\ monitors' = Append(monitors, [start |-> s.start, duration |-> s.duration,
                                   speed |-> s.speed, pc |-> "asleep", polls |-> 0, lag |-> 0])
  /\ UNCHANGED <<clockVars, startVars, fan_state, callback, duty, timerVars, historyVars>>

\* app_handle_mqtt_data, fan/control: fan_state is not looked at.
Manual(speed) ==
  /\ started
  /\ duty' = Duty(speed)
  /\ manual' = TRUE
  /\ UNCHANGED <<clockVars, startVars, monitors, fan_state, callback, timerVars, runVars, raceVars>>

-----------------------------------------------------------------------------
(* monitor_and_control_fan_task: polls 1000 ms apart may fall twice into one *)
(* second, or skip one.                                                      *)

Inside == {m \in Monitors : monitors[m].pc # "asleep"}

Polled(d, label) == [d EXCEPT !.polls = @ + 1, !.lag = 0, !.pc = label]

Check(m, passes) ==
  /\ monitors[m].pc = "asleep" /\ monitors[m].polls < 2
  /\ monitors' = [monitors EXCEPT ![m] = Polled(@, IF passes THEN "on" ELSE "asleep")]
  /\ raced' = (raced \/ (passes /\ Inside # {}))
  /\ UNCHANGED <<clockVars, startVars, fan_state, callback, duty, timerVars, manual, runVars, stepped>>

\* Mutant: fan_state is not asked for.
CheckTimeOnly(m) == Check(m, monitors[m].start = clock)

\* Mutant: the fan may start late.
CheckTimeOrLater(m) == Check(m, monitors[m].start <= clock /\ ~fan_state)

CheckTime(m) == Check(m, monitors[m].start = clock /\ ~fan_state)

TurnOn(m) ==
  /\ monitors[m].pc = "on"
  /\ duty' = Duty(monitors[m].speed)
  /\ manual' = FALSE
  /\ Goto(m, "flag")
  /\ UNCHANGED <<clockVars, startVars, fan_state, callback, timerVars, runVars, raceVars>>

SetState(m) ==
  /\ monitors[m].pc = "flag"
  /\ fan_state' = TRUE
  /\ ranFor' = 0 /\ owner' = IF raced THEN 0 ELSE m
  /\ Goto(m, "timer")
  /\ UNCHANGED <<clockVars, startVars, callback, duty, timerVars, manual, raceVars>>

-----------------------------------------------------------------------------
(* start_fan_timer: every call of the timer API reads the global again. *)

HasTimer(m) ==
  /\ monitors[m].pc = "timer"
  /\ Goto(m, IF fan_timer = NULL THEN "create" ELSE "stop")
  /\ UNCHANGED <<clockVars, startVars, fan_state, callback, duty, timerVars, historyVars>>

Live(t) == timer[t] \in {"idle", "armed"}

\* esp_timer_stop fails harmlessly on a timer that is not armed.
StopTimer(m) ==
  /\ monitors[m].pc = "stop"
  /\ timer' = IF Live(fan_timer) THEN [timer EXCEPT ![fan_timer] = "idle"] ELSE timer
  /\ corrupt' = (corrupt \/ ~Live(fan_timer))
  /\ left' = IF Live(fan_timer) THEN [left EXCEPT ![fan_timer] = 0] ELSE left
  /\ Goto(m, "delete")
  /\ UNCHANGED <<clockVars, startVars, fan_state, fan_timer, callback, duty, historyVars>>

\* esp_timer_delete refuses an armed timer.
DeleteTimer(m) ==
  /\ monitors[m].pc = "delete"
  /\ timer' = IF timer[fan_timer] = "idle" THEN [timer EXCEPT ![fan_timer] = "deleted"] ELSE timer
  /\ corrupt' = (corrupt \/ ~Live(fan_timer))
  /\ Goto(m, "create")
  /\ UNCHANGED <<clockVars, startVars, fan_state, fan_timer, left, callback, duty, historyVars>>

\* Mutant: a deleted timer is kept in the global.
CreateTimerOnce(m) ==
  /\ monitors[m].pc = "create"
  /\ IF fan_timer # NULL THEN UNCHANGED <<fan_timer, timer>>
     ELSE \E t \in Timers : fan_timer' = t /\ timer' = [timer EXCEPT ![t] = "idle"]
  /\ Goto(m, "start")
  /\ UNCHANGED <<clockVars, startVars, fan_state, left, callback, duty, corrupt, historyVars>>

\* esp_timer_create leaves the handle alone when there is no memory.
CreateTimer(m) ==
  /\ monitors[m].pc = "create"
  /\ \/ \E t \in Timers :
          /\ ~Live(t)
          /\ fan_timer' = t
          /\ timer' = [timer EXCEPT ![t] = "idle"]
     \/ /\ \A t \in Timers : Live(t)
        /\ UNCHANGED <<fan_timer, timer>>
  /\ Goto(m, "start")
  /\ UNCHANGED <<clockVars, startVars, fan_state, left, callback, duty, corrupt, historyVars>>

\* Mutant: a duration of zero does not arm the timer.
StartTimerIfPositive(m) ==
  /\ monitors[m].pc = "start"
  /\ IF timer[fan_timer] = "idle" /\ monitors[m].duration > 0
     THEN /\ timer' = [timer EXCEPT ![fan_timer] = "armed"]
          /\ left' = [left EXCEPT ![fan_timer] = monitors[m].duration]
     ELSE UNCHANGED <<timer, left>>
  /\ corrupt' = (corrupt \/ ~Live(fan_timer))
  /\ Goto(m, "asleep")
  /\ UNCHANGED <<clockVars, startVars, fan_state, fan_timer, callback, duty, historyVars>>

\* esp_timer_start_once refuses an armed timer.
StartTimer(m) ==
  /\ monitors[m].pc = "start"
  /\ IF timer[fan_timer] = "idle"
     THEN /\ timer' = [timer EXCEPT ![fan_timer] = "armed"]
          /\ left' = [left EXCEPT ![fan_timer] = monitors[m].duration]
     ELSE UNCHANGED <<timer, left>>
  /\ corrupt' = (corrupt \/ ~Live(fan_timer))
  /\ Goto(m, "asleep")
  /\ UNCHANGED <<clockVars, startVars, fan_state, fan_timer, callback, duty, historyVars>>

-----------------------------------------------------------------------------
(* The timer task and fan_off_callback. *)

Due(t) == timer[t] = "armed" /\ left[t] = 0

Fire(t) ==
  /\ callback = "idle"
  /\ Due(t)
  /\ timer' = [timer EXCEPT ![t] = "idle"]
  /\ callback' = "off"
  /\ UNCHANGED <<clockVars, startVars, monitors, fan_state, fan_timer, left, duty, corrupt, historyVars>>

\* Mutant: the motor is left on.
CallbackOffForgotten ==
  /\ callback = "off"
  /\ manual' = FALSE
  /\ callback' = "flag"
  /\ UNCHANGED <<clockVars, startVars, monitors, fan_state, duty, timerVars, runVars, raceVars>>

CallbackOff ==
  /\ callback = "off"
  /\ duty' = Duty(0)
  /\ manual' = FALSE
  /\ callback' = "flag"
  /\ UNCHANGED <<clockVars, startVars, monitors, fan_state, timerVars, runVars, raceVars>>

\* Mutant: the flag is left up.
CallbackFlagForgotten ==
  /\ callback = "flag"
  /\ callback' = "idle"
  /\ UNCHANGED <<clockVars, startVars, monitors, fan_state, duty, timerVars, historyVars>>

\* What is left of a race is over with a switch-off that leaves no timer armed
\* and meets no monitor past its test.
Settled == Inside = {} /\ ~corrupt /\ \A t \in Timers : timer[t] # "armed"

CallbackFlag ==
  /\ callback = "flag"
  /\ fan_state' = FALSE
  /\ callback' = "idle"
  /\ ranFor' = 0 /\ owner' = 0
  /\ raced' = (raced /\ ~Settled)
  /\ UNCHANGED <<clockVars, startVars, monitors, duty, timerVars, manual, stepped>>

-----------------------------------------------------------------------------
\* Mutant: no midnight.
NextSecondOfEver == clock + 1

NextSecond == (clock + 1) % Day

\* A second that was slept through is made up for by a poll in the next; the
\* second that overtakes a monitor at its work is made up for by its end.
MayWait(m) == monitors[m].lag = 0 \/ (m \notin Inside /\ monitors[m].polls > 0)

\* The next poll of a monitor that was overtaken is a second away from its end.
PassedBy(d) ==
  IF d.pc = "asleep" THEN [d EXCEPT !.polls = 0, !.lag = IF d.polls > 0 THEN 0 ELSE 1]
                     ELSE [d EXCEPT !.polls = 2, !.lag = 1]

\* A second passes when no timer is due and no monitor is late.
PassTo(second) ==
  /\ ~corrupt
  /\ callback = "idle"
  /\ \A t \in Timers : ~Due(t)
  /\ \A m \in Monitors : MayWait(m)
  /\ clock' = second
  /\ monitors' = [m \in Monitors |-> PassedBy(monitors[m])]
  /\ left' = [t \in Timers |-> IF timer[t] = "armed" THEN left[t] - 1 ELSE 0]
  /\ ranFor' = IF fan_state /\ ~raced /\ ranFor < MaxDuration + 2 THEN ranFor + 1 ELSE ranFor
  /\ UNCHANGED <<startVars, fan_state, fan_timer, timer, callback, duty, corrupt, manual, owner, raced>>

Tick ==
  /\ PassTo(NextSecond)
  /\ stepped' = (stepped /\ Inside # {})
  /\ UNCHANGED clockSteps

\* An answer of SNTP, before start-up goes on or at any time later.
SetClock ==
  /\ clockSteps < MaxClockSteps
  /\ \E second \in 0 .. Day - 1 : PassTo(second)
  /\ clockSteps' = clockSteps + 1
  /\ stepped' = (Inside # {})

\* What the program does once it has used a deleted timer is not defined, and
\* not followed.
Monitor(m) ==
  /\ ~corrupt
  /\ \/ CheckTime(m) \/ TurnOn(m) \/ SetState(m) \/ HasTimer(m)
     \/ StopTimer(m) \/ DeleteTimer(m) \/ CreateTimer(m) \/ StartTimer(m)

TimerTask ==
  /\ ~corrupt
  /\ (\E t \in Timers : Fire(t)) \/ CallbackOff \/ CallbackFlag

Next ==
  \/ obtain_time \/ mqtt_app_start
  \/ \E s \in Schedules : NewSchedule(s)
  \/ \E speed \in Speeds : Manual(speed)
  \/ \E m \in Monitors : Monitor(m)
  \/ TimerTask
  \/ Tick \/ SetClock

\* Ready tasks are scheduled and time passes; no message needs to arrive.
\* Only finitely many messages fit into a second (SF).
Fairness ==
  /\ \A m \in 1 .. MaxMonitors : WF_vars(m \in Monitors /\ Monitor(m))
  /\ WF_vars(TimerTask) /\ SF_vars(Tick)
  /\ WF_vars(obtain_time \/ mqtt_app_start)

Spec == Init /\ [][Next]_vars /\ Fairness

-----------------------------------------------------------------------------
Labels == {"asleep", "on", "flag", "timer", "stop", "delete", "create", "start"}

\* The variables keep their types.
TypeOK ==
  /\ clock \in 0 .. Day - 1 /\ clockSteps \in 0 .. MaxClockSteps
  /\ retry \in 0 .. retry_count - 1 /\ started \in BOOLEAN
  /\ \A m \in Monitors : /\ monitors[m].pc \in Labels
                         /\ monitors[m].polls \in 0 .. 2 /\ monitors[m].lag \in 0 .. 1
  /\ Len(monitors) <= MaxMonitors
  /\ fan_state \in BOOLEAN /\ corrupt \in BOOLEAN /\ manual \in BOOLEAN
  /\ fan_timer \in Timers \cup {NULL}
  /\ timer \in [Timers -> {"none", "idle", "armed", "deleted"}]
  /\ left \in [Timers -> 0 .. MaxDuration]
  /\ callback \in {"idle", "off", "flag"}
  /\ duty \in {Duty(v) : v \in Speeds \cup {0} \cup {s.speed : s \in Schedules}}
  /\ ranFor \in 0 .. MaxDuration + 2 /\ owner \in 0 .. MaxMonitors
  /\ raced \in BOOLEAN /\ stepped \in BOOLEAN

Quiet == callback = "idle" /\ Inside = {}

\* start_fan_timer uses a timer after its deletion only if two monitors passed
\* their tests before either had set fan_state: nothing else that happens to
\* the shared handle, at any hour and for any schedules, leads there.
NoUseAfterDelete == corrupt => raced

Neighbours(m, n) ==
  monitors[n].start \in {monitors[m].start, (monitors[m].start + 1) % Day}

\* Such a race is one between two schedules that start in the same second or in
\* neighbouring ones, unless SNTP moved the clock under a monitor at its work.
OnlyNeighboursRace ==
  [][(~raced /\ raced' /\ ~stepped) => \E m, n \in Monitors : m # n /\ Neighbours(m, n)]_vars

\* However the monitors interleave at the handle, a fan that runs has an armed
\* timer in the handle to stop it: no stop is lost to another monitor's
\* exchange of timers or to a refused call.
RunningFanIsTimed ==
  (Quiet /\ ~corrupt /\ (fan_state \/ (duty # 0 /\ ~manual))) =>
    fan_timer # NULL /\ timer[fan_timer] = "armed"

\* As long as no two monitors have raced, the timer of the run is the only one
\* that is armed, and none is armed between runs.
RunHasItsTimer ==
  (Quiet /\ ~raced) => \A t \in Timers : timer[t] = "armed" <=> (fan_state /\ t = fan_timer)

\* A scheduled run lasts as long as its message said, and at most the second
\* that may pass before its timer starts, whatever other schedules begin and
\* whatever SNTP makes of the clock, as long as no two monitors have raced.
RunLastsItsDuration ==
  [][(fan_state /\ ~fan_state' /\ ~raced) =>
       ranFor \in {monitors[owner].duration, monitors[owner].duration + 1}]_vars

\* Every scheduled run ends, also when monitors race for its timer, unless a
\* timer was used after its deletion.
RunEnds == fan_state ~> (~fan_state \/ corrupt)

\* Start-up waits for the time, but not for ever.
StartUpEnds == <>started
=============================================================================
