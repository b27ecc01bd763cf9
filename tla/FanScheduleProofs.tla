------------------------- MODULE FanScheduleProofs --------------------------
(***************************************************************************)
(* Proofs about FanSchedule, for a day of any length and any set of        *)
(* schedules, timers and monitors.  What is said of the handle and of the  *)
(* race for it holds in every state.  What is said of single runs holds    *)
(* until two monitors race and again when the race is over: then a monitor *)
(* that is past its test is alone there, and the run is its own.           *)
(***************************************************************************)
EXTENDS FanSchedule, SequenceTheorems, TLAPS

-----------------------------------------------------------------------------
(* The invariants *)

\* A monitor keeps the schedule of its message.
MonitorType ==
  [start : 0 .. Day - 1, duration : 0 .. MaxDuration, speed : {s.speed : s \in Schedules},
   pc : Labels, polls : 0 .. 2, lag : 0 .. 1]

MonitorsTyped == monitors \in Seq(MonitorType)

\* The calls that use the handle come after the test for NULL.
HasHandle ==
  /\ \A m \in Monitors : monitors[m].pc \in {"stop", "delete", "start"} => fan_timer # NULL
  /\ \A t \in Timers : timer[t] # "none" => fan_timer # NULL

TypeInv == TypeOK /\ MonitorsTyped /\ HasHandle

Timing == {"timer", "stop", "delete", "create", "start"}

Nobody(labels) == \A m \in Monitors : monitors[m].pc \notin labels

\* A monitor that has found its start time is at most a second past it, unless
\* SNTP has set the clock meanwhile.
AtItsTime ==
  \A m \in Inside : ~stepped =>
    clock = IF monitors[m].lag = 0 THEN monitors[m].start ELSE (monitors[m].start + 1) % Day

\* The handle is dead only between a deletion and the creation that follows.
HandleLives == (fan_timer # NULL /\ ~corrupt /\ Nobody({"create"})) => Live(fan_timer)

\* A motor that runs will be stopped: by a monitor that has yet to start its
\* timer, by the callback or by the timer in the handle.
Timed ==
  (~corrupt /\ (fan_state \/ (duty # 0 /\ ~manual))) =>
    \/ Inside # {}
    \/ callback = "off"
    \/ callback = "flag" /\ (duty = 0 \/ manual)
    \/ fan_timer # NULL /\ timer[fan_timer] = "armed"

\* Who is past its test is alone.
OneInside == \A m, n \in Inside : m = n

\* From the test of the flag until it is set, nobody sets it.
DownBefore == \A m \in Monitors : monitors[m].pc \in {"on", "flag"} => ~fan_state

\* While the timer is exchanged the run is that of the monitor, and new: it is
\* a second old if a second has overtaken the monitor.
UpDuring ==
  \A m \in Monitors : monitors[m].pc \in Timing =>
    fan_state /\ callback = "idle" /\ owner = m /\ ranFor <= monitors[m].lag

Lasted(seconds, m) == seconds \in {monitors[m].duration, monitors[m].duration + 1}

\* The callback ends a run that has lasted its time.
CallbackEnds == callback # "idle" => fan_state /\ owner \in Monitors /\ Lasted(ranFor, owner)

\* Only the timer of the run is armed, and only when it is complete.
ArmedIsRun ==
  \A t \in Timers : timer[t] = "armed" =>
    t = fan_timer /\ fan_state /\ callback = "idle" /\ Inside = {}

\* A complete run has its timer, and what it has run and has left is its time.
RunIsArmed ==
  (fan_state /\ callback = "idle" /\ Inside = {}) =>
    /\ fan_timer # NULL /\ timer[fan_timer] = "armed"
    /\ owner \in Monitors
    /\ Lasted(left[fan_timer] + ranFor, owner)

SingleRun ==
  OneInside /\ DownBefore /\ UpDuring /\ CallbackEnds /\ ArmedIsRun /\ RunIsArmed

HandleInv == HandleLives /\ Timed
RunInv    == NoUseAfterDelete /\ (~raced => SingleRun)

-----------------------------------------------------------------------------
(* Steps of a monitor *)

SameSchedules ==
  /\ Monitors' = Monitors
  /\ \A n \in Monitors : /\ monitors'[n].start = monitors[n].start
                         /\ monitors'[n].duration = monitors[n].duration
                         /\ monitors'[n].speed = monitors[n].speed

\* A step takes m to a label and leaves the other monitors where they are.
Moved(m, label) ==
  /\ SameSchedules
  /\ monitors'[m].pc = label
  /\ \A n \in Monitors \ {m} : monitors'[n].pc = monitors[n].pc /\ monitors'[n].lag = monitors[n].lag

LEMMA MonitorsAre ==
  ASSUME MonitorsTyped
  PROVE  /\ Monitors = 1 .. Len(monitors) /\ Len(monitors) \in Nat
         /\ \A m \in Monitors : monitors[m] \in MonitorType
<1>1. Monitors = 1 .. Len(monitors) /\ Len(monitors) \in Nat
  BY LenProperties DEF MonitorsTyped, Monitors
<1>2. ASSUME NEW m \in Monitors PROVE monitors[m] \in MonitorType
  BY <1>1, <1>2, ElementOfSeq DEF MonitorsTyped
<1> QED BY <1>1, <1>2

\* Replacing one monitor by another with the same schedule.
LEMMA Replaced ==
  ASSUME MonitorsTyped, NEW m \in Monitors, NEW e \in MonitorType,
         monitors' = [monitors EXCEPT ![m] = e],
         e.start = monitors[m].start, e.duration = monitors[m].duration, e.speed = monitors[m].speed
  PROVE  MonitorsTyped' /\ Moved(m, e.pc) /\ Len(monitors') = Len(monitors) /\ monitors'[m].lag = e.lag
<1>1. m \in 1 .. Len(monitors) /\ Monitors = 1 .. Len(monitors)
  BY MonitorsAre
<1>2. /\ monitors' \in Seq(MonitorType) /\ Len(monitors') = Len(monitors)
      /\ \A n \in 1 .. Len(monitors) : monitors'[n] = IF n = m THEN e ELSE monitors[n]
  BY <1>1, ExceptSeq DEF MonitorsTyped
<1>3. MonitorsTyped'
  BY <1>2 DEF MonitorsTyped
<1>4. Monitors' = Monitors
  <2>1. DOMAIN monitors' = 1 .. Len(monitors')
    BY <1>2, LenProperties
  <2> QED BY <1>1, <1>2, <2>1 DEF Monitors
<1> QED BY <1>1, <1>2, <1>3, <1>4 DEF Moved, SameSchedules

\* A monitor with another label, count of polls and lag has the same schedule.
At(d, label, p, l) == [d EXCEPT !.polls = p, !.pc = label, !.lag = l]

LEMMA SameSchedule ==
  ASSUME NEW d \in MonitorType, NEW label \in Labels, NEW p \in 0 .. 2, NEW l \in 0 .. 1
  PROVE  /\ At(d, label, p, l) \in MonitorType /\ At(d, label, p, l).pc = label
         /\ At(d, label, p, l).start = d.start
         /\ At(d, label, p, l).duration = d.duration
         /\ At(d, label, p, l).speed = d.speed
<1> DEFINE e1 == [d EXCEPT !.polls = p]
           e2 == [e1 EXCEPT !.pc = label]
           e3 == [e2 EXCEPT !.lag = l]
<1>1. At(d, label, p, l) = e3
  BY DEF At
<1>2. e1 \in MonitorType /\ e1.start = d.start /\ e1.duration = d.duration /\ e1.speed = d.speed
  BY DEF MonitorType
<1> HIDE DEF e1
<1>3. /\ e2 \in MonitorType /\ e2.pc = label
      /\ e2.start = e1.start /\ e2.duration = e1.duration /\ e2.speed = e1.speed
  BY <1>2 DEF MonitorType
<1> HIDE DEF e2
<1>4. /\ e3 \in MonitorType /\ e3.pc = e2.pc
      /\ e3.start = e2.start /\ e3.duration = e2.duration /\ e3.speed = e2.speed
  BY <1>3 DEF MonitorType
<1> QED BY <1>1, <1>2, <1>3, <1>4

LEMMA NewLag ==
  ASSUME NEW d \in MonitorType, NEW label, NEW p, NEW l
  PROVE  At(d, label, p, l).lag = l
BY DEF At, MonitorType

LEMMA GotoMoves ==
  ASSUME MonitorsTyped, NEW m \in Monitors, NEW label \in Labels, Goto(m, label)
  PROVE  MonitorsTyped' /\ Moved(m, label) /\ Len(monitors') = Len(monitors) /\ monitors'[m].lag = monitors[m].lag
<1> DEFINE e == [monitors[m] EXCEPT !.pc = label]
<1>1. monitors[m] \in MonitorType
  BY MonitorsAre
<1>2. /\ e \in MonitorType /\ e.pc = label /\ e.lag = monitors[m].lag
      /\ e.start = monitors[m].start /\ e.duration = monitors[m].duration /\ e.speed = monitors[m].speed
  BY <1>1 DEF MonitorType
<1>3. monitors' = [monitors EXCEPT ![m] = e]
  BY DEF Goto
<1> HIDE DEF e
<1> QED BY <1>2, <1>3, Replaced

LEMMA CheckMoves ==
  ASSUME MonitorsTyped, NEW m \in Monitors, CheckTime(m)
  PROVE  /\ MonitorsTyped' /\ Len(monitors') = Len(monitors)
         /\ Moved(m, IF monitors[m].start = clock /\ ~fan_state THEN "on" ELSE "asleep")
         /\ monitors'[m].lag = 0
<1> DEFINE passes == monitors[m].start = clock /\ ~fan_state
           label == IF passes THEN "on" ELSE "asleep"
           d == monitors[m]
           p == d.polls + 1
           e == Polled(d, label)
<1>1. d \in MonitorType /\ d.polls < 2 /\ label \in Labels
  BY MonitorsAre DEF CheckTime, Check, Labels
<1>2. monitors' = [monitors EXCEPT ![m] = e]
  BY DEF CheckTime, Check
<1> HIDE DEF label, d
<1>3. p \in 0 .. 2 /\ 0 \in 0 .. 1
  BY <1>1 DEF MonitorType
<1>4. e = At(d, label, p, 0)
  BY <1>1 DEF MonitorType, At, Polled
<1> HIDE DEF p, e
<1>5. /\ e \in MonitorType /\ e.pc = label /\ e.lag = 0
      /\ e.start = d.start /\ e.duration = d.duration /\ e.speed = d.speed
  <2>1. label \in Labels
    BY <1>1
  <2>2. /\ At(d, label, p, 0) \in MonitorType /\ At(d, label, p, 0).pc = label
        /\ At(d, label, p, 0).start = d.start
        /\ At(d, label, p, 0).duration = d.duration
        /\ At(d, label, p, 0).speed = d.speed
    BY <1>1, <1>3, <2>1, SameSchedule
  <2>3. At(d, label, p, 0).lag = 0
    BY <1>1, NewLag
  <2> QED BY <1>4, <2>2, <2>3
<1>6. MonitorsTyped' /\ Moved(m, e.pc) /\ Len(monitors') = Len(monitors) /\ monitors'[m].lag = e.lag
  BY <1>2, <1>5, Replaced DEF d
<1> QED BY <1>5, <1>6 DEF label

\* A new monitor sleeps; the others stay as they are.
LEMMA ScheduleAppends ==
  ASSUME MonitorsTyped, NEW s \in Schedules, NewSchedule(s)
  PROVE  /\ MonitorsTyped' /\ Len(monitors') = Len(monitors) + 1
         /\ Monitors' = Monitors \cup {Len(monitors) + 1} /\ Len(monitors) + 1 \notin Monitors
         /\ \A n \in Monitors : monitors'[n] = monitors[n]
         /\ monitors'[Len(monitors) + 1].pc = "asleep"
         /\ monitors'[Len(monitors) + 1].start = s.start
<1> DEFINE e == [start |-> s.start, duration |-> s.duration, speed |-> s.speed,
                 pc |-> "asleep", polls |-> 0, lag |-> 0]
<1>1. e \in MonitorType /\ e.pc = "asleep" /\ e.start = s.start
  BY FanAssumption DEF MonitorType, Labels
<1>2. monitors' = Append(monitors, e)
  BY DEF NewSchedule
<1> HIDE DEF e
<1>3. /\ monitors' \in Seq(MonitorType) /\ Len(monitors') = Len(monitors) + 1
      /\ \A n \in 1 .. Len(monitors) : monitors'[n] = monitors[n]
      /\ monitors'[Len(monitors) + 1] = e
  BY <1>1, <1>2, AppendProperties DEF MonitorsTyped
<1>4. DOMAIN monitors' = 1 .. Len(monitors')
  BY <1>3, LenProperties
<1>5. Monitors = 1 .. Len(monitors) /\ Len(monitors) \in Nat
  BY MonitorsAre
<1>6. Monitors' = 1 .. Len(monitors) + 1
  BY <1>3, <1>4 DEF Monitors
<1> QED BY <1>1, <1>3, <1>5, <1>6 DEF MonitorsTyped

\* A second that passes leaves the monitors where they are; who is at work has
\* been overtaken once, now.
LEMMA PassingMonitors ==
  ASSUME MonitorsTyped, NEW second, PassTo(second)
  PROVE  /\ MonitorsTyped' /\ SameSchedules /\ Len(monitors') = Len(monitors)
         /\ \A n \in Monitors : monitors'[n].pc = monitors[n].pc
         /\ \A n \in Inside : monitors[n].lag = 0 /\ monitors'[n].lag = 1
         /\ Inside' = Inside
<1>1. monitors' = [n \in Monitors |-> PassedBy(monitors[n])]
  BY DEF PassTo
<1>2. Monitors = 1 .. Len(monitors) /\ Len(monitors) \in Nat
  BY MonitorsAre
<1>3. ASSUME NEW d \in MonitorType
      PROVE  /\ PassedBy(d) \in MonitorType /\ PassedBy(d).pc = d.pc
             /\ d.pc # "asleep" => PassedBy(d).lag = 1
             /\ PassedBy(d).start = d.start /\ PassedBy(d).duration = d.duration /\ PassedBy(d).speed = d.speed
  <2> DEFINE label == d.pc
             l == IF d.polls > 0 THEN 0 ELSE 1
  <2>1. label \in Labels /\ l \in 0 .. 1 /\ 1 \in 0 .. 1 /\ 0 \in 0 .. 2 /\ 2 \in 0 .. 2
    BY <1>3 DEF MonitorType
  <2>2. PassedBy(d) = IF label = "asleep" THEN At(d, label, 0, l) ELSE At(d, label, 2, 1)
    BY <1>3 DEF PassedBy, MonitorType, At
  <2> HIDE DEF label, l
  <2>3. ASSUME NEW q \in 0 .. 2, NEW k \in 0 .. 1
        PROVE  /\ At(d, label, q, k) \in MonitorType /\ At(d, label, q, k).pc = label
               /\ At(d, label, q, k).start = d.start
               /\ At(d, label, q, k).duration = d.duration
               /\ At(d, label, q, k).speed = d.speed
    <3>1. label \in Labels
      BY <2>1
    <3>2. q \in 0 .. 2 /\ k \in 0 .. 1
      BY <2>3
    <3> QED BY <1>3, <3>1, <3>2, SameSchedule
  <2>4. CASE label = "asleep"
    BY <2>1, <2>2, <2>3, <2>4 DEF label
  <2>5. CASE label # "asleep"
    <3>1. At(d, label, 2, 1).lag = 1
      BY <1>3, NewLag
    <3> QED BY <2>1, <2>2, <2>3, <2>5, <3>1 DEF label
  <2> QED BY <2>4, <2>5
<1>4. \A n \in Monitors : monitors[n] \in MonitorType
  BY MonitorsAre
<1>5. monitors' \in Seq(MonitorType)
  BY <1>1, <1>2, <1>3, <1>4
<1>6. DOMAIN monitors' = Monitors /\ Len(monitors') = Len(monitors)
  BY <1>1, <1>2
<1>7. \A n \in Monitors : monitors'[n].pc = monitors[n].pc
  BY <1>1, <1>3, <1>4
<1>o. \A n \in Monitors : monitors[n].pc # "asleep" => monitors'[n].lag = 1
  BY <1>1, <1>3, <1>4
<1>8. SameSchedules
  BY <1>1, <1>3, <1>4, <1>6 DEF SameSchedules, Monitors
<1>9. \A n \in Inside : monitors[n].lag = 0
  BY DEF PassTo, MayWait, Inside
<1>10. Monitors' = Monitors
  BY <1>6 DEF Monitors
<1>11. Inside' = Inside
  BY <1>7, <1>10 DEF Inside
<1>12. \A n \in Inside : monitors[n].lag = 0 /\ monitors'[n].lag = 1
  BY <1>o, <1>9, Zenon DEF Inside
<1>13. MonitorsTyped'
  BY <1>5 DEF MonitorsTyped
<1> QED BY <1>6, <1>7, <1>8, <1>11, <1>12, <1>13, Zenon

\* Who is past its test after a step of one monitor.
LEMMA MovedInside ==
  ASSUME NEW m \in Monitors, NEW label, Moved(m, label)
  PROVE  Inside' = IF label = "asleep" THEN Inside \ {m} ELSE Inside \cup {m}
BY DEF Moved, SameSchedules, Inside

-----------------------------------------------------------------------------
(* Types *)

Duties == {Duty(v) : v \in Speeds \cup {0} \cup {s.speed : s \in Schedules}}

\* TypeOK without the monitors, by what the actions change together.
StartType == /\ clock \in 0 .. Day - 1 /\ clockSteps \in 0 .. MaxClockSteps
             /\ retry \in 0 .. retry_count - 1 /\ started \in BOOLEAN
TimerType == /\ fan_timer \in Timers \cup {NULL} /\ corrupt \in BOOLEAN
             /\ timer \in [Timers -> {"none", "idle", "armed", "deleted"}]
             /\ left \in [Timers -> 0 .. MaxDuration]
FanType   == /\ fan_state \in BOOLEAN /\ manual \in BOOLEAN
             /\ callback \in {"idle", "off", "flag"}
             /\ duty \in Duties
             /\ ranFor \in 0 .. MaxDuration + 2 /\ owner \in 0 .. MaxMonitors
             /\ raced \in BOOLEAN /\ stepped \in BOOLEAN

LEMMA TypeParts ==
  MonitorsTyped => (TypeOK <=> StartType /\ TimerType /\ FanType /\ Len(monitors) <= MaxMonitors)
<1> SUFFICES ASSUME MonitorsTyped
             PROVE  \A m \in Monitors : /\ monitors[m].pc \in Labels
                                        /\ monitors[m].polls \in 0 .. 2 /\ monitors[m].lag \in 0 .. 1
  BY DEF TypeOK, StartType, TimerType, FanType, Duties
<1> TAKE m \in Monitors
<1>1. monitors[m] \in MonitorType
  BY MonitorsAre
<1> QED BY <1>1 DEF MonitorType

LEMMA TypePartsNext ==
  ASSUME MonitorsTyped', StartType', TimerType', FanType', Len(monitors') <= MaxMonitors
  PROVE  TypeOK'
<1>1. TypeOK' <=> (StartType /\ TimerType /\ FanType /\ Len(monitors) <= MaxMonitors)'
  BY TypeParts, PTL
<1> QED BY <1>1

LEMMA Sizes ==
  /\ Day \in Nat \ {0} /\ MaxDuration \in Nat /\ MaxMonitors \in Nat
  /\ retry_count \in Nat \ {0} /\ MaxClockSteps \in Nat /\ NULL \notin Timers
BY FanAssumption

\* The duties of the type are what the code asks for.
LEMMA DutiesAre ==
  /\ Duty(0) = 0 /\ 0 \in Duties
  /\ \A v \in Speeds : Duty(v) \in Duties
  /\ \A v \in {s.speed : s \in Schedules} : Duty(v) \in Duties
<1>1. Duty(0) = 0
  BY DEF Duty
<1>2. \A v \in Speeds \cup {0} \cup {s.speed : s \in Schedules} : Duty(v) \in Duties
  BY DEF Duties
<1> QED BY <1>1, <1>2

LEMMA TypeInit == Init => TypeInv
<1> SUFFICES ASSUME Init PROVE TypeInv
  OBVIOUS
<1>1. MonitorsTyped /\ Monitors = {} /\ Len(monitors) = 0
  BY DEF Init, MonitorsTyped, Monitors
<1>2. StartType
  BY FanAssumption DEF Init, StartType
<1>4. TimerType
  <2>1. fan_timer = NULL /\ corrupt = FALSE /\ timer = [t \in Timers |-> "none"]
        /\ left = [t \in Timers |-> 0]
    BY DEF Init
  <2>2. 0 \in 0 .. MaxDuration
    BY Sizes
  <2> QED BY <2>1, <2>2 DEF TimerType
<1>3. FanType
  <2>1. /\ fan_state = FALSE /\ callback = "idle" /\ duty = 0 /\ manual = FALSE /\ ranFor = 0 /\ owner = 0
        /\ raced = FALSE /\ stepped = FALSE
    BY DEF Init
  <2>2. 0 \in 0 .. MaxDuration + 2 /\ 0 \in 0 .. MaxMonitors
    BY Sizes
  <2> QED BY <2>1, <2>2, DutiesAre DEF FanType
<1>5. \A t \in Timers : timer[t] = "none"
  BY DEF Init
<1> QED BY <1>1, <1>2, <1>3, <1>4, <1>5, TypeParts, FanAssumption DEF TypeInv, HasHandle

\* The clock goes on to the next second, or SNTP sets it.
Stepping(second) ==
  \/ second = NextSecond /\ stepped' = (stepped /\ Inside # {})
  \/ stepped' = (Inside # {})

LEMMA StepCases ==
  StartType /\ [Next]_vars =>
    \/ obtain_time \/ mqtt_app_start
    \/ \E s \in Schedules : NewSchedule(s)
    \/ \E speed \in Speeds : Manual(speed)
    \/ \E m \in Monitors :
         \/ CheckTime(m) \/ TurnOn(m) \/ SetState(m) \/ HasTimer(m)
         \/ StopTimer(m) \/ DeleteTimer(m) \/ CreateTimer(m) \/ StartTimer(m)
    \/ \E t \in Timers : Fire(t)
    \/ CallbackOff \/ CallbackFlag
    \/ \E second \in 0 .. Day - 1 : PassTo(second) /\ clockSteps' \in {clockSteps, clockSteps + 1}
                                      /\ clockSteps' <= MaxClockSteps
                                      /\ Stepping(second)
    \/ UNCHANGED vars
<1>1. ASSUME StartType, Tick
      PROVE  \E second \in 0 .. Day - 1 : PassTo(second) /\ clockSteps' = clockSteps /\ Stepping(second)
  <2>1. NextSecond \in 0 .. Day - 1
    BY <1>1, Sizes DEF StartType, NextSecond
  <2> QED BY <1>1, <2>1 DEF Tick, Stepping
<1>2. StartType => clockSteps \in Nat /\ clockSteps <= MaxClockSteps
  BY Sizes DEF StartType
<1>3. SetClock => clockSteps < MaxClockSteps /\ clockSteps' = clockSteps + 1
                    /\ \E second \in 0 .. Day - 1 : PassTo(second) /\ Stepping(second)
  BY DEF SetClock, Stepping
<1>4. StartType /\ SetClock => clockSteps' <= MaxClockSteps
  BY <1>2, <1>3, Sizes
<1> QED BY <1>1, <1>2, <1>3, <1>4 DEF Next, Monitor, TimerTask

LEMMA TypeNext == TypeInv /\ [Next]_vars => TypeInv'
<1> SUFFICES ASSUME TypeInv, [Next]_vars PROVE TypeInv'
  OBVIOUS
<1> USE DEF TypeInv
<1>t. StartType /\ TimerType /\ FanType /\ MonitorsTyped /\ Len(monitors) <= MaxMonitors
  BY TypeParts
<1>m. /\ Monitors = 1 .. Len(monitors) /\ Len(monitors) \in Nat
      /\ \A m \in Monitors : monitors[m] \in MonitorType
  BY <1>t, MonitorsAre
<1>q. ASSUME StartType', TimerType', FanType', MonitorsTyped', Len(monitors') <= MaxMonitors, HasHandle'
      PROVE  TypeInv'
  BY <1>q, TypePartsNext
<1>1. CASE obtain_time \/ mqtt_app_start
  <2>1. StartType'
    <3>1. retry' \in 0 .. retry_count - 1
      BY <1>1, <1>t, Sizes DEF obtain_time, mqtt_app_start, StartType
    <3> QED BY <1>1, <1>t, <3>1 DEF obtain_time, mqtt_app_start, StartType, clockVars
  <2>2. UNCHANGED <<monitors, fan_state, callback, duty, timerVars, historyVars>>
    BY <1>1 DEF obtain_time, mqtt_app_start
  <2> QED BY <1>t, <1>q, <2>1, <2>2 DEF TimerType, FanType, MonitorsTyped, HasHandle, Monitors, timerVars, historyVars, runVars, raceVars
<1>2. ASSUME NEW s \in Schedules, NewSchedule(s) PROVE TypeInv'
  <2>1. MonitorsTyped' /\ Len(monitors') <= MaxMonitors
    BY <1>2, <1>t, <1>m, ScheduleAppends, Sizes DEF NewSchedule
  <2>2. UNCHANGED <<clockVars, startVars, fan_state, callback, duty, timerVars, historyVars>>
    BY <1>2 DEF NewSchedule
  <2>3. HasHandle'
    BY <1>2, <2>2, ScheduleAppends DEF HasHandle, timerVars
  <2> QED BY <1>t, <1>q, <2>1, <2>2, <2>3 DEF StartType, TimerType, FanType, timerVars, historyVars, runVars, raceVars, clockVars, startVars
<1>3. ASSUME NEW speed \in Speeds, Manual(speed) PROVE TypeInv'
  <2>1. FanType'
    BY <1>3, <1>t, DutiesAre DEF Manual, FanType, runVars, raceVars
  <2>2. UNCHANGED <<clockVars, startVars, monitors, timerVars>>
    BY <1>3 DEF Manual
  <2> QED BY <1>t, <1>q, <2>1, <2>2 DEF StartType, TimerType, MonitorsTyped, HasHandle, Monitors, timerVars, clockVars, startVars
\* A monitor that takes no timer call.
<1>4. ASSUME NEW m \in Monitors, CheckTime(m) \/ TurnOn(m) \/ SetState(m) \/ HasTimer(m)
      PROVE  TypeInv'
  <2>1. /\ UNCHANGED <<clockVars, startVars>>
        /\ fan_timer' = fan_timer /\ timer' = timer /\ left' = left /\ corrupt' = corrupt
    BY <1>4 DEF CheckTime, Check, TurnOn, SetState, HasTimer, timerVars
  <2>2. FanType'
    <3>1. monitors[m].speed \in {s.speed : s \in Schedules}
      BY <1>m DEF MonitorType
    <3>2. m \in 0 .. MaxMonitors
      BY <1>m, <1>t, Sizes
    <3>3. 0 \in 0 .. MaxDuration + 2
      BY Sizes
    <3>4. CASE CheckTime(m) \/ HasTimer(m)
      BY <1>t, <3>4 DEF CheckTime, Check, HasTimer, FanType, historyVars, runVars, raceVars
    <3>5. CASE TurnOn(m)
      BY <1>t, <3>1, <3>5, DutiesAre DEF TurnOn, FanType, historyVars, runVars, raceVars
    <3>6. CASE SetState(m)
      BY <1>t, <3>2, <3>3, <3>6, Sizes DEF SetState, FanType, raceVars
    <3> QED BY <1>4, <3>4, <3>5, <3>6
  <2>3. \E label \in Labels :
          /\ MonitorsTyped' /\ Moved(m, label) /\ Len(monitors') = Len(monitors)
          /\ label \in {"stop", "delete", "start"} => fan_timer # NULL
    <3>1. CASE CheckTime(m)
      BY <3>1, <1>t, CheckMoves DEF Labels
    <3>2. CASE TurnOn(m)
      BY <3>2, <1>t, GotoMoves DEF TurnOn, Labels
    <3>3. CASE SetState(m)
      BY <3>3, <1>t, GotoMoves DEF SetState, Labels
    <3>4. CASE HasTimer(m)
      BY <3>4, <1>t, GotoMoves DEF HasTimer, Labels
    <3> QED BY <1>4, <3>1, <3>2, <3>3, <3>4
  <2>4. HasHandle'
    BY <2>1, <2>3 DEF HasHandle, Moved, SameSchedules
  <2> QED BY <1>t, <1>q, <2>1, <2>2, <2>3, <2>4 DEF StartType, TimerType, clockVars, startVars
\* A timer call.
<1>5. ASSUME NEW m \in Monitors, StopTimer(m) \/ DeleteTimer(m) \/ CreateTimer(m) \/ StartTimer(m)
      PROVE  TypeInv'
  <2>1. UNCHANGED <<clockVars, startVars, fan_state, callback, duty, historyVars>>
    BY <1>5 DEF StopTimer, DeleteTimer, CreateTimer, StartTimer
  <2>2. monitors[m].duration \in 0 .. MaxDuration
    BY <1>m DEF MonitorType
  <2>3. ~CreateTimer(m) => fan_timer \in Timers /\ fan_timer' = fan_timer
    BY <1>5, <1>t DEF HasHandle, StopTimer, DeleteTimer, StartTimer, TimerType
  <2>4. TimerType'
    <3>1. CASE StopTimer(m)
      <4>1. 0 \in 0 .. MaxDuration
        BY Sizes
      <4>2. left' \in [Timers -> 0 .. MaxDuration]
        BY <1>t, <2>3, <3>1, <4>1 DEF StopTimer, TimerType
      <4>3. timer' \in [Timers -> {"none", "idle", "armed", "deleted"}]
        BY <1>t, <2>3, <3>1 DEF StopTimer, TimerType
      <4> QED BY <1>t, <2>3, <3>1, <4>2, <4>3 DEF StopTimer, TimerType
    <3>2. CASE DeleteTimer(m)
      BY <1>t, <2>3, <3>2 DEF DeleteTimer, TimerType
    <3>3. CASE CreateTimer(m)
      BY <1>t, <3>3 DEF CreateTimer, TimerType
    <3>4. CASE StartTimer(m)
      BY <1>t, <2>2, <2>3, <3>4 DEF StartTimer, TimerType
    <3> QED BY <1>5, <3>1, <3>2, <3>3, <3>4
  <2>5. \E label \in Labels : MonitorsTyped' /\ Moved(m, label) /\ Len(monitors') = Len(monitors)
    BY <1>5, <1>t, GotoMoves DEF StopTimer, DeleteTimer, CreateTimer, StartTimer, Labels
  <2>6. fan_timer' # NULL
    <3>1. CASE ~CreateTimer(m)
      BY <2>3, <3>1, Sizes
    <3>2. CASE CreateTimer(m)
      <4>1. CASE \A t \in Timers : Live(t)
        BY <1>t, <3>2, <4>1, FanAssumption, Sizes DEF CreateTimer, HasHandle, Live
      <4>2. CASE \E t \in Timers : ~Live(t) /\ fan_timer' = t
        BY <4>2, Sizes
      <4> QED BY <3>2, <4>1, <4>2 DEF CreateTimer
    <3> QED BY <3>1, <3>2
  <2> QED BY <1>t, <1>q, <2>1, <2>4, <2>5, <2>6 DEF StartType, FanType, HasHandle, historyVars, runVars, raceVars, clockVars, startVars
<1>6. ASSUME NEW t \in Timers, Fire(t) PROVE TypeInv'
  <2>1. TimerType'
    BY <1>6, <1>t DEF Fire, TimerType
  <2>2. FanType'
    BY <1>6, <1>t DEF Fire, FanType, historyVars, runVars, raceVars
  <2>3. /\ UNCHANGED <<clockVars, startVars, monitors, fan_timer>>
        /\ \A u \in Timers : timer'[u] # "none" => timer[u] # "none"
    BY <1>6, <1>t DEF Fire, Due, TimerType
  <2> QED BY <1>t, <1>q, <2>1, <2>2, <2>3 DEF StartType, MonitorsTyped, HasHandle, Monitors, clockVars, startVars
<1>7. CASE CallbackOff \/ CallbackFlag
  <2>1. FanType'
    <3>1. 0 \in 0 .. MaxDuration + 2 /\ 0 \in 0 .. MaxMonitors
      BY Sizes
    <3>2. CASE CallbackOff
      BY <3>2, <1>t, DutiesAre DEF CallbackOff, FanType, runVars, raceVars
    <3>3. CASE CallbackFlag
      <4>1. (raced /\ ~Settled) \in BOOLEAN
        OBVIOUS
      <4> QED BY <3>3, <1>t, <3>1, <4>1 DEF CallbackFlag, FanType
    <3> QED BY <1>7, <3>2, <3>3
  <2>2. UNCHANGED <<clockVars, startVars, monitors, timerVars>>
    BY <1>7 DEF CallbackOff, CallbackFlag
  <2> QED BY <1>t, <1>q, <2>1, <2>2 DEF StartType, TimerType, MonitorsTyped, HasHandle, Monitors, timerVars, clockVars, startVars
<1>8. ASSUME NEW second \in 0 .. Day - 1, PassTo(second),
             clockSteps' \in {clockSteps, clockSteps + 1}, clockSteps' <= MaxClockSteps, Stepping(second)
      PROVE  TypeInv'
  <2>1. StartType'
    <3>1. clockSteps' \in 0 .. MaxClockSteps
      BY <1>8, <1>t, Sizes DEF StartType
    <3>2. clock' = second /\ UNCHANGED startVars
      BY <1>8 DEF PassTo
    <3> QED BY <1>8, <1>t, <3>1, <3>2 DEF StartType, startVars
  <2>2. TimerType'
    <3>1. ASSUME NEW t \in Timers
          PROVE  (IF timer[t] = "armed" THEN left[t] - 1 ELSE 0) \in 0 .. MaxDuration
      <4>1. left[t] \in 0 .. MaxDuration /\ (timer[t] = "armed" => left[t] # 0)
        BY <1>8, <1>t DEF PassTo, Due, TimerType
      <4> QED BY <4>1, Sizes
    <3>2. left' \in [Timers -> 0 .. MaxDuration]
      BY <1>8, <3>1 DEF PassTo
    <3> QED BY <1>8, <1>t, <3>2 DEF PassTo, TimerType
  <2>3. FanType'
    <3>1. ranFor' \in 0 .. MaxDuration + 2
      <4>1. ranFor' = IF fan_state /\ ~raced /\ ranFor < MaxDuration + 2 THEN ranFor + 1 ELSE ranFor
        BY <1>8 DEF PassTo
      <4>2. ranFor \in 0 .. MaxDuration + 2
        BY <1>t DEF FanType
      <4> QED BY <4>1, <4>2, Sizes
    <3>2. stepped' \in BOOLEAN
      BY <1>8, <1>t DEF Stepping, FanType
    <3> QED BY <1>8, <1>t, <3>1, <3>2 DEF PassTo, FanType
  <2>4. MonitorsTyped' /\ Len(monitors') = Len(monitors) /\ HasHandle'
    BY <1>8, <1>t, PassingMonitors DEF PassTo, HasHandle, SameSchedules
  <2> QED BY <1>t, <1>q, <2>1, <2>2, <2>3, <2>4
<1>9. CASE UNCHANGED vars
  BY <1>9, <1>t, <1>q DEF vars, StartType, TimerType, FanType, MonitorsTyped, HasHandle, Monitors,
     timerVars, historyVars, runVars, raceVars, clockVars, startVars
<1> QED BY StepCases, <1>t, <1>1, <1>2, <1>3, <1>4, <1>5, <1>6, <1>7, <1>8, <1>9

LEMMA SpecTypes == Spec => []TypeInv
<1> QED BY TypeInit, TypeNext, PTL DEF Spec

\* Monitors, timers and the clock keep their types whatever the schedules are:
\* the timer API is never called on a handle that was never created.
THEOREM FanTypeCorrect == Spec => []TypeOK
<1>1. TypeInv => TypeOK
  BY DEF TypeInv
<1> QED BY <1>1, SpecTypes, PTL

-----------------------------------------------------------------------------
(* Steps of a monitor, and of nobody's *)

\* Every step of a monitor after its test.
Work(m) ==
  \/ TurnOn(m) \/ SetState(m) \/ HasTimer(m)
  \/ StopTimer(m) \/ DeleteTimer(m) \/ CreateTimer(m) \/ StartTimer(m)

LEMMA WorkMoves ==
  ASSUME MonitorsTyped, NEW m \in Monitors, Work(m)
  PROVE  /\ m \in Inside /\ UNCHANGED <<clock, callback, raced, stepped>>
         /\ monitors'[m].lag = monitors[m].lag
         /\ \E label \in Labels :
              /\ Moved(m, label)
              /\ label = "asleep" <=> StartTimer(m)
<1>1. m \in Inside /\ UNCHANGED <<clock, callback, raced, stepped>>
  BY DEF Work, TurnOn, SetState, HasTimer, StopTimer, DeleteTimer, CreateTimer, StartTimer,
     Inside, clockVars, historyVars, raceVars
<1>2. \E label \in Labels :
        Goto(m, label) /\ (label = "asleep" <=> StartTimer(m))
  BY DEF Work, TurnOn, SetState, HasTimer, StopTimer, DeleteTimer, CreateTimer, StartTimer, Labels
<1> QED BY <1>1, <1>2, GotoMoves

\* The other steps do not move a monitor, or add one that sleeps, or let time pass.
Elsewhere ==
  \/ obtain_time \/ mqtt_app_start \/ (\E speed \in Speeds : Manual(speed)) \/ UNCHANGED vars

LEMMA ElsewhereKeeps ==
  ASSUME Elsewhere
  PROVE  /\ UNCHANGED <<monitors, clock, fan_state, fan_timer, timer, left, callback, corrupt,
                       ranFor, owner, raced, stepped>>
         /\ Monitors' = Monitors /\ Inside' = Inside
         /\ UNCHANGED <<duty, manual>> \/ manual' = TRUE
<1>1. /\ UNCHANGED <<monitors, clock, fan_state, fan_timer, timer, left, callback, corrupt,
                     ranFor, owner, raced, stepped>>
      /\ UNCHANGED <<duty, manual>> \/ manual' = TRUE
  BY DEF Elsewhere, obtain_time, mqtt_app_start, Manual, vars, clockVars, timerVars, historyVars, runVars, raceVars
<1> QED BY <1>1 DEF Monitors, Inside

LEMMA NewSleeps ==
  ASSUME MonitorsTyped, NEW s \in Schedules, NewSchedule(s)
  PROVE  /\ Inside' = Inside /\ Monitors \subseteq Monitors'
         /\ \A n \in Monitors : monitors'[n] = monitors[n]
         /\ \A n \in Monitors' : n \in Monitors \/ monitors'[n].pc = "asleep"
         /\ UNCHANGED <<clock, fan_state, fan_timer, timer, left, callback, corrupt, duty, manual,
                       ranFor, owner, raced, stepped>>
<1> DEFINE k == Len(monitors) + 1
<1>1. /\ Monitors' = Monitors \cup {k} /\ k \notin Monitors
      /\ \A n \in Monitors : monitors'[n] = monitors[n]
      /\ monitors'[k].pc = "asleep"
  BY ScheduleAppends
<1> HIDE DEF k
<1>2. UNCHANGED <<clock, fan_state, fan_timer, timer, left, callback, corrupt, duty, manual,
                  ranFor, owner, raced, stepped>>
  BY DEF NewSchedule, clockVars, timerVars, historyVars, runVars, raceVars
<1> QED BY <1>1, <1>2 DEF Inside

LEMMA Cases ==
  StartType /\ [Next]_vars =>
    \/ Elsewhere
    \/ \E s \in Schedules : NewSchedule(s)
    \/ \E m \in Monitors : CheckTime(m) \/ Work(m)
    \/ \E t \in Timers : Fire(t)
    \/ CallbackOff \/ CallbackFlag
    \/ \E second \in 0 .. Day - 1 : PassTo(second) /\ Stepping(second)
BY StepCases DEF Elsewhere, Work

-----------------------------------------------------------------------------
(* Monitors at their start times *)

LEMMA PlaceNext == TypeInv /\ AtItsTime /\ [Next]_vars => AtItsTime'
<1> SUFFICES ASSUME TypeInv, AtItsTime, [Next]_vars PROVE AtItsTime'
  OBVIOUS
<1>t. StartType /\ MonitorsTyped
  BY TypeParts DEF TypeInv
<1>1. CASE Elsewhere
  BY <1>1, ElsewhereKeeps DEF AtItsTime
<1>2. ASSUME NEW s \in Schedules, NewSchedule(s) PROVE AtItsTime'
  BY <1>t, <1>2, NewSleeps DEF AtItsTime, Inside
<1>3. ASSUME NEW m \in Monitors, CheckTime(m) PROVE AtItsTime'
  <2> DEFINE label == IF monitors[m].start = clock /\ ~fan_state THEN "on" ELSE "asleep"
  <2>1. Moved(m, label) /\ monitors'[m].lag = 0 /\ UNCHANGED <<clock, stepped>>
    BY <1>t, <1>3, CheckMoves DEF CheckTime, Check, clockVars
  <2>2. label # "asleep" => monitors[m].start = clock
    OBVIOUS
  <2> HIDE DEF label
  <2>3. Inside' \subseteq Inside \cup {m} /\ (m \in Inside' => label # "asleep")
    BY <2>1, MovedInside DEF Moved, SameSchedules, Inside
  <2> QED BY <2>1, <2>2, <2>3 DEF AtItsTime, Moved, SameSchedules, Inside
<1>4. ASSUME NEW m \in Monitors, Work(m) PROVE AtItsTime'
  <2>1. /\ m \in Inside /\ UNCHANGED <<clock, stepped>> /\ monitors'[m].lag = monitors[m].lag
    BY <1>t, <1>4, WorkMoves
  <2>2. PICK label : Moved(m, label)
    BY <1>t, <1>4, WorkMoves
  <2>3. Inside' \subseteq Inside
    BY <2>1, <2>2, MovedInside
  <2> QED BY <2>1, <2>2, <2>3 DEF AtItsTime, Moved, SameSchedules, Inside
<1>5. CASE (\E t \in Timers : Fire(t)) \/ CallbackOff \/ CallbackFlag
  <2>1. UNCHANGED <<monitors, clock, stepped>>
    BY <1>5 DEF Fire, CallbackOff, CallbackFlag, clockVars, historyVars, raceVars
  <2> QED BY <2>1 DEF AtItsTime, Inside, Monitors
<1>6. ASSUME NEW second \in 0 .. Day - 1, PassTo(second), Stepping(second) PROVE AtItsTime'
  <2>1. /\ SameSchedules /\ Inside' = Inside
        /\ \A n \in Inside : monitors[n].lag = 0 /\ monitors'[n].lag = 1
    BY <1>t, <1>6, PassingMonitors
  <2>2. clock' = second
    BY <1>6 DEF PassTo
  <2> SUFFICES ASSUME NEW n \in Inside, ~stepped'
               PROVE  clock' = (monitors'[n].start + 1) % Day /\ monitors'[n].lag # 0
    BY <2>1 DEF AtItsTime
  <2>3. second = NextSecond /\ ~stepped
    BY <1>6 DEF Stepping
  <2>4. clock = monitors[n].start
    BY <2>1, <2>3 DEF AtItsTime
  <2>5. monitors'[n].start = monitors[n].start
    BY <2>1 DEF SameSchedules, Inside
  <2> QED BY <2>1, <2>2, <2>3, <2>4, <2>5 DEF NextSecond
<1> QED BY <1>t, <1>1, <1>2, <1>3, <1>4, <1>5, <1>6, Cases

-----------------------------------------------------------------------------
(* The handle *)

LEMMA HandleInit == Init => HandleInv /\ AtItsTime
BY DEF Init, HandleInv, HandleLives, Timed, AtItsTime, Inside, Monitors

\* A step that leaves the monitors, the handle and the timers' lives alone.
LEMMA LivesKept ==
  ASSUME HandleLives, UNCHANGED <<fan_timer, corrupt>>,
         \A n \in Monitors : n \in Monitors' /\ monitors'[n].pc = monitors[n].pc,
         \A t \in Timers : Live(t) => timer'[t] \in {"idle", "armed"},
         fan_timer \in Timers \cup {NULL}
  PROVE  HandleLives'
BY DEF HandleLives, Nobody, Live

LEMMA WorkHandle ==
  ASSUME TypeInv, HandleInv, NEW m \in Monitors, Work(m)
  PROVE  HandleInv'
<1> USE DEF HandleInv
<1>t. /\ MonitorsTyped /\ fan_timer \in Timers \cup {NULL}
      /\ timer \in [Timers -> {"none", "idle", "armed", "deleted"}]
  BY DEF TypeInv, TypeOK
<1>1. /\ m \in Inside /\ callback' = callback
      /\ \E label \in Labels : Moved(m, label) /\ (label = "asleep" <=> StartTimer(m))
  BY <1>t, WorkMoves
<1>2. monitors[m].pc \in {"stop", "delete", "start"} => fan_timer \in Timers
  BY <1>t DEF TypeInv, HasHandle
<1>3. ~StartTimer(m) => m \in Inside'
  BY <1>1, MovedInside
<1>4. CASE StartTimer(m)
  <2>1. /\ monitors[m].pc = "start" /\ Moved(m, "asleep") /\ fan_timer' = fan_timer
        /\ corrupt' = (corrupt \/ ~Live(fan_timer))
    BY <1>t, <1>4, GotoMoves DEF StartTimer, Labels
  <2>2. ~corrupt' => timer'[fan_timer] = "armed"
    BY <1>t, <1>2, <1>4, <2>1 DEF StartTimer, Live
  <2> QED BY <1>2, <2>1, <2>2, Sizes DEF HandleLives, Timed, Live
<1>5. ASSUME ~StartTimer(m) PROVE Timed'
  BY <1>3, <1>5 DEF Timed
<1>6. CASE TurnOn(m) \/ SetState(m) \/ HasTimer(m)
  <2>1. UNCHANGED <<fan_timer, timer, corrupt>> /\ monitors[m].pc # "create"
    BY <1>6 DEF TurnOn, SetState, HasTimer, timerVars
  <2>2. Nobody({"create"})' => Nobody({"create"})
    BY <1>1, <2>1 DEF Nobody, Moved, SameSchedules
  <2>3. HandleLives'
    BY <2>1, <2>2 DEF HandleLives, Live
  <2>4. ~StartTimer(m)
    BY <1>6 DEF TurnOn, SetState, HasTimer, StartTimer
  <2> QED BY <1>5, <2>3, <2>4
<1>7. CASE StopTimer(m)
  <2>1. /\ monitors[m].pc = "stop" /\ fan_timer' = fan_timer
        /\ corrupt' = (corrupt \/ ~Live(fan_timer))
    BY <1>7 DEF StopTimer
  <2>2. ~corrupt' => timer'[fan_timer] = "idle"
    BY <1>t, <1>2, <1>7, <2>1 DEF StopTimer, Live
  <2>3. ~StartTimer(m)
    BY <2>1 DEF StartTimer
  <2> QED BY <1>5, <2>1, <2>2, <2>3 DEF HandleLives, Live
<1>8. CASE DeleteTimer(m)
  <2>1. monitors[m].pc = "delete" /\ Moved(m, "create")
    BY <1>t, <1>8, GotoMoves DEF DeleteTimer, Labels
  <2>2. ~Nobody({"create"})' /\ ~StartTimer(m)
    BY <2>1 DEF Nobody, Moved, SameSchedules, StartTimer
  <2> QED BY <1>5, <2>2 DEF HandleLives
<1>9. CASE CreateTimer(m)
  <2>1. monitors[m].pc = "create" /\ ~StartTimer(m)
    BY <1>9 DEF CreateTimer, StartTimer
  <2>2. CASE \A t \in Timers : Live(t)
    <3>1. UNCHANGED <<fan_timer, timer>>
      BY <1>9, <2>2 DEF CreateTimer
    <3>2. fan_timer' # NULL => Live(fan_timer)'
      BY <1>t, <2>2, <3>1 DEF Live
    <3> QED BY <1>5, <2>1, <3>2 DEF HandleLives
  <2>3. CASE \E t \in Timers : fan_timer' = t /\ timer' = [timer EXCEPT ![t] = "idle"]
    <3>1. timer'[fan_timer'] = "idle"
      BY <1>t, <2>3
    <3> QED BY <1>5, <2>1, <3>1 DEF HandleLives, Live
  <2> QED BY <1>9, <2>2, <2>3 DEF CreateTimer
<1> QED BY <1>4, <1>6, <1>7, <1>8, <1>9 DEF Work

LEMMA HandleNext == TypeInv /\ HandleInv /\ [Next]_vars => HandleInv'
<1> SUFFICES ASSUME TypeInv, HandleInv, [Next]_vars PROVE HandleInv'
  OBVIOUS
<1> USE DEF HandleInv
<1>t. /\ StartType /\ MonitorsTyped /\ fan_timer \in Timers \cup {NULL}
      /\ timer \in [Timers -> {"none", "idle", "armed", "deleted"}]
      /\ callback \in {"idle", "off", "flag"}
  BY TypeParts DEF TypeInv, TypeOK
<1>1. CASE Elsewhere
  <2>1. HandleLives'
    BY <1>1, ElsewhereKeeps DEF HandleLives, Nobody, Live
  <2>2. Timed'
    <3>1. /\ UNCHANGED <<fan_state, fan_timer, timer, callback, corrupt>> /\ Inside' = Inside
          /\ UNCHANGED <<duty, manual>> \/ manual' = TRUE
      BY <1>1, ElsewhereKeeps
    <3> QED BY <3>1 DEF Timed
  <2> QED BY <2>1, <2>2
<1>2. ASSUME NEW s \in Schedules, NewSchedule(s) PROVE HandleInv'
  <2>1. HandleLives'
    BY <1>t, <1>2, NewSleeps DEF HandleLives, Nobody, Live
  <2>2. Timed'
    BY <1>t, <1>2, NewSleeps DEF Timed
  <2> QED BY <2>1, <2>2
<1>3. ASSUME NEW m \in Monitors, CheckTime(m) PROVE HandleInv'
  <2> DEFINE label == IF monitors[m].start = clock /\ ~fan_state THEN "on" ELSE "asleep"
  <2>1. /\ Moved(m, label) /\ monitors[m].pc = "asleep"
        /\ UNCHANGED <<fan_state, fan_timer, timer, callback, corrupt, duty, manual>>
    BY <1>t, <1>3, CheckMoves DEF CheckTime, Check, timerVars
  <2>2. label \in {"on", "asleep"}
    OBVIOUS
  <2> HIDE DEF label
  <2>3. Inside \subseteq Inside' /\ (Nobody({"create"})' => Nobody({"create"}))
    BY <2>1, <2>2 DEF Inside, Nobody, Moved, SameSchedules
  <2> QED BY <2>1, <2>3 DEF HandleLives, Timed, Live
<1>4. ASSUME NEW t \in Timers, Fire(t) PROVE HandleInv'
  <2>1. /\ callback' = "off" /\ timer' = [timer EXCEPT ![t] = "idle"]
        /\ UNCHANGED <<monitors, fan_timer, corrupt>>
    BY <1>4 DEF Fire
  <2>2. \A u \in Timers : Live(u) => timer'[u] \in {"idle", "armed"}
    BY <1>t, <2>1 DEF Live
  <2>3. \A n \in Monitors : n \in Monitors' /\ monitors'[n].pc = monitors[n].pc
    BY <2>1 DEF Monitors
  <2> QED BY <1>t, <2>1, <2>2, <2>3, LivesKept DEF Timed
<1>5. CASE CallbackOff \/ CallbackFlag
  <2>1. UNCHANGED <<monitors, fan_timer, timer, corrupt>>
    BY <1>5 DEF CallbackOff, CallbackFlag, timerVars
  <2>2. Monitors' = Monitors /\ Inside' = Inside
    BY <2>1 DEF Monitors, Inside
  <2>3. HandleLives'
    BY <2>1, <2>2 DEF HandleLives, Nobody, Live
  <2>4. CASE CallbackOff
    <3>1. callback' = "flag" /\ duty' = 0
      BY <2>4, DutiesAre DEF CallbackOff
    <3> QED BY <2>3, <3>1 DEF Timed
  <2>5. CASE CallbackFlag
    <3>1. callback = "flag" /\ fan_state' = FALSE /\ UNCHANGED <<duty, manual>>
      BY <2>5 DEF CallbackFlag
    <3> QED BY <2>1, <2>2, <2>3, <3>1 DEF Timed
  <2> QED BY <1>5, <2>4, <2>5
<1>6. ASSUME NEW second, PassTo(second) PROVE HandleInv'
  <2>1. UNCHANGED <<fan_state, fan_timer, timer, callback, duty, corrupt, manual>>
    BY <1>6 DEF PassTo
  <2>2. SameSchedules /\ Inside' = Inside /\ \A n \in Monitors : monitors'[n].pc = monitors[n].pc
    BY <1>t, <1>6, PassingMonitors
  <2>3. HandleLives'
    BY <2>1, <2>2 DEF HandleLives, Nobody, Live, SameSchedules
  <2> QED BY <2>1, <2>2, <2>3 DEF Timed
<1> QED BY <1>t, <1>1, <1>2, <1>3, <1>4, <1>5, <1>6, WorkHandle, Cases

-----------------------------------------------------------------------------
(* The runs *)

LEMMA RunInit == Init => RunInv
<1> SUFFICES ASSUME Init PROVE RunInv
  OBVIOUS
<1>1. Monitors = {} /\ Inside = {}
  BY DEF Init, Monitors, Inside
<1>2. fan_state = FALSE /\ callback = "idle" /\ corrupt = FALSE
  BY DEF Init
<1>3. \A t \in Timers : timer[t] # "armed"
  BY DEF Init
<1> QED BY <1>1, <1>2, <1>3 DEF RunInv, SingleRun, OneInside, DownBefore, UpDuring, CallbackEnds,
        ArmedIsRun, RunIsArmed, NoUseAfterDelete

\* Nobody is past its test when a fan without a race runs and is left alone.
LEMMA WhoIsInside ==
  ASSUME TypeInv, NEW m \in Inside
  PROVE  m \in Monitors /\ (monitors[m].pc \in {"on", "flag"} \/ monitors[m].pc \in Timing)
<1>1. m \in Monitors /\ monitors[m].pc \in Labels \ {"asleep"}
  BY DEF Inside, TypeInv, TypeOK
<1> QED BY <1>1 DEF Labels, Timing

\* The run of a schedule is measured by its duration in every later state.
LEMMA LastedKept ==
  ASSUME SameSchedules, NEW n \in Monitors, NEW seconds, Lasted(seconds, n)
  PROVE  Lasted(seconds, n)'
BY DEF Lasted, SameSchedules

\* Steps that leave a run as it is.
LEMMA RunKept ==
  ASSUME SingleRun, Inside' = Inside, Monitors \subseteq Monitors',
         \A n \in Monitors : /\ monitors'[n].pc = monitors[n].pc /\ monitors'[n].lag = monitors[n].lag
                             /\ monitors'[n].duration = monitors[n].duration,
         \A n \in Monitors' : n \in Monitors \/ monitors'[n].pc = "asleep",
         UNCHANGED <<fan_state, fan_timer, timer, left, callback, ranFor, owner>>
  PROVE  SingleRun'
<1> USE DEF SingleRun
<1>1. OneInside' /\ DownBefore'
  BY DEF OneInside, DownBefore
<1>2. UpDuring'
  BY DEF UpDuring, Timing
<1>3. CallbackEnds' /\ ArmedIsRun' /\ RunIsArmed'
  BY DEF CallbackEnds, ArmedIsRun, RunIsArmed, Lasted
<1> QED BY <1>1, <1>2, <1>3

LEMMA RunCheckTime ==
  ASSUME TypeInv, RunInv, NEW m \in Monitors, CheckTime(m)
  PROVE  RunInv'
<1> DEFINE passes == monitors[m].start = clock /\ ~fan_state
           label == IF passes THEN "on" ELSE "asleep"
<1>1. /\ Moved(m, label) /\ monitors[m].pc = "asleep"
      /\ raced' = (raced \/ (passes /\ Inside # {}))
      /\ UNCHANGED <<fan_state, fan_timer, timer, left, callback, corrupt, ranFor, owner>>
  BY CheckMoves DEF CheckTime, Check, TypeInv, timerVars, runVars
<1>2. NoUseAfterDelete'
  BY <1>1 DEF RunInv, NoUseAfterDelete
<1> SUFFICES ASSUME ~raced' PROVE SingleRun'
  BY <1>2 DEF RunInv
<1>3. SingleRun /\ (passes => Inside = {})
  BY <1>1 DEF RunInv
<1> USE DEF SingleRun
<1>4. label \in {"on", "asleep"} /\ (label = "on" => ~fan_state /\ Inside = {})
  BY <1>3
<1> HIDE DEF label, passes
<1>5. Inside' = IF label = "asleep" THEN Inside \ {m} ELSE Inside \cup {m}
  BY <1>1, MovedInside
<1>6. m \notin Inside
  BY <1>1 DEF Inside
<1>7. OneInside' /\ DownBefore'
  BY <1>1, <1>3, <1>4, <1>5, <1>6 DEF OneInside, DownBefore, Moved, SameSchedules
<1>8. UpDuring'
  BY <1>1, <1>3, <1>4 DEF UpDuring, Moved, SameSchedules, Timing
<1>9. CallbackEnds'
  BY <1>1, <1>3, LastedKept DEF CallbackEnds, Moved, SameSchedules, Lasted
<1>10. ArmedIsRun' /\ RunIsArmed'
  BY <1>1, <1>3, <1>4, <1>5, <1>6 DEF ArmedIsRun, RunIsArmed, Moved, SameSchedules, Lasted
<1> QED BY <1>7, <1>8, <1>9, <1>10

\* The motor is switched on: the flag follows.
LEMMA RunTurnOn ==
  ASSUME TypeInv, RunInv, NEW m \in Monitors, TurnOn(m)
  PROVE  RunInv'
<1>1. /\ Moved(m, "flag") /\ monitors[m].pc = "on"
      /\ UNCHANGED <<fan_state, fan_timer, timer, left, callback, corrupt, ranFor, owner, raced>>
  BY GotoMoves DEF TurnOn, TypeInv, timerVars, runVars, raceVars, Labels
<1>2. NoUseAfterDelete'
  BY <1>1 DEF RunInv, NoUseAfterDelete
<1> SUFFICES ASSUME SingleRun PROVE SingleRun'
  BY <1>1, <1>2 DEF RunInv
<1> USE DEF SingleRun
<1>3. Inside' = Inside /\ m \in Inside /\ ~fan_state
  BY <1>1, MovedInside DEF Inside, DownBefore
<1>4. OneInside' /\ DownBefore'
  BY <1>1, <1>3 DEF OneInside, DownBefore, Moved, SameSchedules
<1>5. UpDuring'
  BY <1>1 DEF UpDuring, Moved, SameSchedules, Timing
<1>6. CallbackEnds' /\ ArmedIsRun' /\ RunIsArmed'
  BY <1>1, <1>3 DEF CallbackEnds, ArmedIsRun, RunIsArmed
<1> QED BY <1>4, <1>5, <1>6

\* The flag goes up: the run is that of the one monitor that is at work.
LEMMA RunSetState ==
  ASSUME TypeInv, RunInv, NEW m \in Monitors, SetState(m)
  PROVE  RunInv'
<1>1. /\ Moved(m, "timer") /\ monitors[m].pc = "flag" /\ monitors'[m].lag = monitors[m].lag
      /\ UNCHANGED <<fan_timer, timer, left, callback, corrupt, raced>>
      /\ fan_state' = TRUE /\ ranFor' = 0 /\ owner' = IF raced THEN 0 ELSE m
  BY GotoMoves DEF SetState, TypeInv, timerVars, raceVars, Labels
<1>2. NoUseAfterDelete'
  BY <1>1 DEF RunInv, NoUseAfterDelete
<1> SUFFICES ASSUME SingleRun, ~raced PROVE SingleRun'
  BY <1>1, <1>2 DEF RunInv
<1> USE DEF SingleRun
<1>3. /\ m \in Inside /\ Inside' = Inside /\ owner' = m
      /\ ~fan_state /\ callback = "idle"
      /\ \A t \in Timers : timer[t] # "armed"
  BY <1>1, MovedInside DEF Inside, DownBefore, CallbackEnds, ArmedIsRun
<1>4. \A n \in Monitors \ {m} : monitors[n].pc = "asleep"
  BY <1>3 DEF OneInside, Inside
<1>5. monitors[m].lag \in Nat
  BY MonitorsAre DEF TypeInv, MonitorType
<1>6. OneInside' /\ DownBefore'
  BY <1>1, <1>3, <1>4 DEF OneInside, DownBefore, Moved, SameSchedules
<1>7. UpDuring'
  <2> SUFFICES ASSUME NEW n \in Monitors', monitors'[n].pc \in Timing
               PROVE  fan_state' /\ callback' = "idle" /\ owner' = n /\ ranFor' <= monitors'[n].lag
    BY DEF UpDuring
  <2>1. n = m
    BY <1>1, <1>4 DEF Moved, SameSchedules, Timing
  <2>2. 0 <= monitors[m].lag
    BY <1>5
  <2>3. ranFor' <= monitors'[m].lag
    BY <1>1, <2>2
  <2> QED BY <1>1, <1>3, <2>1, <2>3
<1>8. CallbackEnds' /\ ArmedIsRun' /\ RunIsArmed'
  BY <1>1, <1>3 DEF CallbackEnds, ArmedIsRun, RunIsArmed
<1> QED BY <1>6, <1>7, <1>8

\* What holds while one monitor exchanges the timer.
LEMMA Exchange ==
  ASSUME TypeInv, HandleInv, RunInv, ~raced, NEW m \in Monitors, monitors[m].pc \in Timing
  PROVE  /\ fan_state = TRUE /\ callback = "idle" /\ owner = m /\ ranFor <= monitors[m].lag
         /\ m \in Inside /\ \A n \in Monitors \ {m} : monitors[n].pc = "asleep"
         /\ \A t \in Timers : timer[t] # "armed"
         /\ monitors[m].pc \in {"stop", "delete", "start"} => fan_timer \in Timers /\ timer[fan_timer] = "idle"
<1>1. SingleRun /\ ~corrupt
  BY DEF RunInv, NoUseAfterDelete
<1>2. fan_state = TRUE /\ callback = "idle" /\ owner = m /\ ranFor <= monitors[m].lag
  BY <1>1 DEF SingleRun, UpDuring, TypeInv, TypeOK
<1>3. m \in Inside
  BY DEF Inside, Timing
<1>4. \A n \in Monitors \ {m} : monitors[n].pc = "asleep"
  BY <1>1, <1>3 DEF SingleRun, OneInside, Inside
<1>5. \A t \in Timers : timer[t] # "armed"
  BY <1>1, <1>3 DEF SingleRun, ArmedIsRun
<1>6. ASSUME monitors[m].pc \in {"stop", "delete", "start"}
      PROVE  fan_timer \in Timers /\ timer[fan_timer] = "idle"
  <2>1. fan_timer \in Timers /\ Nobody({"create"})
    BY <1>4, <1>6 DEF TypeInv, TypeOK, HasHandle, Nobody
  <2> QED BY <1>1, <1>5, <2>1, Sizes DEF HandleInv, HandleLives, Live
<1> QED BY <1>2, <1>3, <1>4, <1>5, <1>6

\* A step within the exchange.
LEMMA RunExchange ==
  ASSUME TypeInv, HandleInv, RunInv, NEW m \in Monitors, monitors[m].pc \in Timing,
         NEW label \in Timing, Moved(m, label), monitors'[m].lag = monitors[m].lag,
         UNCHANGED <<fan_state, callback, ranFor, owner, raced>>,
         ~raced => \A t \in Timers : timer'[t] # "armed",
         corrupt' => corrupt \/ raced
  PROVE  RunInv'
<1>1. NoUseAfterDelete'
  BY DEF RunInv, NoUseAfterDelete
<1> SUFFICES ASSUME ~raced PROVE SingleRun'
  BY <1>1 DEF RunInv
<1> USE DEF SingleRun
<1>2. /\ fan_state = TRUE /\ callback = "idle" /\ owner = m /\ ranFor <= monitors[m].lag
      /\ m \in Inside /\ \A n \in Monitors \ {m} : monitors[n].pc = "asleep"
  BY Exchange
<1>3. Inside' = Inside
  BY <1>2, MovedInside DEF Timing
<1>4. OneInside' /\ DownBefore'
  BY <1>2 DEF OneInside, DownBefore, Inside, Moved, SameSchedules, Timing
<1>5. UpDuring'
  <2> SUFFICES ASSUME NEW n \in Monitors', monitors'[n].pc \in Timing
               PROVE  n = m
    BY <1>2 DEF UpDuring
  <2> QED BY <1>2 DEF Moved, SameSchedules, Timing
<1>6. CallbackEnds' /\ ArmedIsRun' /\ RunIsArmed'
  BY <1>2, <1>3 DEF CallbackEnds, ArmedIsRun, RunIsArmed
<1> QED BY <1>4, <1>5, <1>6

LEMMA RunHasTimer ==
  ASSUME TypeInv, HandleInv, RunInv, NEW m \in Monitors, HasTimer(m)
  PROVE  RunInv'
<1> DEFINE label == IF fan_timer = NULL THEN "create" ELSE "stop"
<1>1. /\ monitors[m].pc = "timer" /\ Moved(m, label) /\ monitors'[m].lag = monitors[m].lag
      /\ UNCHANGED <<fan_state, callback, timer, corrupt, ranFor, owner, raced>>
  BY GotoMoves DEF HasTimer, TypeInv, timerVars, historyVars, runVars, raceVars, Labels
<1>2. label \in Timing /\ monitors[m].pc \in Timing
  BY <1>1 DEF Timing
<1>3. ~raced => \A t \in Timers : timer'[t] # "armed"
  BY <1>1, <1>2, Exchange
<1> HIDE DEF label
<1> QED BY <1>1, <1>2, <1>3, RunExchange

LEMMA RunStopTimer ==
  ASSUME TypeInv, HandleInv, RunInv, NEW m \in Monitors, StopTimer(m)
  PROVE  RunInv'
<1>1. /\ monitors[m].pc = "stop" /\ Moved(m, "delete") /\ monitors'[m].lag = monitors[m].lag
      /\ UNCHANGED <<fan_state, callback, ranFor, owner, raced>>
      /\ corrupt' = (corrupt \/ ~Live(fan_timer))
  BY GotoMoves DEF StopTimer, TypeInv, historyVars, runVars, raceVars, Labels
<1>2. monitors[m].pc \in Timing /\ "delete" \in Timing
  BY <1>1 DEF Timing
<1>3. ~raced => /\ fan_timer \in Timers /\ timer[fan_timer] = "idle"
                /\ \A t \in Timers : timer[t] # "armed"
  BY <1>1, <1>2, Exchange
<1>4. ~raced => Live(fan_timer) /\ \A t \in Timers : timer'[t] # "armed"
  BY <1>3 DEF StopTimer, Live, TypeInv, TypeOK
<1> QED BY <1>1, <1>2, <1>4, RunExchange

LEMMA RunDeleteTimer ==
  ASSUME TypeInv, HandleInv, RunInv, NEW m \in Monitors, DeleteTimer(m)
  PROVE  RunInv'
<1>1. /\ monitors[m].pc = "delete" /\ Moved(m, "create") /\ monitors'[m].lag = monitors[m].lag
      /\ UNCHANGED <<fan_state, callback, ranFor, owner, raced>>
      /\ corrupt' = (corrupt \/ ~Live(fan_timer))
  BY GotoMoves DEF DeleteTimer, TypeInv, historyVars, runVars, raceVars, Labels
<1>2. monitors[m].pc \in Timing /\ "create" \in Timing
  BY <1>1 DEF Timing
<1>3. ~raced => /\ fan_timer \in Timers /\ timer[fan_timer] = "idle"
                /\ \A t \in Timers : timer[t] # "armed"
  BY <1>1, <1>2, Exchange
<1>4. ~raced => Live(fan_timer) /\ \A t \in Timers : timer'[t] # "armed"
  BY <1>3 DEF DeleteTimer, Live, TypeInv, TypeOK
<1> QED BY <1>1, <1>2, <1>4, RunExchange

LEMMA RunCreateTimer ==
  ASSUME TypeInv, HandleInv, RunInv, NEW m \in Monitors, CreateTimer(m)
  PROVE  RunInv'
<1>1. /\ monitors[m].pc = "create" /\ Moved(m, "start") /\ monitors'[m].lag = monitors[m].lag
      /\ UNCHANGED <<fan_state, callback, corrupt, ranFor, owner, raced>>
  BY GotoMoves DEF CreateTimer, TypeInv, historyVars, runVars, raceVars, Labels
<1>2. monitors[m].pc \in Timing /\ "start" \in Timing
  BY <1>1 DEF Timing
<1>3. \A t \in Timers : timer[t] # "armed" => timer'[t] # "armed"
  BY DEF CreateTimer, TypeInv, TypeOK
<1>4. ~raced => \A t \in Timers : timer'[t] # "armed"
  BY <1>1, <1>2, <1>3, Exchange
<1> QED BY <1>1, <1>2, <1>4, RunExchange

\* The exchange ends with the one timer of the run armed for its whole time.
LEMMA RunStartTimer ==
  ASSUME TypeInv, HandleInv, RunInv, NEW m \in Monitors, StartTimer(m)
  PROVE  RunInv'
<1>1. /\ monitors[m].pc = "start" /\ Moved(m, "asleep")
      /\ UNCHANGED <<fan_state, callback, fan_timer, ranFor, owner, raced>>
      /\ corrupt' = (corrupt \/ ~Live(fan_timer))
  BY GotoMoves DEF StartTimer, TypeInv, historyVars, runVars, raceVars, Labels
<1>2. ~raced =>
        /\ fan_state = TRUE /\ callback = "idle" /\ owner = m /\ ranFor <= monitors[m].lag
        /\ m \in Inside /\ \A n \in Monitors \ {m} : monitors[n].pc = "asleep"
        /\ \A t \in Timers : timer[t] # "armed"
        /\ fan_timer \in Timers /\ timer[fan_timer] = "idle"
  BY <1>1, Exchange DEF Timing
<1>3. NoUseAfterDelete'
  BY <1>1, <1>2 DEF RunInv, NoUseAfterDelete, Live
<1> SUFFICES ASSUME ~raced PROVE SingleRun'
  BY <1>1, <1>3 DEF RunInv
<1> USE DEF SingleRun
<1>4. /\ timer' = [timer EXCEPT ![fan_timer] = "armed"]
      /\ left' = [left EXCEPT ![fan_timer] = monitors[m].duration]
  BY <1>2 DEF StartTimer
<1>5. /\ timer'[fan_timer] = "armed" /\ left'[fan_timer] = monitors[m].duration
      /\ \A t \in Timers : timer'[t] = "armed" => t = fan_timer
  BY <1>2, <1>4 DEF TypeInv, TypeOK
<1>6. Monitors' = Monitors /\ \A n \in Monitors : monitors'[n].pc = "asleep"
  BY <1>1, <1>2 DEF Moved, SameSchedules
<1>7. Inside' = {}
  BY <1>6 DEF Inside
<1>8. OneInside' /\ DownBefore' /\ UpDuring' /\ CallbackEnds'
  BY <1>1, <1>2, <1>6, <1>7 DEF OneInside, DownBefore, UpDuring, CallbackEnds, Timing
<1>9. ArmedIsRun'
  BY <1>1, <1>2, <1>5, <1>7 DEF ArmedIsRun
<1>10. RunIsArmed'
  <2>1. monitors'[m].duration = monitors[m].duration /\ monitors[m].duration \in Nat /\ monitors[m].lag \in 0 .. 1
    BY <1>1, MonitorsAre, Sizes DEF Moved, SameSchedules, TypeInv, MonitorType
  <2>2. ranFor \in Nat
    BY Sizes DEF TypeInv, TypeOK
  <2>3. ranFor \in {0, 1}
    BY <1>2, <2>1, <2>2
  <2>4. monitors[m].duration + ranFor \in {monitors[m].duration, monitors[m].duration + 1}
    BY <2>1, <2>3
  <2>5. Lasted(left[fan_timer] + ranFor, owner)'
    BY <1>1, <1>2, <1>5, <2>1, <2>4 DEF Lasted
  <2>6. owner' \in Monitors' /\ fan_timer' # NULL /\ timer'[fan_timer'] = "armed"
    BY <1>1, <1>2, <1>5, <1>6, Sizes
  <2> QED BY <2>5, <2>6 DEF RunIsArmed
<1> QED BY <1>8, <1>9, <1>10

\* The timer fires when the run has lasted its time.
LEMMA RunFire ==
  ASSUME TypeInv, RunInv, NEW t \in Timers, Fire(t)
  PROVE  RunInv'
<1>1. /\ callback = "idle" /\ callback' = "off" /\ timer[t] = "armed" /\ left[t] = 0
      /\ timer' = [timer EXCEPT ![t] = "idle"]
      /\ UNCHANGED <<monitors, fan_state, fan_timer, left, corrupt, ranFor, owner, raced>>
  BY DEF Fire, Due, historyVars, runVars, raceVars
<1>2. Monitors' = Monitors /\ Inside' = Inside
  BY <1>1 DEF Monitors, Inside
<1>3. NoUseAfterDelete'
  BY <1>1 DEF RunInv, NoUseAfterDelete
<1> SUFFICES ASSUME SingleRun PROVE SingleRun'
  BY <1>1, <1>3 DEF RunInv
<1> USE DEF SingleRun
<1>4. t = fan_timer /\ fan_state /\ Inside = {}
  BY <1>1 DEF ArmedIsRun
<1>5. owner \in Monitors /\ Lasted(left[fan_timer] + ranFor, owner)
  BY <1>1, <1>4 DEF RunIsArmed
<1>6. Lasted(ranFor, owner)
  <2>1. ranFor \in Nat /\ left[fan_timer] = 0
    BY <1>1, <1>4, Sizes DEF TypeInv, TypeOK
  <2>2. left[fan_timer] + ranFor = ranFor
    BY <2>1
  <2> QED BY <1>5, <2>2
<1>7. timer'[t] = "idle" /\ \A u \in Timers : timer'[u] # "armed"
  BY <1>1, <1>4 DEF ArmedIsRun, TypeInv, TypeOK
<1>8. OneInside' /\ DownBefore'
  BY <1>1, <1>2 DEF OneInside, DownBefore
<1>9. UpDuring'
  BY <1>1, <1>2, <1>4 DEF UpDuring, Inside, Timing
<1>10. CallbackEnds'
  BY <1>1, <1>2, <1>4, <1>5, <1>6 DEF CallbackEnds, Lasted
<1>11. ArmedIsRun' /\ RunIsArmed'
  BY <1>1, <1>7 DEF ArmedIsRun, RunIsArmed
<1> QED BY <1>8, <1>9, <1>10, <1>11

LEMMA RunCallbackOff ==
  ASSUME RunInv, CallbackOff
  PROVE  RunInv'
<1>1. /\ callback = "off" /\ callback' = "flag"
      /\ UNCHANGED <<monitors, fan_state, fan_timer, timer, left, corrupt, ranFor, owner, raced>>
  BY DEF CallbackOff, timerVars, runVars, raceVars
<1>2. Monitors' = Monitors /\ Inside' = Inside
  BY <1>1 DEF Monitors, Inside
<1>3. NoUseAfterDelete'
  BY <1>1 DEF RunInv, NoUseAfterDelete
<1> SUFFICES ASSUME SingleRun PROVE SingleRun'
  BY <1>1, <1>3 DEF RunInv
<1> QED BY <1>1, <1>2 DEF SingleRun, OneInside, DownBefore, UpDuring, CallbackEnds, ArmedIsRun,
        RunIsArmed, Lasted

\* The flag goes down: the run is over, and what is left of a race with it.
LEMMA RunCallbackFlag ==
  ASSUME TypeInv, RunInv, CallbackFlag
  PROVE  RunInv'
<1>1. /\ callback = "flag" /\ callback' = "idle" /\ fan_state' = FALSE
      /\ raced' = (raced /\ ~Settled)
      /\ UNCHANGED <<monitors, fan_timer, timer, left, corrupt>>
  BY DEF CallbackFlag, timerVars
<1>2. Monitors' = Monitors /\ Inside' = Inside
  BY <1>1 DEF Monitors, Inside
<1>3. NoUseAfterDelete'
  BY <1>1 DEF RunInv, NoUseAfterDelete, Settled
<1> SUFFICES ASSUME ~raced' PROVE SingleRun'
  BY <1>3 DEF RunInv
<1>4. Inside = {} /\ \A t \in Timers : timer[t] # "armed"
  <2>1. CASE raced
    BY <1>1, <2>1 DEF Settled
  <2>2. CASE ~raced
    <3>1. SingleRun
      BY <2>2 DEF RunInv
    <3>2. fan_state = TRUE
      BY <1>1, <3>1 DEF SingleRun, CallbackEnds, TypeInv, TypeOK
    <3>3. \A t \in Timers : timer[t] # "armed"
      BY <1>1, <3>1 DEF SingleRun, ArmedIsRun
    <3>4. ASSUME NEW m \in Inside PROVE FALSE
      <4>1. m \in Monitors /\ (monitors[m].pc \in {"on", "flag"} \/ monitors[m].pc \in Timing)
        BY <3>4, WhoIsInside
      <4> QED BY <1>1, <3>1, <3>2, <4>1 DEF SingleRun, DownBefore, UpDuring
    <3> QED BY <3>3, <3>4
  <2> QED BY <2>1, <2>2
<1>5. \A m \in Monitors : monitors[m].pc = "asleep"
  BY <1>4 DEF Inside
<1> QED BY <1>1, <1>2, <1>4, <1>5 DEF SingleRun, OneInside, DownBefore, UpDuring, CallbackEnds,
        ArmedIsRun, RunIsArmed, Timing

\* A second passes for the run and for its timer alike.
LEMMA RunPassTo ==
  ASSUME TypeInv, RunInv, NEW second, PassTo(second)
  PROVE  RunInv'
<1>1. /\ callback = "idle" /\ \A t \in Timers : ~Due(t)
      /\ left' = [t \in Timers |-> IF timer[t] = "armed" THEN left[t] - 1 ELSE 0]
      /\ ranFor' = IF fan_state /\ ~raced /\ ranFor < MaxDuration + 2 THEN ranFor + 1 ELSE ranFor
      /\ UNCHANGED <<fan_state, fan_timer, timer, callback, corrupt, owner, raced>>
  BY DEF PassTo
<1>2. /\ SameSchedules /\ Inside' = Inside
      /\ \A n \in Monitors : monitors'[n].pc = monitors[n].pc
      /\ \A n \in Inside : monitors[n].lag = 0 /\ monitors'[n].lag = 1
  BY PassingMonitors DEF TypeInv
<1>3. NoUseAfterDelete'
  BY <1>1 DEF RunInv, NoUseAfterDelete
<1> SUFFICES ASSUME SingleRun, ~raced PROVE SingleRun'
  BY <1>1, <1>3 DEF RunInv
<1> USE DEF SingleRun
<1>t. ranFor \in Nat
  BY Sizes DEF TypeInv, TypeOK
<1>4. OneInside' /\ DownBefore' /\ CallbackEnds' /\ ArmedIsRun'
  BY <1>1, <1>2 DEF OneInside, DownBefore, CallbackEnds, ArmedIsRun, SameSchedules
<1>5. UpDuring'
  <2> SUFFICES ASSUME NEW n \in Monitors, monitors[n].pc \in Timing
               PROVE  fan_state' /\ callback' = "idle" /\ owner' = n /\ ranFor' <= monitors'[n].lag
    BY <1>2 DEF UpDuring, SameSchedules
  <2>1. n \in Inside
    BY DEF Inside, Timing
  <2>2. fan_state /\ owner = n /\ ranFor <= 0
    BY <1>2, <2>1 DEF UpDuring
  <2>3. ranFor' = 1
    BY <1>1, <1>t, <2>2, Sizes
  <2>4. monitors'[n].lag = 1
    BY <1>2, <2>1
  <2>5. ranFor' <= monitors'[n].lag
    BY <2>3, <2>4
  <2> QED BY <1>1, <2>2, <2>5
<1>6. ASSUME fan_state, Inside = {} PROVE RunIsArmed'
  <2>1. /\ fan_timer # NULL /\ timer[fan_timer] = "armed" /\ owner \in Monitors
        /\ Lasted(left[fan_timer] + ranFor, owner)
    BY <1>1, <1>6 DEF RunIsArmed
  <2>2. fan_timer \in Timers /\ left[fan_timer] \in Nat /\ left[fan_timer] # 0
    BY <1>1, <2>1, Sizes DEF TypeInv, TypeOK, Due
  <2>3. monitors[owner].duration \in 0 .. MaxDuration
    BY <2>1, MonitorsAre DEF TypeInv, MonitorType
  <2>4. ranFor < MaxDuration + 2
    BY <1>t, <2>1, <2>2, <2>3, Sizes DEF Lasted
  <2>5. left'[fan_timer] = left[fan_timer] - 1 /\ ranFor' = ranFor + 1
    BY <1>1, <1>6, <2>1, <2>2, <2>4
  <2>6. left'[fan_timer] + ranFor' = left[fan_timer] + ranFor
    <3>1. (left[fan_timer] - 1) + (ranFor + 1) = left[fan_timer] + ranFor
      BY <1>t, <2>2
    <3> QED BY <2>5, <3>1
  <2>7. Lasted(left[fan_timer] + ranFor, owner)'
    BY <1>1, <1>2, <2>1, <2>6 DEF Lasted, SameSchedules
  <2> QED BY <1>1, <1>2, <2>1, <2>7 DEF RunIsArmed, SameSchedules
<1>7. ~(fan_state /\ Inside = {}) => RunIsArmed'
  BY <1>1, <1>2 DEF RunIsArmed
<1> QED BY <1>4, <1>5, <1>6, <1>7

LEMMA RunNext == TypeInv /\ HandleInv /\ RunInv /\ [Next]_vars => RunInv'
<1> SUFFICES ASSUME TypeInv, HandleInv, RunInv, [Next]_vars PROVE RunInv'
  OBVIOUS
<1>t. StartType /\ MonitorsTyped
  BY TypeParts DEF TypeInv
<1>1. ASSUME NEW s \in Schedules, NewSchedule(s) PROVE RunInv'
  <2>1. SingleRun => SingleRun'
    BY <1>t, <1>1, NewSleeps, RunKept
  <2> QED BY <1>t, <1>1, <2>1, NewSleeps DEF RunInv, NoUseAfterDelete
<1>2. CASE Elsewhere
  <2>1. /\ UNCHANGED <<monitors, fan_state, fan_timer, timer, left, callback, corrupt, ranFor, owner, raced>>
        /\ Monitors' = Monitors /\ Inside' = Inside
    BY <1>2, ElsewhereKeeps
  <2>2. SingleRun => SingleRun'
    BY <2>1, RunKept
  <2> QED BY <2>1, <2>2 DEF RunInv, NoUseAfterDelete
<1>3. ASSUME NEW m \in Monitors, Work(m) PROVE RunInv'
  BY <1>3, RunTurnOn, RunSetState, RunHasTimer, RunStopTimer, RunDeleteTimer, RunCreateTimer, RunStartTimer DEF Work
<1> QED BY <1>t, <1>1, <1>2, <1>3, Cases, RunCheckTime, RunFire, RunCallbackOff, RunCallbackFlag, RunPassTo

LEMMA SpecRuns == Spec => [](TypeInv /\ AtItsTime /\ HandleInv /\ RunInv)
<1> QED BY TypeInit, HandleInit, RunInit, TypeNext, PlaceNext, HandleNext, RunNext, PTL DEF Spec

-----------------------------------------------------------------------------
\* Whatever the schedules and however many monitors share the global handle,
\* start_fan_timer uses a deleted timer only after two of them have raced from
\* the test of fan_state to its setting.
THEOREM FanNoUseAfterDelete == Spec => []NoUseAfterDelete
<1>1. RunInv => NoUseAfterDelete
  BY DEF RunInv
<1> QED BY <1>1, SpecRuns, PTL

\* Monitors race only when their schedules start in one second or in two
\* neighbouring ones, or when SNTP sets the clock under one that is at work.
THEOREM FanOnlyNeighboursRace == Spec => OnlyNeighboursRace
<1>1. TypeInv /\ AtItsTime /\ [Next]_vars =>
        [(~raced /\ raced' /\ ~stepped) => \E m, n \in Monitors : m # n /\ Neighbours(m, n)]_vars
  <2> SUFFICES ASSUME TypeInv, AtItsTime, [Next]_vars, ~raced, raced', ~stepped
               PROVE  \E m, n \in Monitors : m # n /\ Neighbours(m, n)
    OBVIOUS
  <2>1. StartType
    BY TypeParts DEF TypeInv
  <2>2. PICK m \in Monitors : CheckTime(m)
    BY <2>1, StepCases DEF obtain_time, mqtt_app_start, NewSchedule, Manual, TurnOn,
       SetState, HasTimer, StopTimer, DeleteTimer, CreateTimer, StartTimer, Fire, CallbackOff,
       CallbackFlag, PassTo, vars, historyVars, raceVars
  <2>3. monitors[m].pc = "asleep" /\ monitors[m].start = clock /\ Inside # {}
    BY <2>2 DEF CheckTime, Check
  <2>4. PICK n \in Inside : TRUE
    BY <2>3
  <2>5. n \in Monitors /\ n # m
    BY <2>3, <2>4 DEF Inside
  <2>6. monitors[m].start \in {monitors[n].start, (monitors[n].start + 1) % Day}
    BY <2>3, <2>4 DEF AtItsTime
  <2> QED BY <2>5, <2>6 DEF Neighbours
<1> QED BY <1>1, SpecRuns, PTL DEF Spec, OnlyNeighboursRace

\* Whatever monitors do to the handle together, a motor that runs has an armed
\* timer in the handle that will call fan_off_callback.
THEOREM FanRunningFanIsTimed == Spec => []RunningFanIsTimed
<1>1. HandleInv => RunningFanIsTimed
  BY DEF HandleInv, Timed, RunningFanIsTimed, Quiet
<1> QED BY <1>1, SpecRuns, PTL

\* A fan that monitor_and_control_fan_task has started without a race has the
\* one armed timer that will stop it, and it is the global one.
THEOREM FanRunHasItsTimer == Spec => []RunHasItsTimer
<1>1. RunInv => RunHasItsTimer
  BY DEF RunInv, SingleRun, ArmedIsRun, RunIsArmed, RunHasItsTimer, Quiet
<1> QED BY <1>1, SpecRuns, PTL

\* fan_off_callback ends a run exactly when it has lasted the duration of its
\* message, or at most a second more if one passed at its start, whatever SNTP does
\* to the clock, unless monitors have raced for it.
THEOREM FanRunLasts == Spec => RunLastsItsDuration
<1>1. TypeInv /\ RunInv /\ [Next]_vars =>
        [(fan_state /\ ~fan_state' /\ ~raced) =>
           ranFor \in {monitors[owner].duration, monitors[owner].duration + 1}]_vars
  <2> SUFFICES ASSUME TypeInv, RunInv, [Next]_vars, fan_state, ~fan_state', ~raced
               PROVE  ranFor \in {monitors[owner].duration, monitors[owner].duration + 1}
    OBVIOUS
  <2>1. StartType
    BY TypeParts DEF TypeInv
  <2>2. CallbackFlag
    BY <2>1, StepCases DEF obtain_time, mqtt_app_start, NewSchedule, Manual, CheckTime, Check, TurnOn,
       SetState, HasTimer, StopTimer, DeleteTimer, CreateTimer, StartTimer, Fire, CallbackOff, PassTo, vars
  <2>3. callback # "idle"
    BY <2>2 DEF CallbackFlag
  <2> QED BY <2>3 DEF RunInv, SingleRun, CallbackEnds, Lasted
<1> QED BY <1>1, SpecRuns, PTL DEF Spec, RunLastsItsDuration
=============================================================================
