----------------------------- MODULE DoorProofs -----------------------------
(***************************************************************************)
(* What Door promises for every sweep length, pulse range and period.      *)
(***************************************************************************)
EXTENDS Door, TLAPS

\* The auto-close task has its own labels and only ever runs "close".
AutoLabels ==
  /\ pc["auto"] \in {"asleep", "dispatch", "set", "update", "delay", "clear"}
  /\ pc["auto"] \notin {"asleep", "clear"} => command["auto"] = "close"
  /\ pc["auto"] = "delay" => wait["auto"] \in 0 .. 1

\* How long the flag may have been up, by the place the auto-close task is
\* at: asleep, what is left of its nap is left to the flag; in the sweep, at
\* most one tick for each degree already passed.
OpenBudget ==
  /\ ~is_door_open => openFor = 0
  /\ (pc["auto"] = "asleep" /\ is_door_open) => openFor + wait["auto"] <= Period
  /\ pc["auto"] = "dispatch" => openFor <= Period
  /\ pc["auto"] \in {"set", "update"} => openFor <= SERVO_MAX_DEGREE - i["auto"]
  /\ pc["auto"] = "delay" =>
       openFor <= SERVO_MAX_DEGREE - i["auto"] + 1 - wait["auto"]
  /\ pc["auto"] = "clear" => openFor <= SERVO_MAX_DEGREE + 1

\* A flag that is up while the auto-close task does not sweep was raised by a
\* sweep of the MQTT task that had the servo to itself since its first degree.
SoleSweep ==
  (is_door_open /\ pc["auto"] \in {"asleep", "dispatch"}) =>
    /\ Sweeping("mqtt") => command["mqtt"] = "open"
    /\ pc["mqtt"] = "update" => staged = PulseWidth(i["mqtt"])
    /\ pc["mqtt"] = "delay" =>
         staged = PulseWidth(i["mqtt"]) /\ duty = PulseWidth(i["mqtt"])
    /\ ~Sweeping("mqtt") => staged = Opened /\ duty = Opened

Inv == TypeOK /\ AutoLabels /\ OpenBudget /\ SoleSweep

\* A sweep stays within the degrees of the servo.
LEMMA DegreesOfSweep ==
  ASSUME NEW c \in Commands
  PROVE  First(c) \in 0 .. SERVO_MAX_DEGREE /\ Last(c) \in 0 .. SERVO_MAX_DEGREE
BY ServoAssumption DEF First, Last

\* Every degree of a sweep has its pulse among the pulses of the servo.
LEMMA PulseOfDegree ==
  ASSUME NEW d \in 0 .. SERVO_MAX_DEGREE
  PROVE  PulseWidth(d) \in Pulses
BY DEF Pulses

\* The program starts in the invariant.
LEMMA InitInv == Init => Inv
<1> SUFFICES ASSUME Init PROVE Inv
  OBVIOUS
<1> USE ServoAssumption, DoorAssumption
<1>1. TypeOK
  <2>1. is_door_open \in BOOLEAN
    BY DEF Init
  <2>2. staged \in Pulses \cup {NoPulse} /\ duty \in Pulses \cup {NoPulse}
    BY DEF Init, servo_init
  <2>3. targetAngle \in {0, 90} /\ openFor \in 0 .. Period + 1
    BY DEF Init
  <2>4. pc \in [Tasks -> Labels] /\ command \in [Tasks -> Commands]
    BY DEF Init, Tasks, Labels, Commands
  <2>5. i \in [Tasks -> 0 .. SERVO_MAX_DEGREE] /\ wait \in [Tasks -> 0 .. Period]
    BY DEF Init, Tasks
  <2> QED
    BY <2>1, <2>2, <2>3, <2>4, <2>5 DEF TypeOK
<1>2. AutoLabels /\ OpenBudget /\ SoleSweep
  BY DEF Init, AutoLabels, OpenBudget, SoleSweep
<1> QED
  BY <1>1, <1>2 DEF Inv

\* No step leaves the invariant, whichever task takes it.
LEMMA NextInv == Inv /\ [Next]_vars => Inv'
<1> SUFFICES ASSUME Inv, [Next]_vars PROVE Inv'
  OBVIOUS
<1> USE ServoAssumption, DoorAssumption DEF Inv
<1> USE DEF Goto, Tasks, Labels, Commands, Sweeping
<1>1. CASE Receive
  <2>1. TypeOK'
    BY <1>1 DEF Receive, TypeOK, servoVars
  <2>2. AutoLabels' /\ OpenBudget' /\ SoleSweep'
    BY <1>1 DEF Receive, TypeOK, AutoLabels, OpenBudget, SoleSweep, servoVars
  <2> QED
    BY <2>1, <2>2
<1>2. CASE DispatchInvalid
  <2>1. TypeOK'
    BY <1>2 DEF DispatchInvalid, TypeOK, servoVars
  <2>2. AutoLabels' /\ OpenBudget' /\ SoleSweep'
    BY <1>2 DEF DispatchInvalid, TypeOK, AutoLabels, OpenBudget, SoleSweep, servoVars
  <2> QED
    BY <2>1, <2>2
<1>3. ASSUME NEW t \in Tasks, Dispatch(t) PROVE Inv'
  <2>1. TypeOK'
    BY <1>3, DegreesOfSweep DEF Dispatch, TypeOK, servoVars
  <2>2. AutoLabels'
    BY <1>3 DEF Dispatch, TypeOK, AutoLabels
  <2>3. OpenBudget'
    <3>1. openFor' \in Nat /\ openFor' <= openFor /\ (~is_door_open' => openFor' = 0)
      BY <1>3 DEF Dispatch, TypeOK
    <3>2. CASE t = "mqtt"
      <4>1. /\ pc'["auto"] = pc["auto"] /\ i'["auto"] = i["auto"]
            /\ wait'["auto"] = wait["auto"]
        BY <1>3, <3>2 DEF Dispatch, TypeOK
      <4>2. (pc'["auto"] = "asleep" /\ is_door_open') => openFor' + wait'["auto"] <= Period
        BY <1>3, <3>1, <4>1 DEF Dispatch, TypeOK, OpenBudget
      <4> QED
        BY <3>1, <4>1, <4>2 DEF TypeOK, OpenBudget
    <3>3. CASE t = "auto"
      <4>1. /\ pc'["auto"] = "set" /\ i'["auto"] = SERVO_MAX_DEGREE
            /\ ~is_door_open'
        BY <1>3, <3>3 DEF Dispatch, TypeOK, AutoLabels, First
      <4> QED
        BY <3>1, <4>1 DEF OpenBudget
    <3> QED
      BY <3>2, <3>3
  <2>4. SoleSweep'
    BY <1>3 DEF Dispatch, TypeOK, AutoLabels, SoleSweep, servoVars
  <2> QED
    BY <2>1, <2>2, <2>3, <2>4
<1>4. ASSUME NEW t \in Tasks, SetServo(t) PROVE Inv'
  <2>1. TypeOK'
    BY <1>4, PulseOfDegree DEF SetServo, SetDuty, TypeOK
  <2>2. AutoLabels' /\ OpenBudget'
    BY <1>4 DEF SetServo, TypeOK, AutoLabels, OpenBudget
  <2>3. SoleSweep'
    BY <1>4 DEF SetServo, SetDuty, TypeOK, SoleSweep
  <2> QED
    BY <2>1, <2>2, <2>3
<1>5. ASSUME NEW t \in Tasks, UpdateServo(t) PROVE Inv'
  <2>1. TypeOK'
    BY <1>5 DEF UpdateServo, UpdateDuty, TypeOK
  <2>2. AutoLabels' /\ OpenBudget'
    BY <1>5 DEF UpdateServo, TypeOK, AutoLabels, OpenBudget
  <2>3. SoleSweep'
    BY <1>5 DEF UpdateServo, UpdateDuty, TypeOK, SoleSweep
  <2> QED
    BY <2>1, <2>2, <2>3
<1>6. ASSUME NEW t \in Tasks, NextDegree(t) PROVE Inv'
  <2>1. TypeOK'
    BY <1>6 DEF NextDegree, TypeOK, servoVars, Step, Last
  <2>2. AutoLabels' /\ OpenBudget'
    BY <1>6 DEF NextDegree, TypeOK, AutoLabels, OpenBudget, Step
  <2>3. SoleSweep'
    BY <1>6 DEF NextDegree, TypeOK, SoleSweep, servoVars
  <2> QED
    BY <2>1, <2>2, <2>3
<1>7. ASSUME NEW t \in Tasks, EndSweep(t) PROVE Inv'
  <2>1. TypeOK'
    BY <1>7 DEF EndSweep, TypeOK, servoVars, Angle
  <2>2. AutoLabels' /\ OpenBudget'
    BY <1>7 DEF EndSweep, TypeOK, AutoLabels, OpenBudget, Last
  <2>3. SoleSweep'
    BY <1>7 DEF EndSweep, TypeOK, AutoLabels, SoleSweep, servoVars, Last, Opened
  <2> QED
    BY <2>1, <2>2, <2>3
<1>8. CASE CheckOpen
  <2>1. TypeOK'
    BY <1>8 DEF CheckOpen, TypeOK, servoVars
  <2>2. AutoLabels' /\ OpenBudget' /\ SoleSweep'
    BY <1>8 DEF CheckOpen, TypeOK, AutoLabels, OpenBudget, SoleSweep, servoVars
  <2> QED
    BY <2>1, <2>2
<1>9. CASE CheckClosed
  <2>1. TypeOK'
    BY <1>9 DEF CheckClosed, Sleep, TypeOK, servoVars
  <2>2. AutoLabels' /\ OpenBudget' /\ SoleSweep'
    BY <1>9 DEF CheckClosed, Sleep, TypeOK, AutoLabels, OpenBudget, SoleSweep, servoVars
  <2> QED
    BY <2>1, <2>2
<1>10. CASE ClearFlag
  <2>1. TypeOK'
    <3>1. is_door_open' \in BOOLEAN
      BY <1>10 DEF ClearFlag
    <3>0. openFor' \in 0 .. Period + 1
      BY <1>10 DEF ClearFlag
    <3>2. wait' \in [Tasks -> 0 .. Period]
      BY <1>10 DEF ClearFlag, Sleep, TypeOK
    <3>3. pc' \in [Tasks -> Labels]
      BY <1>10 DEF ClearFlag, TypeOK
    <3>4. UNCHANGED <<staged, duty, targetAngle, command, i>>
      BY <1>10 DEF ClearFlag, servoVars
    <3> QED
      BY <3>0, <3>1, <3>2, <3>3, <3>4 DEF TypeOK
  <2>2. pc' = [pc EXCEPT !["auto"] = "asleep"] /\ is_door_open' = FALSE /\ openFor' = 0
    BY <1>10 DEF ClearFlag
  <2>3. AutoLabels' /\ OpenBudget'
    BY <2>2 DEF TypeOK, AutoLabels, OpenBudget
  <2>4. SoleSweep'
    BY <2>2 DEF SoleSweep
  <2> QED
    BY <2>1, <2>3, <2>4
<1>11. CASE Tick
  <2>1. TypeOK'
    BY <1>11 DEF Tick, TypeOK, servoVars
  <2>2. AutoLabels' /\ OpenBudget'
    BY <1>11 DEF Tick, Blocked, TypeOK, AutoLabels, OpenBudget
  <2>3. SoleSweep'
    BY <1>11 DEF Tick, TypeOK, SoleSweep, servoVars
  <2> QED
    BY <2>1, <2>2, <2>3
<1>12. CASE UNCHANGED vars
  <2>1. TypeOK'
    BY <1>12 DEF vars, TypeOK
  <2>2. AutoLabels' /\ OpenBudget'
    BY <1>12 DEF vars, AutoLabels, OpenBudget
  <2>3. SoleSweep'
    BY <1>12 DEF vars, SoleSweep
  <2> QED
    BY <2>1, <2>2, <2>3
<1> QED
  BY <1>1, <1>2, <1>3, <1>4, <1>5, <1>6, <1>7, <1>8, <1>9, <1>10, <1>11, <1>12
     DEF Next, MqttTask, AutoTask, Sweep

THEOREM SpecInv == Spec => []Inv
BY InitInv, NextInv, PTL DEF Spec

\* Type correctness: in particular no interleaving of the two tasks moves a
\* sweep beyond the degrees of the servo.
THEOREM DoorTypeCorrect == Spec => []TypeOK
<1>1. Inv => TypeOK
  BY DEF Inv
<1> QED
  BY <1>1, SpecInv, PTL

\* The flag is cleared within one period of check_and_close_door, whatever
\* commands arrive and however the two sweeps overlap.
THEOREM FlagIsBounded == Spec => []OpenIsBounded
<1>1. Inv => OpenIsBounded
  BY ServoAssumption, DoorAssumption
     DEF Inv, TypeOK, AutoLabels, OpenBudget, OpenIsBounded, Tasks
<1> QED
  BY <1>1, SpecInv, PTL

\* With no sweep under way, a flag that says open is right about the servo.
THEOREM FlagIsRight == Spec => []OpenFlagMeansOpen
<1>1. Inv => OpenFlagMeansOpen
  BY DEF Inv, TypeOK, AutoLabels, SoleSweep, OpenFlagMeansOpen, Moving, Sweeping, Tasks
<1> QED
  BY <1>1, SpecInv, PTL
=============================================================================
