-------------------------------- MODULE Door --------------------------------
(***************************************************************************)
(* The door of NodeTwo (main/main.c): the esp-mqtt task runs a door        *)
(* command to its end inside the event handler, the task                   *)
(* check_and_close_door wakes up periodically and closes a door whose flag *)
(* says open.  Both run handle_user_input on the same flag and the same    *)
(* servo, without a lock, on a dual-core part.                             *)
(*                                                                         *)
(* Time is discrete: one tick is the 10 ms delay between two degrees.  It  *)
(* passes only when every task is blocked, so a task that is ready runs    *)
(* before the next tick, in any order with the other one.                  *)
(***************************************************************************)
EXTENDS Servo

CONSTANT Period   \* ticks check_and_close_door sleeps (15 s in the code)

\* A sweep, one tick per degree, is shorter than the period (0.91 s of 15 s).
ASSUME DoorAssumption ==
  Period \in Nat /\ SERVO_MAX_DEGREE + 1 <= Period

VARIABLES is_door_open, targetAngle,
          pc,       \* where each task is
          command,  \* the command it runs
          i,        \* the loop variable of its sweep
          wait,     \* ticks left of its vTaskDelay
          openFor   \* history: ticks the flag has been up, capped at Period + 1

vars == <<staged, duty, is_door_open, targetAngle, pc, command, i, wait, openFor>>

Tasks    == {"mqtt", "auto"}
Commands == {"open", "close", "invalid", "empty"}

First(c) == IF c = "open" THEN 0 ELSE SERVO_MAX_DEGREE
Last(c)  == IF c = "open" THEN SERVO_MAX_DEGREE ELSE 0
Step(c)  == IF c = "open" THEN 1 ELSE -1
Angle(c) == IF c = "open" THEN 90 ELSE 0

Goto(t, label) == pc' = [pc EXCEPT ![t] = label]

-----------------------------------------------------------------------------
Init ==
  /\ servo_init
  /\ is_door_open = FALSE
  /\ targetAngle = 0
  /\ pc = [mqtt |-> "idle", auto |-> "asleep"]
  /\ command = [t \in Tasks |-> "close"]
  /\ i = [t \in Tasks |-> 0]
  /\ wait = [mqtt |-> 0, auto |-> Period]
  /\ openFor = 0

\* door_mqtt_handle: a message arrives; malloc may fail.
Receive ==
  /\ pc["mqtt"] = "idle"
  /\ \E c \in Commands : command' = [command EXCEPT !["mqtt"] = c]
  /\ Goto("mqtt", "dispatch")
  /\ UNCHANGED <<servoVars, is_door_open, targetAngle, i, wait, openFor>>

\* process_webclient_data and the branches of handle_user_input: what is
\* neither "open" nor "close" returns at once.
DispatchInvalid ==
  /\ pc["mqtt"] = "dispatch"
  /\ command["mqtt"] \notin {"open", "close"}
  /\ Goto("mqtt", "idle")
  /\ UNCHANGED <<servoVars, is_door_open, targetAngle, command, i, wait, openFor>>

\* Mutants: a close command that leaves the flag up, and an automatic close
\* that relies on the second write of the flag.
DispatchKeepsFlag(t) ==
  /\ pc[t] = "dispatch"
  /\ command[t] \in {"open", "close"}
  /\ is_door_open' = (is_door_open \/ command[t] = "open")
  /\ openFor' = IF is_door_open' THEN openFor ELSE 0
  /\ i' = [i EXCEPT ![t] = First(command[t])]
  /\ Goto(t, "set")
  /\ UNCHANGED <<servoVars, targetAngle, command, wait>>

DispatchClearsLate(t) ==
  /\ pc[t] = "dispatch"
  /\ command[t] \in {"open", "close"}
  /\ is_door_open' = IF t = "auto" THEN is_door_open ELSE command[t] = "open"
  /\ openFor' = IF is_door_open' THEN openFor ELSE 0
  /\ i' = [i EXCEPT ![t] = First(command[t])]
  /\ Goto(t, "set")
  /\ UNCHANGED <<servoVars, targetAngle, command, wait>>

\* The flag is written before the servo starts to move.
Dispatch(t) ==
  /\ pc[t] = "dispatch"
  /\ command[t] \in {"open", "close"}
  /\ is_door_open' = (command[t] = "open")
  /\ openFor' = IF is_door_open' THEN openFor ELSE 0
  /\ i' = [i EXCEPT ![t] = First(command[t])]
  /\ Goto(t, "set")
  /\ UNCHANGED <<servoVars, targetAngle, command, wait>>

SetServo(t) ==
  /\ pc[t] = "set"
  /\ SetDuty(i[t])
  /\ Goto(t, "update")
  /\ UNCHANGED <<is_door_open, targetAngle, command, i, wait, openFor>>

\* ledc_update_duty, then the task blocks in vTaskDelay.
UpdateServo(t) ==
  /\ pc[t] = "update"
  /\ UpdateDuty
  /\ Goto(t, "delay")
  /\ wait' = [wait EXCEPT ![t] = 1]
  /\ UNCHANGED <<is_door_open, targetAngle, command, i, openFor>>

\* Mutant: the loop condition of the sweep is off by one.
NextDegreeTooFar(t) ==
  /\ pc[t] = "delay" /\ wait[t] = 0
  /\ i[t] # Last(command[t]) + Step(command[t])
  /\ i' = [i EXCEPT ![t] = @ + Step(command[t])]
  /\ Goto(t, "set")
  /\ UNCHANGED <<servoVars, is_door_open, targetAngle, command, wait, openFor>>

NextDegree(t) ==
  /\ pc[t] = "delay" /\ wait[t] = 0
  /\ i[t] # Last(command[t])
  /\ i' = [i EXCEPT ![t] = @ + Step(command[t])]
  /\ Goto(t, "set")
  /\ UNCHANGED <<servoVars, is_door_open, targetAngle, command, wait, openFor>>

\* After the last degree: the target angle, and back to the caller.
EndSweep(t) ==
  /\ pc[t] = "delay" /\ wait[t] = 0
  /\ i[t] = Last(command[t])
  /\ targetAngle' = Angle(command[t])
  /\ Goto(t, IF t = "mqtt" THEN "idle" ELSE "clear")
  /\ UNCHANGED <<servoVars, is_door_open, command, i, wait, openFor>>

-----------------------------------------------------------------------------
(* check_and_close_door *)

Sleep == wait' = [wait EXCEPT !["auto"] = Period]

\* Mutant: the task resets the flag without moving the servo.
CheckOpenForgetsServo ==
  /\ pc["auto"] = "asleep" /\ wait["auto"] = 0
  /\ is_door_open
  /\ Goto("auto", "clear")
  /\ UNCHANGED <<servoVars, is_door_open, targetAngle, command, i, wait, openFor>>

CheckOpen ==
  /\ pc["auto"] = "asleep" /\ wait["auto"] = 0
  /\ is_door_open
  /\ command' = [command EXCEPT !["auto"] = "close"]
  /\ Goto("auto", "dispatch")
  /\ UNCHANGED <<servoVars, is_door_open, targetAngle, i, wait, openFor>>

CheckClosed ==
  /\ pc["auto"] = "asleep" /\ wait["auto"] = 0
  /\ ~is_door_open
  /\ Sleep
  /\ UNCHANGED <<servoVars, is_door_open, targetAngle, pc, command, i, openFor>>

\* The second write of the flag, after the sweep has ended.
ClearFlag ==
  /\ pc["auto"] = "clear"
  /\ is_door_open' = FALSE
  /\ openFor' = 0
  /\ Sleep
  /\ Goto("auto", "asleep")
  /\ UNCHANGED <<servoVars, targetAngle, command, i>>

-----------------------------------------------------------------------------
Blocked(t) == pc[t] = "idle" \/ (pc[t] \in {"delay", "asleep"} /\ wait[t] > 0)

Tick ==
  /\ \A t \in Tasks : Blocked(t)
  /\ wait' = [t \in Tasks |-> IF wait[t] > 0 THEN wait[t] - 1 ELSE 0]
  /\ openFor' = IF is_door_open /\ openFor <= Period THEN openFor + 1 ELSE openFor
  /\ UNCHANGED <<servoVars, is_door_open, targetAngle, pc, command, i>>

Sweep(t) == SetServo(t) \/ UpdateServo(t) \/ NextDegree(t) \/ EndSweep(t)

MqttTask == DispatchInvalid \/ Dispatch("mqtt") \/ Sweep("mqtt")
AutoTask == CheckOpen \/ CheckClosed \/ Dispatch("auto") \/ Sweep("auto") \/ ClearFlag

Next == Receive \/ MqttTask \/ AutoTask \/ Tick

\* A ready task is scheduled.  The tick interrupt keeps coming, and only
\* finitely many messages fit between two ticks (SF: messages that return at
\* once must not stop the clock).  Nothing forces a message to arrive.
Fairness == WF_vars(MqttTask) /\ WF_vars(AutoTask) /\ SF_vars(Tick)

Spec == Init /\ [][Next]_vars /\ Fairness

-----------------------------------------------------------------------------
Labels == {"idle", "asleep", "dispatch", "set", "update", "delay", "clear"}

\* The variables keep their types: no task runs a degree outside the sweep,
\* and the pin only ever carries no pulse or the pulse of some degree.
TypeOK ==
  /\ staged \in Pulses \cup {NoPulse}
  /\ duty \in Pulses \cup {NoPulse}
  /\ is_door_open \in BOOLEAN
  /\ targetAngle \in {0, 90}
  /\ pc \in [Tasks -> Labels]
  /\ command \in [Tasks -> Commands]
  /\ i \in [Tasks -> 0 .. SERVO_MAX_DEGREE]
  /\ wait \in [Tasks -> 0 .. Period]
  /\ openFor \in 0 .. Period + 1

Sweeping(t) == pc[t] \in {"set", "update", "delay"}

\* check_and_close_door has more to do: the second write of the flag.
Moving == Sweeping("mqtt") \/ Sweeping("auto") \/ pc["auto"] = "clear"

\* Once no task moves the servo, a flag that says open is right: the pin
\* carries the pulse of the last degree.  This is what lets the auto-close
\* task trust the flag, although two sweeps in opposite directions may have
\* been interleaved degree by degree before.
OpenFlagMeansOpen == (is_door_open /\ ~Moving) => duty = Opened

\* The flag never stays up longer than one period of check_and_close_door,
\* whatever commands arrive and however its own sweep overlaps theirs.
OpenIsBounded == openFor <= Period

\* A door that stands open with its flag up is shut again: the servo reaches
\* the closed position unless a further open or close command moves it first.
OpenDoorIsClosed ==
  (is_door_open /\ ~Moving) ~> (duty = Closed \/ Sweeping("mqtt"))

AtRest    == pc["auto"] = "asleep" /\ pc["mqtt"] = "idle"
FlagRight == is_door_open <=> duty = Opened

\* "variable to track the state of the door" (comment on is_door_open): while
\* the servo stands still, a flag that tells where it stands is not made wrong
\* by a step after which nothing is at work.
FlagTracksDoor ==
  [][(FlagRight /\ UNCHANGED duty /\ AtRest') => FlagRight']_vars
=============================================================================
