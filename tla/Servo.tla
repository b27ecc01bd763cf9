------------------------------- MODULE Servo -------------------------------
(***************************************************************************)
(* The servo driver of NodeTwo (components/servo).  A degree becomes a     *)
(* pulse width, which is first written to the duty register of the LEDC    *)
(* channel (ledc_set_duty) and only then copied to its output              *)
(* (ledc_update_duty).  The register is shared by every caller, and the    *)
(* two calls are not one atomic step.                                      *)
(***************************************************************************)
EXTENDS Integers

CONSTANTS SERVO_MAX_DEGREE,      \* last degree of a sweep (90 in the code)
          SERVO_MIN_PULSEWIDTH,  \* duty of degree 0
          SERVO_MAX_PULSEWIDTH   \* duty of degree SERVO_MAX_DEGREE

ASSUME ServoAssumption ==
  /\ SERVO_MAX_DEGREE \in Nat \ {0}
  /\ SERVO_MIN_PULSEWIDTH \in Nat \ {0}
  /\ SERVO_MAX_PULSEWIDTH \in Nat
  /\ SERVO_MIN_PULSEWIDTH + SERVO_MAX_DEGREE <= SERVO_MAX_PULSEWIDTH

VARIABLES staged,   \* duty register, written by ledc_set_duty
          duty      \* duty at the pin, written by ledc_update_duty

servoVars == <<staged, duty>>

NoPulse == 0        \* servo_init configures the channel with duty 0

constrain(x, a, b) == IF x < a THEN a ELSE IF x > b THEN b ELSE x

PulseWidth(degree) ==
  SERVO_MIN_PULSEWIDTH
    + (constrain(degree, 0, SERVO_MAX_DEGREE)
         * (SERVO_MAX_PULSEWIDTH - SERVO_MIN_PULSEWIDTH)) \div SERVO_MAX_DEGREE

Pulses == {PulseWidth(d) : d \in 0 .. SERVO_MAX_DEGREE}

Opened == PulseWidth(SERVO_MAX_DEGREE)
Closed == PulseWidth(0)

servo_init == staged = NoPulse /\ duty = NoPulse

\* The two halves of servo_per_degree_init.
SetDuty(degree) == staged' = PulseWidth(degree) /\ UNCHANGED duty
UpdateDuty      == duty' = staged /\ UNCHANGED staged
=============================================================================
