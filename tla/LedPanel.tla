------------------------------ MODULE LedPanel ------------------------------
(***************************************************************************)
(* What the lamps of NodeTwo promise: every room has a pattern, a command  *)
(* changes the pattern of its room, and the panel shows all patterns at    *)
(* once when the command is through.  A reset forgets the patterns and     *)
(* leaves the lamps as they are.                                           *)
(***************************************************************************)
EXTENDS Integers

CONSTANTS Rooms, Lamps

VARIABLES pattern,    \* what was asked for, per room
          display,    \* what the lamps show, per room
          pending     \* a command has been taken and is not yet shown

vars == <<pattern, display, pending>>

Dark == [r \in Rooms |-> {}]

Init ==
  /\ pattern = Dark
  /\ display \in [Rooms -> SUBSET Lamps]
  /\ pending = FALSE

Command(r) ==
  /\ ~pending
  /\ \E p \in SUBSET Lamps : pattern' = [pattern EXCEPT ![r] = p]
  /\ pending' = TRUE
  /\ UNCHANGED display

\* A command that changes nothing still shows the panel again.
Refresh ==
  /\ ~pending
  /\ pending' = TRUE
  /\ UNCHANGED <<pattern, display>>

Show ==
  /\ pending
  /\ display' = pattern
  /\ pending' = FALSE
  /\ UNCHANGED pattern

Reset ==
  /\ pattern' = Dark
  /\ pending' = FALSE
  /\ UNCHANGED display

Next == (\E r \in Rooms : Command(r)) \/ Refresh \/ Show \/ Reset

Spec == Init /\ [][Next]_vars
=============================================================================
