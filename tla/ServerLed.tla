----------------------------- MODULE ServerLed ------------------------------
(***************************************************************************)
(* The LED branch of the message handler of SERVER/server.js.  The handler *)
(* is async: it looks up the latest record of the room, resumes, and saves *)
(* a new record; other messages are handled while it awaits, and the       *)
(* database answers the requests of different handlers in any order.  The  *)
(* code between two awaits is one step.                                    *)
(***************************************************************************)
EXTENDS Integers, Sequences, FiniteSets

CONSTANTS Locations,      \* rooms named in messages; the code accepts any
          StateValues,    \* values sent with "state"
          ModeValues,     \* values sent with "mode"
          MaxMessages,    \* bound: messages received
          MaxClock,       \* bound: milliseconds
          Overlap         \* handlers that may be under way at once

ASSUME ServerAssumption ==
  MaxMessages \in Nat /\ MaxClock \in Nat /\ Overlap \in Nat \ {0}

VARIABLES jobs,         \* the handlers, in the order the messages arrived
          db,           \* the collection of LED records
          clock,        \* Date.now()
          last_state, last_mode,    \* the module's globals
          raced         \* history: rooms that had two handlers under way at once

vars == <<jobs, db, clock, last_state, last_mode, raced>>

DEFAULT_LED_STATE == "off"
DEFAULT_LED_MODE  == "1"

validCommands == {"state", "mode"}
validValues   == {"on", "off", "1", "2", "3"}

\* What the schema can store in a field: mode is a Number, state any String.
Numbers == {"1", "2", "3"}

Phases == {"find", "resume", "save", "done", "failed"}
Active(k) == jobs[k].phase \in {"find", "resume", "save"}

Goto(k, phase) == jobs' = [jobs EXCEPT ![k].phase = phase]

-----------------------------------------------------------------------------
Init ==
  /\ jobs = <<>>
  /\ db = {}
  /\ clock = 0
  /\ last_state = "off" /\ last_mode = "1"
  /\ raced = {}

\* The handler is entered and runs up to the first await; a message that is
\* not valid returns at once and is not modelled further.
Receive(location, command, value) ==
  /\ Len(jobs) < MaxMessages
  /\ Cardinality({k \in DOMAIN jobs : Active(k)}) < Overlap
  /\ command \in validCommands /\ value \in validValues
  /\ jobs' = Append(jobs,
       [location |-> location, command |-> command, value |-> value, phase |-> "find",
        state |-> DEFAULT_LED_STATE, mode |-> DEFAULT_LED_MODE, updatedAt |-> 0])
  /\ raced' = IF \E k \in DOMAIN jobs : Active(k) /\ jobs[k].location = location
              THEN raced \cup {location} ELSE raced
  /\ UNCHANGED <<db, clock, last_state, last_mode>>

\* findOne ... sort({ updatedAt: -1 }): one of the newest, if several tie.
Newest(location) ==
  {d \in db : d.location = location
                /\ \A e \in db : e.location = location => e.updatedAt <= d.updatedAt}

\* Mutant: the answer is not awaited, the defaults are taken.
getLatestDataUnawaited(k) ==
  /\ jobs[k].phase = "find"
  /\ Goto(k, "resume")
  /\ UNCHANGED <<db, clock, last_state, last_mode, raced>>

getLatestData(k) ==
  /\ jobs[k].phase = "find"
  /\ LET found == Newest(jobs[k].location)
     IN  IF found = {} THEN Goto(k, "resume")
         ELSE \E d \in found :
                jobs' = [jobs EXCEPT ![k] = [@ EXCEPT !.phase = "resume", !.state = d.state, !.mode = d.mode]]
  /\ UNCHANGED <<db, clock, last_state, last_mode, raced>>

\* Mutant: a "state" command leaves the mode to the global of the last message.
PrepareKeepsMode(k) ==
  /\ jobs[k].phase = "resume"
  /\ last_state' = IF jobs[k].command = "state" THEN jobs[k].value ELSE jobs[k].state
  /\ last_mode'  = IF jobs[k].command = "mode" THEN jobs[k].value ELSE last_mode
  /\ jobs' = [jobs EXCEPT ![k] =
       [@ EXCEPT !.phase = IF last_mode' \in Numbers THEN "save" ELSE "failed",
                 !.state = last_state', !.mode = last_mode', !.updatedAt = clock]]
  /\ UNCHANGED <<db, clock, raced>>

\* Mutant: the record is stored without validation.
PrepareUnvalidated(k) ==
  /\ jobs[k].phase = "resume"
  /\ last_state' = IF jobs[k].command = "state" THEN jobs[k].value ELSE jobs[k].state
  /\ last_mode'  = IF jobs[k].command = "mode" THEN jobs[k].value ELSE jobs[k].mode
  /\ jobs' = [jobs EXCEPT ![k] =
       [@ EXCEPT !.phase = "save", !.state = last_state', !.mode = last_mode', !.updatedAt = clock]]
  /\ UNCHANGED <<db, clock, raced>>

\* The handler resumes: both globals are written and read back before the next
\* await.  save() validates (a mode that is no number is refused) and the
\* pre-save hook stamps the record.
Prepare(k) ==
  /\ jobs[k].phase = "resume"
  /\ last_state' = IF jobs[k].command = "state" THEN jobs[k].value ELSE jobs[k].state
  /\ last_mode'  = IF jobs[k].command = "mode" THEN jobs[k].value ELSE jobs[k].mode
  /\ jobs' = [jobs EXCEPT ![k] =
       [@ EXCEPT !.phase = IF last_mode' \in Numbers THEN "save" ELSE "failed",
                 !.state = last_state', !.mode = last_mode', !.updatedAt = clock]]
  /\ UNCHANGED <<db, clock, raced>>

Record(k) ==
  [location |-> jobs[k].location, state |-> jobs[k].state, mode |-> jobs[k].mode,
   updatedAt |-> jobs[k].updatedAt, job |-> k]

\* The insert reaches the database; the round trip takes at least a
\* millisecond.  The answer may still be lost, which the code logs.
saveData(k) ==
  /\ jobs[k].phase = "save"
  /\ jobs[k].updatedAt < clock
  /\ db' = db \cup {Record(k)}
  /\ \E phase \in {"done", "failed"} : Goto(k, phase)
  /\ UNCHANGED <<clock, last_state, last_mode, raced>>

\* The database is out of reach: the lookup rethrows, the save is swallowed.
RequestFails(k) ==
  /\ jobs[k].phase \in {"find", "save"}
  /\ Goto(k, "failed")
  /\ UNCHANGED <<db, clock, last_state, last_mode, raced>>

\* The process dies and is started again: handlers under way are gone.
Restart ==
  /\ \E k \in DOMAIN jobs : Active(k)
  /\ jobs' = [k \in DOMAIN jobs |->
                IF Active(k) THEN [jobs[k] EXCEPT !.phase = "failed"] ELSE jobs[k]]
  /\ last_state' = "off" /\ last_mode' = "1"
  /\ UNCHANGED <<db, clock, raced>>

Tick ==
  /\ clock < MaxClock
  /\ clock' = clock + 1
  /\ UNCHANGED <<jobs, db, last_state, last_mode, raced>>

Commands == ({"state"} \X StateValues) \cup ({"mode"} \X ModeValues)

Next ==
  \/ \E location \in Locations, c \in Commands : Receive(location, c[1], c[2])
  \/ \E k \in DOMAIN jobs :
       getLatestData(k) \/ Prepare(k) \/ saveData(k) \/ RequestFails(k)
  \/ Restart
  \/ Tick

Spec == Init /\ [][Next]_vars

-----------------------------------------------------------------------------
Job == [location : Locations, command : validCommands, value : validValues, phase : Phases,
        state : validValues, mode : validValues, updatedAt : 0 .. MaxClock]

RecordType == [location : Locations, state : validValues, mode : Numbers,
               updatedAt : 0 .. MaxClock, job : 1 .. MaxMessages]

\* The variables keep their types; no record has a mode that is no number.
TypeOK ==
  /\ jobs \in Seq(Job) /\ Len(jobs) <= MaxMessages
  /\ db \subseteq RecordType
  /\ clock \in 0 .. MaxClock
  /\ last_state \in validValues /\ last_mode \in validValues
  /\ raced \subseteq Locations

\* The values a room may have: its default and those sent to it.
SentTo(location, command) ==
  {jobs[k].value : k \in {n \in DOMAIN jobs :
     jobs[n].location = location /\ jobs[n].command = command}}

\* The handlers share two globals and overlap; still no record mixes rooms:
\* what it says of a room is the default or was sent to that very room.
RoomsDoNotMix ==
  \A d \in db :
    /\ d.state \in {DEFAULT_LED_STATE} \cup SentTo(d.location, "state")
    /\ d.mode \in {DEFAULT_LED_MODE} \cup SentTo(d.location, "mode")

Recorded(k) == \E d \in db : d.job = k

LastValue(location, command, default) ==
  LET ks == {k \in DOMAIN jobs : /\ jobs[k].location = location
                                 /\ jobs[k].command = command
                                 /\ Recorded(k)}
  IN  IF ks = {} THEN default
      ELSE jobs[CHOOSE k \in ks : \A n \in ks : n <= k].value

\* When no handler is under way, the newest record of the room holds the last
\* recorded state command and the last recorded mode command.
Reflected(location) ==
  (\A k \in DOMAIN jobs : ~Active(k)) =>
    \A d \in Newest(location) :
      /\ d.state = LastValue(location, "state", DEFAULT_LED_STATE)
      /\ d.mode = LastValue(location, "mode", DEFAULT_LED_MODE)

\* A room whose own handlers never overlapped reflects both of its commands,
\* whatever handlers of other rooms ran in between, whatever request failed
\* and whenever the process was restarted.
AloneReflectsBoth == \A location \in Locations \ raced : Reflected(location)

\* The room's records are of one state and one mode command, with different stamps.
OneOfEach(location) ==
  \A d, e \in {r \in db : r.location = location} :
    d # e => d.updatedAt # e.updatedAt /\ jobs[d.job].command # jobs[e.job].command

\* "find the latest data for both state and mode" (comment in the handler): a
\* state and a mode command of a room that are recorded at different times are
\* both reflected, also when their handlers overlapped.
LatestReflectsBoth ==
  \A location \in Locations : OneOfEach(location) => Reflected(location)
=============================================================================
