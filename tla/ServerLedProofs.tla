-------------------------- MODULE ServerLedProofs --------------------------
(***************************************************************************)
(* Proofs about ServerLed, for any rooms, values and number of handlers.   *)
(* The argument for a room whose handlers never overlapped: its only       *)
(* active handler is its last one, and what that handler has looked up, or *)
(* is about to store, is what all records of the room so far amount to.    *)
(***************************************************************************)
EXTENDS ServerLed, SequenceTheorems, TLAPS

-----------------------------------------------------------------------------
(* The invariants *)

\* The values a record of the room may have.
Allowed(location, command, default) == {default} \cup SentTo(location, command)

SavesAreValid == \A k \in DOMAIN jobs : jobs[k].phase = "save" => jobs[k].mode \in Numbers

\* A handler, too, knows only values of its own room.
HandlersDoNotMix ==
  \A k \in DOMAIN jobs :
    /\ jobs[k].state \in Allowed(jobs[k].location, "state", DEFAULT_LED_STATE)
    /\ jobs[k].mode \in Allowed(jobs[k].location, "mode", DEFAULT_LED_MODE)

\* Every record has a handler of its room and was stamped in the past.
RecordsAreKnown ==
  \A d \in db :
    d.job \in DOMAIN jobs /\ jobs[d.job].location = d.location /\ d.updatedAt < clock

NewestExists == \A d \in db : Newest(d.location) # {}

\* The handlers of the room that have sent this command and left a record.
Stored(location, command) ==
  {k \in DOMAIN jobs : /\ jobs[k].location = location
                       /\ jobs[k].command = command
                       /\ Recorded(k)}

\* v is the last value recorded, or the default.
IsLast(location, command, default, v) ==
  \/ Stored(location, command) = {} /\ v = default
  \/ \E k \in Stored(location, command) :
       (\A n \in Stored(location, command) : n <= k) /\ v = jobs[k].value

\* What a handler of a room on its own has looked up or will store.
Holds(location, j) ==
  /\ j.phase = "find" => j.state = DEFAULT_LED_STATE /\ j.mode = DEFAULT_LED_MODE
  /\ j.phase = "resume" =>
       /\ IsLast(location, "state", DEFAULT_LED_STATE, j.state)
       /\ IsLast(location, "mode", DEFAULT_LED_MODE, j.mode)
  /\ j.phase = "save" =>
       /\ IF j.command = "state" THEN j.state = j.value
          ELSE IsLast(location, "state", DEFAULT_LED_STATE, j.state)
       /\ IF j.command = "mode" THEN j.mode = j.value
          ELSE IsLast(location, "mode", DEFAULT_LED_MODE, j.mode)
       /\ \A d \in db : d.location = location => d.updatedAt < j.updatedAt

OneByOne(location) ==
  \A k, n \in DOMAIN jobs :
    jobs[k].location = location /\ jobs[n].location = location /\ Active(k) => n <= k

NewestIsLast(location) ==
  \A d \in Newest(location) :
    /\ IsLast(location, "state", DEFAULT_LED_STATE, d.state)
    /\ IsLast(location, "mode", DEFAULT_LED_MODE, d.mode)

Alone(location) ==
  /\ OneByOne(location)
  /\ NewestIsLast(location)
  /\ \A k \in DOMAIN jobs : jobs[k].location = location => Holds(location, jobs[k])

ServerInv ==
  /\ TypeOK /\ SavesAreValid /\ HandlersDoNotMix /\ RoomsDoNotMix
  /\ RecordsAreKnown /\ NewestExists
  /\ \A location \in Locations \ raced : Alone(location)

-----------------------------------------------------------------------------
(* Handlers and records *)

LEMMA ServerInit == Init => ServerInv
<1> SUFFICES ASSUME Init PROVE ServerInv
  OBVIOUS
<1>1. jobs = <<>> /\ db = {} /\ clock = 0 /\ last_state = "off" /\ last_mode = "1" /\ raced = {}
  BY DEF Init
<1>2. jobs \in Seq(Job) /\ Len(jobs) = 0 /\ DOMAIN jobs = {}
  BY <1>1
<1>3. TypeOK
  BY <1>1, <1>2, ServerAssumption DEF TypeOK, validValues
<1>4. \A location : Alone(location)
  BY <1>1, <1>2 DEF Alone, OneByOne, NewestIsLast, Newest
<1>5. /\ SavesAreValid /\ HandlersDoNotMix /\ RoomsDoNotMix /\ RecordsAreKnown /\ NewestExists
  BY <1>1, <1>2 DEF SavesAreValid, HandlersDoNotMix, RoomsDoNotMix, RecordsAreKnown, NewestExists
<1> QED BY <1>3, <1>4, <1>5 DEF ServerInv

\* What a handler was called with stays; more handlers may come.
Kept ==
  \A k \in DOMAIN jobs :
    /\ k \in DOMAIN jobs'
    /\ jobs'[k].location = jobs[k].location
    /\ jobs'[k].command = jobs[k].command
    /\ jobs'[k].value = jobs[k].value

LEMMA SentKept ==
  ASSUME Kept
  PROVE  \A location, command, default, v :
           v \in Allowed(location, command, default) => v \in Allowed(location, command, default)'
BY DEF Kept, Allowed, SentTo

LEMMA LastKept ==
  ASSUME Kept, NEW location, NEW command, Stored(location, command)' = Stored(location, command)
  PROVE  \A default, v : IsLast(location, command, default, v) => IsLast(location, command, default, v)'
<1>1. \A k \in Stored(location, command) : jobs'[k].value = jobs[k].value
  BY DEF Stored, Kept
<1> QED BY <1>1 DEF IsLast

\* A new handler has left no record.
LEMMA StoredKept ==
  ASSUME Kept, RecordsAreKnown, db' = db
  PROVE  \A location, command : Stored(location, command)' = Stored(location, command)
<1> TAKE location, command
<1>1. \A k : Recorded(k)' <=> Recorded(k)
  BY DEF Recorded
<1>2. \A k : Recorded(k) => k \in DOMAIN jobs
  BY DEF Recorded, RecordsAreKnown
<1>3. ASSUME NEW k PROVE k \in Stored(location, command)' <=> k \in Stored(location, command)
  BY <1>1, <1>2 DEF Stored, Kept
<1> QED BY <1>3 DEF Stored

LEMMA JobUpdated ==
  ASSUME jobs \in Seq(Job), NEW k \in DOMAIN jobs, NEW j \in Job, jobs' = [jobs EXCEPT ![k] = j]
  PROVE  /\ jobs' \in Seq(Job) /\ Len(jobs') = Len(jobs) /\ DOMAIN jobs' = DOMAIN jobs
         /\ jobs'[k] = j
         /\ \A n \in DOMAIN jobs : n # k => jobs'[n] = jobs[n]
<1>1. k \in 1 .. Len(jobs) /\ DOMAIN jobs = 1 .. Len(jobs)
  BY LenProperties
<1>2. /\ jobs' \in Seq(Job) /\ Len(jobs') = Len(jobs)
      /\ \A n \in 1 .. Len(jobs) : jobs'[n] = IF n = k THEN j ELSE jobs[n]
  BY <1>1, ExceptSeq
<1>3. DOMAIN jobs' = 1 .. Len(jobs')
  BY <1>2, LenProperties
<1> QED BY <1>1, <1>2, <1>3

LEMMA AJob == TypeOK => \A k \in DOMAIN jobs : jobs[k] \in Job /\ k \in 1 .. MaxMessages
<1> SUFFICES ASSUME TypeOK, NEW k \in DOMAIN jobs PROVE jobs[k] \in Job /\ k \in 1 .. MaxMessages
  OBVIOUS
<1>1. jobs \in Seq(Job) /\ Len(jobs) <= MaxMessages /\ Len(jobs) \in Nat /\ DOMAIN jobs = 1 .. Len(jobs)
  BY LenProperties DEF TypeOK
<1>2. jobs[k] \in Job
  BY <1>1, ElementOfSeq
<1>3. k \in 1 .. MaxMessages
  BY <1>1, ServerAssumption
<1> QED BY <1>2, <1>3

\* A handler takes a step that stores nothing.
LEMMA ProgressInv ==
  ASSUME ServerInv, NEW k \in DOMAIN jobs, Active(k), NEW j \in Job, jobs' = [jobs EXCEPT ![k] = j],
         j.location = jobs[k].location, j.command = jobs[k].command, j.value = jobs[k].value,
         db' = db, raced' = raced, clock' = clock,
         last_state' \in validValues, last_mode' \in validValues,
         j.phase = "save" => j.mode \in Numbers,
         j.state \in Allowed(j.location, "state", DEFAULT_LED_STATE),
         j.mode \in Allowed(j.location, "mode", DEFAULT_LED_MODE),
         j.location \notin raced => Holds(j.location, j)
  PROVE  ServerInv'
<1> USE DEF ServerInv
<1>1. /\ jobs' \in Seq(Job) /\ Len(jobs') = Len(jobs) /\ DOMAIN jobs' = DOMAIN jobs
      /\ jobs'[k] = j
      /\ \A n \in DOMAIN jobs : n # k => jobs'[n] = jobs[n]
  BY JobUpdated DEF TypeOK
<1>2. Kept
  BY <1>1 DEF Kept
<1>3. TypeOK'
  BY <1>1 DEF TypeOK
<1>4. SavesAreValid'
  BY <1>1 DEF SavesAreValid
<1>5. HandlersDoNotMix'
  <2>1. ASSUME NEW n \in DOMAIN jobs, NEW location, location = jobs'[n].location
        PROVE  /\ jobs'[n].state \in Allowed(location, "state", DEFAULT_LED_STATE)'
               /\ jobs'[n].mode \in Allowed(location, "mode", DEFAULT_LED_MODE)'
    <3>1. /\ jobs'[n].state \in Allowed(location, "state", DEFAULT_LED_STATE)
          /\ jobs'[n].mode \in Allowed(location, "mode", DEFAULT_LED_MODE)
      BY <1>1, <2>1 DEF HandlersDoNotMix
    <3> QED BY <1>2, <3>1, SentKept
  <2> QED BY <1>1, <2>1 DEF HandlersDoNotMix
<1>6. RoomsDoNotMix'
  BY <1>2, SentKept DEF RoomsDoNotMix, Allowed
<1>7. RecordsAreKnown' /\ NewestExists'
  BY <1>1 DEF RecordsAreKnown, NewestExists, Newest
<1>8. ASSUME NEW location \in Locations \ raced PROVE Alone(location)'
  <2>1. Alone(location)
    BY <1>8
  <2>2. \A command, default, v : IsLast(location, command, default, v) => IsLast(location, command, default, v)'
    BY <1>2, StoredKept, LastKept
  <2>3. OneByOne(location)'
    BY <1>1, <2>1 DEF Alone, OneByOne, Active
  <2>4. NewestIsLast(location)'
    BY <2>1, <2>2 DEF Alone, NewestIsLast, Newest
  <2>5. ASSUME NEW i, Holds(location, i) PROVE Holds(location, i)'
    BY <2>2, <2>5 DEF Holds
  <2>6. ASSUME NEW n \in DOMAIN jobs, jobs'[n].location = location PROVE Holds(location, jobs'[n])
    BY <1>1, <1>8, <2>1, <2>6 DEF Alone
  <2> QED BY <1>1, <2>3, <2>4, <2>5, <2>6 DEF Alone
<1> QED BY <1>3, <1>4, <1>5, <1>6, <1>7, <1>8

-----------------------------------------------------------------------------
(* One lemma for each step *)

\* Records that the room does not have cannot have been left by a handler.
LEMMA NothingStored ==
  ASSUME ServerInv, NEW location, Newest(location) = {}
  PROVE  \A command, default : IsLast(location, command, default, default)
<1>1. \A d \in db : d.location # location
  BY DEF ServerInv, NewestExists
<1>2. \A command : Stored(location, command) = {}
  BY <1>1 DEF ServerInv, RecordsAreKnown, Stored, Recorded
<1> QED BY <1>2 DEF IsLast

LEMMA GetInv ==
  ASSUME ServerInv, NEW k \in DOMAIN jobs, getLatestData(k)
  PROVE  ServerInv'
<1> DEFINE location == jobs[k].location
<1>1. jobs[k].phase = "find" /\ UNCHANGED <<db, clock, last_state, last_mode, raced>>
  BY DEF getLatestData
<1>2. jobs[k] \in Job /\ TypeOK
  BY AJob DEF ServerInv
<1>3. Active(k)
  BY <1>1 DEF Active
<1>4. last_state' \in validValues /\ last_mode' \in validValues
  BY <1>1, <1>2 DEF TypeOK
<1>5. CASE Newest(location) = {}
  <2> DEFINE j == [jobs[k] EXCEPT !.phase = "resume"]
  <2>1. jobs' = [jobs EXCEPT ![k] = j]
    BY <1>5 DEF getLatestData, Goto
  <2>2. /\ j \in Job /\ j.location = location /\ j.command = jobs[k].command /\ j.value = jobs[k].value
        /\ j.phase = "resume" /\ j.state = jobs[k].state /\ j.mode = jobs[k].mode
    BY <1>2 DEF Job, Phases
  <2> HIDE DEF j
  <2>3. /\ j.state \in Allowed(j.location, "state", DEFAULT_LED_STATE)
        /\ j.mode \in Allowed(j.location, "mode", DEFAULT_LED_MODE)
    BY <2>2 DEF ServerInv, HandlersDoNotMix
  <2>4. ASSUME location \notin raced PROVE Holds(location, j)
    <3>1. location \in Locations \ raced
      BY <1>2, <2>4 DEF Job
    <3>2. Holds(location, jobs[k])
      BY <3>1 DEF ServerInv, Alone
    <3>3. j.state = DEFAULT_LED_STATE /\ j.mode = DEFAULT_LED_MODE
      BY <1>1, <2>2, <3>2 DEF Holds
    <3>4. IsLast(location, "state", DEFAULT_LED_STATE, j.state) /\ IsLast(location, "mode", DEFAULT_LED_MODE, j.mode)
      BY <1>5, <3>3, NothingStored
    <3> QED BY <2>2, <3>4 DEF Holds
  <2>5. j.phase # "save"
    BY <2>2
  <2> QED BY <1>1, <1>3, <1>4, <2>1, <2>2, <2>3, <2>4, <2>5, ProgressInv
<1>6. CASE Newest(location) # {}
  <2>1. PICK d \in Newest(location) :
          jobs' = [jobs EXCEPT ![k] = [@ EXCEPT !.phase = "resume", !.state = d.state, !.mode = d.mode]]
    BY <1>6 DEF getLatestData
  <2> DEFINE j == [jobs[k] EXCEPT !.phase = "resume", !.state = d.state, !.mode = d.mode]
  <2>2. jobs' = [jobs EXCEPT ![k] = j]
    BY <2>1
  <2>3. d \in db /\ d.location = location
    BY DEF Newest
  <2>4. d.state \in validValues /\ d.mode \in validValues
    BY <1>2, <2>3 DEF TypeOK, RecordType, Numbers, validValues
  <2>5. /\ j \in Job /\ j.location = location /\ j.command = jobs[k].command /\ j.value = jobs[k].value
        /\ j.phase = "resume" /\ j.state = d.state /\ j.mode = d.mode
    BY <1>2, <2>4 DEF Job, Phases
  <2> HIDE DEF j
  <2>6. /\ j.state \in Allowed(j.location, "state", DEFAULT_LED_STATE)
        /\ j.mode \in Allowed(j.location, "mode", DEFAULT_LED_MODE)
    BY <2>3, <2>5 DEF ServerInv, RoomsDoNotMix, Allowed
  <2>7. ASSUME location \notin raced PROVE Holds(location, j)
    <3>1. location \in Locations \ raced
      BY <1>2, <2>7 DEF Job
    <3>2. IsLast(location, "state", DEFAULT_LED_STATE, d.state) /\ IsLast(location, "mode", DEFAULT_LED_MODE, d.mode)
      BY <3>1 DEF ServerInv, Alone, NewestIsLast
    <3> QED BY <2>5, <3>2 DEF Holds
  <2>8. j.phase # "save"
    BY <2>5
  <2> QED BY <1>1, <1>3, <1>4, <2>2, <2>5, <2>6, <2>7, <2>8, ProgressInv
<1> QED BY <1>5, <1>6

LEMMA PrepareInv ==
  ASSUME ServerInv, NEW k \in DOMAIN jobs, Prepare(k)
  PROVE  ServerInv'
<1> DEFINE location == jobs[k].location
           state == IF jobs[k].command = "state" THEN jobs[k].value ELSE jobs[k].state
           mode == IF jobs[k].command = "mode" THEN jobs[k].value ELSE jobs[k].mode
           j == [jobs[k] EXCEPT !.phase = IF mode \in Numbers THEN "save" ELSE "failed",
                                !.state = state, !.mode = mode, !.updatedAt = clock]
<1>1. jobs[k].phase = "resume" /\ UNCHANGED <<db, clock, raced>>
      /\ last_state' = state /\ last_mode' = mode
      /\ jobs' = [jobs EXCEPT ![k] = j]
  BY DEF Prepare
<1>2. jobs[k] \in Job /\ TypeOK
  BY AJob DEF ServerInv
<1>3. Active(k)
  BY <1>1 DEF Active
<1>4. state \in validValues /\ mode \in validValues /\ clock \in 0 .. MaxClock
  BY <1>2 DEF Job, TypeOK
<1>5. /\ j \in Job /\ j.location = location /\ j.command = jobs[k].command /\ j.value = jobs[k].value
      /\ j.phase = (IF mode \in Numbers THEN "save" ELSE "failed")
      /\ j.state = state /\ j.mode = mode /\ j.updatedAt = clock
  <2> HIDE DEF state, mode
  <2> QED BY <1>2, <1>4 DEF Job, Phases
<1> HIDE DEF j
<1>6. /\ j.state \in Allowed(j.location, "state", DEFAULT_LED_STATE)
      /\ j.mode \in Allowed(j.location, "mode", DEFAULT_LED_MODE)
  <2>1. /\ jobs[k].state \in Allowed(location, "state", DEFAULT_LED_STATE)
        /\ jobs[k].mode \in Allowed(location, "mode", DEFAULT_LED_MODE)
    BY DEF ServerInv, HandlersDoNotMix
  <2>2. \A default : jobs[k].value \in Allowed(location, jobs[k].command, default)
    BY DEF Allowed, SentTo
  <2> QED BY <1>5, <2>1, <2>2
<1>7. ASSUME location \notin raced PROVE Holds(location, j)
  <2>1. location \in Locations \ raced
    BY <1>2, <1>7 DEF Job
  <2>2. IsLast(location, "state", DEFAULT_LED_STATE, jobs[k].state)
        /\ IsLast(location, "mode", DEFAULT_LED_MODE, jobs[k].mode)
    BY <1>1, <2>1 DEF ServerInv, Alone, Holds
  <2>3. \A d \in db : d.updatedAt < j.updatedAt
    BY <1>5 DEF ServerInv, RecordsAreKnown
  <2>4. j.phase # "find" /\ j.phase # "resume"
    BY <1>5
  <2> QED BY <1>5, <2>2, <2>3, <2>4 DEF Holds
<1>8. j.phase = "save" => j.mode \in Numbers
  BY <1>5
<1>9. last_state' \in validValues /\ last_mode' \in validValues
  BY <1>1, <1>4
<1>10. UNCHANGED <<db, raced, clock>>
  BY <1>1
<1>11. jobs' = [jobs EXCEPT ![k] = j]
  BY <1>1 DEF j
<1> HIDE DEF state, mode
<1> QED BY <1>3, <1>5, <1>6, <1>7, <1>8, <1>9, <1>10, <1>11, ProgressInv

LEMMA FailsInv ==
  ASSUME ServerInv, NEW k \in DOMAIN jobs, RequestFails(k)
  PROVE  ServerInv'
<1> DEFINE j == [jobs[k] EXCEPT !.phase = "failed"]
<1>1. jobs[k].phase \in {"find", "save"} /\ UNCHANGED <<db, clock, last_state, last_mode, raced>>
      /\ jobs' = [jobs EXCEPT ![k] = j]
  BY DEF RequestFails, Goto
<1>2. jobs[k] \in Job /\ TypeOK
  BY AJob DEF ServerInv
<1>3. Active(k)
  BY <1>1 DEF Active
<1>4. last_state' \in validValues /\ last_mode' \in validValues
  BY <1>1, <1>2 DEF TypeOK
<1>5. /\ j \in Job /\ j.location = jobs[k].location /\ j.command = jobs[k].command
      /\ j.value = jobs[k].value
      /\ j.phase = "failed" /\ j.state = jobs[k].state /\ j.mode = jobs[k].mode
  BY <1>2 DEF Job, Phases
<1> HIDE DEF j
<1>6. /\ j.state \in Allowed(j.location, "state", DEFAULT_LED_STATE)
      /\ j.mode \in Allowed(j.location, "mode", DEFAULT_LED_MODE)
  BY <1>5 DEF ServerInv, HandlersDoNotMix
<1>7. Holds(j.location, j) /\ j.phase # "save"
  BY <1>5 DEF Holds
<1> QED BY <1>1, <1>3, <1>4, <1>5, <1>6, <1>7, ProgressInv

\* The insert of a room on its own makes the newest record; the answer to it
\* does not matter.
LEMMA SaveInv ==
  ASSUME ServerInv, NEW k \in DOMAIN jobs, saveData(k)
  PROVE  ServerInv'
<1> USE DEF ServerInv
<1> DEFINE r == Record(k)
<1>1. PICK phase \in {"done", "failed"} : Goto(k, phase)
  BY DEF saveData
<1>2. /\ jobs[k].phase = "save" /\ jobs[k].updatedAt < clock /\ db' = db \cup {r}
      /\ UNCHANGED <<clock, last_state, last_mode, raced>>
  BY DEF saveData
<1> DEFINE j == [jobs[k] EXCEPT !.phase = phase]
<1>3. jobs' = [jobs EXCEPT ![k] = j]
  BY <1>1 DEF Goto
<1>4. jobs[k] \in Job /\ k \in 1 .. MaxMessages /\ TypeOK
  BY AJob
<1>5. /\ j \in Job /\ j.location = jobs[k].location /\ j.command = jobs[k].command
      /\ j.value = jobs[k].value /\ j.state = jobs[k].state /\ j.mode = jobs[k].mode
      /\ j.phase \notin {"find", "resume", "save"}
  BY <1>4 DEF Job, Phases
<1>6. /\ r.location = jobs[k].location /\ r.state = jobs[k].state /\ r.mode = jobs[k].mode
      /\ r.updatedAt = jobs[k].updatedAt /\ r.job = k
      /\ r \in RecordType
  <2>1. jobs[k].mode \in Numbers
    BY <1>2 DEF SavesAreValid
  <2> QED BY <1>4, <2>1 DEF Record, RecordType, Job
<1> HIDE DEF j, r
<1>7. /\ jobs' \in Seq(Job) /\ Len(jobs') = Len(jobs) /\ DOMAIN jobs' = DOMAIN jobs
      /\ jobs'[k] = j
      /\ \A n \in DOMAIN jobs : n # k => jobs'[n] = jobs[n]
  BY <1>3, <1>5, JobUpdated DEF TypeOK
<1>8. Kept
  BY <1>5, <1>7 DEF Kept
<1>9. TypeOK'
  BY <1>2, <1>6, <1>7 DEF TypeOK
<1>10. SavesAreValid'
  BY <1>5, <1>7 DEF SavesAreValid
<1>11. HandlersDoNotMix'
  <2>1. ASSUME NEW n \in DOMAIN jobs, NEW location, location = jobs'[n].location
        PROVE  /\ jobs'[n].state \in Allowed(location, "state", DEFAULT_LED_STATE)'
               /\ jobs'[n].mode \in Allowed(location, "mode", DEFAULT_LED_MODE)'
    <3>1. /\ jobs'[n].state \in Allowed(location, "state", DEFAULT_LED_STATE)
          /\ jobs'[n].mode \in Allowed(location, "mode", DEFAULT_LED_MODE)
      BY <1>5, <1>7, <2>1 DEF HandlersDoNotMix
    <3> QED BY <1>8, <3>1, SentKept
  <2> QED BY <1>7, <2>1 DEF HandlersDoNotMix
<1>12. RoomsDoNotMix'
  <2> SUFFICES ASSUME NEW d \in db \cup {r}
               PROVE  /\ d.state \in Allowed(d.location, "state", DEFAULT_LED_STATE)'
                      /\ d.mode \in Allowed(d.location, "mode", DEFAULT_LED_MODE)'
    BY <1>2 DEF RoomsDoNotMix, Allowed
  <2>1. /\ d.state \in Allowed(d.location, "state", DEFAULT_LED_STATE)
        /\ d.mode \in Allowed(d.location, "mode", DEFAULT_LED_MODE)
    <3>1. CASE d \in db
      BY <3>1 DEF RoomsDoNotMix, Allowed
    <3>2. CASE d = r
      BY <1>6, <3>2 DEF HandlersDoNotMix
    <3> QED BY <3>1, <3>2
  <2> QED BY <1>8, <2>1, SentKept
<1>13. RecordsAreKnown'
  BY <1>2, <1>5, <1>6, <1>7 DEF RecordsAreKnown
<1>14. \A d \in db \cup {r} : d.updatedAt \in Int
  BY <1>4, <1>6 DEF TypeOK, RecordType
<1>15. NewestExists'
  <2> SUFFICES ASSUME NEW d \in db \cup {r} PROVE Newest(d.location)' # {}
    BY <1>2 DEF NewestExists
  <2>1. CASE Newest(d.location) = {}
    <3>1. \A e \in db : e.location # d.location
      BY <2>1 DEF NewestExists
    <3>2. d = r
      BY <3>1
    <3>3. r \in Newest(d.location)'
      BY <1>2, <1>14, <3>1, <3>2 DEF Newest
    <3> QED BY <3>3
  <2>2. ASSUME NEW e \in Newest(d.location) PROVE Newest(d.location)' # {}
    <3>1. /\ e \in db /\ e.location = d.location
          /\ \A f \in db : f.location = d.location => f.updatedAt <= e.updatedAt
      BY DEF Newest
    <3>2. CASE r.location # d.location \/ r.updatedAt <= e.updatedAt
      <4>1. e \in Newest(d.location)'
        BY <1>2, <3>1, <3>2 DEF Newest
      <4> QED BY <4>1
    <3>3. CASE r.location = d.location /\ ~(r.updatedAt <= e.updatedAt)
      <4>1. \A f \in db : f.location = d.location => f.updatedAt <= r.updatedAt
        BY <1>14, <3>1, <3>3
      <4>2. r \in Newest(d.location)'
        BY <1>2, <1>14, <3>3, <4>1 DEF Newest
      <4> QED BY <4>2
    <3> QED BY <3>2, <3>3
  <2> QED BY <2>1, <2>2
<1>16. \A n : Recorded(n)' <=> Recorded(n) \/ n = k
  BY <1>2, <1>6 DEF Recorded
<1>17. ASSUME NEW location \in Locations \ raced, location # r.location PROVE Alone(location)'
  <2>1. Alone(location)
    BY <1>17
  <2>2. Newest(location)' = Newest(location)
    BY <1>2, <1>17 DEF Newest
  <2>3. ASSUME NEW command PROVE Stored(location, command)' = Stored(location, command)
    <3>1. ASSUME NEW n PROVE n \in Stored(location, command)' <=> n \in Stored(location, command)
      BY <1>6, <1>7, <1>8, <1>16, <1>17 DEF Stored, Kept
    <3> QED BY <3>1 DEF Stored
  <2>4. \A command, default, v : IsLast(location, command, default, v) => IsLast(location, command, default, v)'
    BY <1>8, <2>3, LastKept
  <2>5. OneByOne(location)'
    BY <1>5, <1>6, <1>7, <1>17, <2>1 DEF Alone, OneByOne, Active
  <2>6. NewestIsLast(location)'
    BY <2>1, <2>2, <2>4 DEF Alone, NewestIsLast
  <2>7. ASSUME NEW i, Holds(location, i) PROVE Holds(location, i)'
    BY <1>2, <1>17, <2>4, <2>7 DEF Holds
  <2>8. ASSUME NEW n \in DOMAIN jobs, jobs'[n].location = location PROVE Holds(location, jobs'[n])
    BY <1>5, <1>6, <1>7, <1>17, <2>1, <2>8 DEF Alone
  <2> QED BY <1>7, <2>5, <2>6, <2>7, <2>8 DEF Alone
<1>18. ASSUME NEW location \in Locations \ raced, location = r.location PROVE Alone(location)'
  <2>1. OneByOne(location) /\ Holds(location, jobs[k]) /\ jobs[k].location = location
    BY <1>6, <1>18 DEF Alone
  <2>2. Active(k)
    BY <1>2 DEF Active
  <2>3. \A n \in DOMAIN jobs : jobs[n].location = location => n <= k
    BY <2>1, <2>2 DEF OneByOne
  <2>4. \A n \in DOMAIN jobs : n \in Int
    BY <1>4, AJob
  <2>5. \A n \in DOMAIN jobs : jobs'[n].location = location => jobs'[n].phase \notin {"find", "resume", "save"}
    <3> SUFFICES ASSUME NEW n \in DOMAIN jobs, n # k, jobs[n].location = location
                 PROVE  jobs[n].phase \notin {"find", "resume", "save"}
      BY <1>5, <1>7
    <3>1. n <= k /\ ~(k <= n)
      BY <2>3, <2>4
    <3>2. ~Active(n)
      BY <2>1, <3>1 DEF OneByOne
    <3> QED BY <3>2 DEF Active
  <2>6. OneByOne(location)' /\ \A n \in DOMAIN jobs' : jobs'[n].location = location => Holds(location, jobs[n])'
    BY <1>7, <2>5 DEF OneByOne, Active, Holds
  <2>7. Newest(location)' = {r}
    <3>1. \A d \in db : d.location = location => d.updatedAt < r.updatedAt
      BY <1>2, <1>6, <2>1 DEF Holds
    <3>2. r \in Newest(location)'
      BY <1>2, <1>14, <1>18, <3>1 DEF Newest
    <3>3. ASSUME NEW d \in Newest(location)' PROVE d = r
      BY <1>2, <1>14, <1>18, <3>1 DEF Newest
    <3> QED BY <3>2, <3>3
  <2>8. ASSUME NEW command, NEW default, NEW v, jobs[k].command = command, v = jobs[k].value
        PROVE  IsLast(location, command, default, v)'
    <3>1. k \in Stored(location, command)'
      BY <1>7, <1>8, <1>16, <2>1, <2>8 DEF Stored, Kept
    <3>2. \A n \in Stored(location, command)' : n <= k
      BY <1>7, <1>8, <2>3 DEF Stored, Kept
    <3>3. jobs'[k].value = jobs[k].value
      BY <1>8 DEF Kept
    <3> QED BY <2>8, <3>1, <3>2, <3>3 DEF IsLast
  <2>9. ASSUME NEW command, NEW default, NEW v, jobs[k].command # command,
               IsLast(location, command, default, v)
        PROVE  IsLast(location, command, default, v)'
    <3>1. ASSUME NEW n PROVE n \in Stored(location, command)' <=> n \in Stored(location, command)
      BY <1>7, <1>8, <1>16, <2>9 DEF Stored, Kept
    <3>2. Stored(location, command)' = Stored(location, command)
      BY <3>1 DEF Stored
    <3> QED BY <1>8, <2>9, <3>2, LastKept
  <2>10. /\ IsLast(location, "state", DEFAULT_LED_STATE, jobs[k].state)'
         /\ IsLast(location, "mode", DEFAULT_LED_MODE, jobs[k].mode)'
    <3>1. /\ IF jobs[k].command = "state" THEN jobs[k].state = jobs[k].value
             ELSE IsLast(location, "state", DEFAULT_LED_STATE, jobs[k].state)
          /\ IF jobs[k].command = "mode" THEN jobs[k].mode = jobs[k].value
             ELSE IsLast(location, "mode", DEFAULT_LED_MODE, jobs[k].mode)
      BY <1>2, <2>1 DEF Holds
    <3> DEFINE state == jobs[k].state
               mode == jobs[k].mode
    <3>2. ASSUME NEW v, v = state PROVE IsLast(location, "state", DEFAULT_LED_STATE, v)'
      BY <2>8, <2>9, <3>1, <3>2
    <3>3. ASSUME NEW v, v = mode PROVE IsLast(location, "mode", DEFAULT_LED_MODE, v)'
      BY <2>8, <2>9, <3>1, <3>3
    <3>4. jobs'[k].state = jobs[k].state /\ jobs'[k].mode = jobs[k].mode
      BY <1>5, <1>7
    <3> QED BY <3>2, <3>3, <3>4
  <2>11. NewestIsLast(location)'
    BY <1>5, <1>6, <1>7, <2>7, <2>10 DEF NewestIsLast
  <2> QED BY <2>6, <2>11 DEF Alone
<1> QED BY <1>2, <1>9, <1>10, <1>11, <1>12, <1>13, <1>15, <1>17, <1>18

\* A message for a room whose handler is still active takes the room out of
\* those on their own; any other one becomes the last of its room.
LEMMA ReceiveInv ==
  ASSUME ServerInv, NEW location \in Locations, NEW command, NEW value,
         Receive(location, command, value)
  PROVE  ServerInv'
<1> USE DEF ServerInv
<1> DEFINE j == [location |-> location, command |-> command, value |-> value, phase |-> "find",
                 state |-> DEFAULT_LED_STATE, mode |-> DEFAULT_LED_MODE, updatedAt |-> 0]
           last == Len(jobs) + 1
<1>1. /\ jobs' = Append(jobs, j) /\ Len(jobs) < MaxMessages
      /\ command \in validCommands /\ value \in validValues
      /\ raced' = IF \E k \in DOMAIN jobs : Active(k) /\ jobs[k].location = location
                  THEN raced \cup {location} ELSE raced
      /\ UNCHANGED <<db, clock, last_state, last_mode>>
  BY DEF Receive
<1>2. /\ j \in Job /\ j.location = location /\ j.phase = "find"
      /\ j.state = DEFAULT_LED_STATE /\ j.mode = DEFAULT_LED_MODE
  BY <1>1, ServerAssumption
     DEF Job, Phases, DEFAULT_LED_STATE, DEFAULT_LED_MODE, validValues
<1> HIDE DEF j
<1>3. jobs \in Seq(Job) /\ DOMAIN jobs = 1 .. Len(jobs) /\ Len(jobs) \in Nat
  BY LenProperties DEF TypeOK
<1>4. /\ jobs' \in Seq(Job) /\ Len(jobs') = last /\ jobs'[last] = j
      /\ \A n \in 1 .. Len(jobs) : jobs'[n] = jobs[n]
  BY <1>1, <1>2, <1>3, AppendProperties
<1>5. DOMAIN jobs' = DOMAIN jobs \cup {last} /\ last \notin DOMAIN jobs /\ \A n \in DOMAIN jobs : n < last
  <2>1. DOMAIN jobs' = 1 .. last
    BY <1>4, LenProperties
  <2> QED BY <1>3, <2>1
<1>6. \A n \in DOMAIN jobs : jobs'[n] = jobs[n]
  BY <1>3, <1>4
<1>7. Kept
  BY <1>5, <1>6 DEF Kept
<1>8. TypeOK'
  <2>1. Len(jobs') <= MaxMessages
    BY <1>1, <1>3, <1>4, ServerAssumption
  <2>2. raced' \subseteq Locations
    BY <1>1 DEF TypeOK
  <2> QED BY <1>1, <1>4, <2>1, <2>2 DEF TypeOK
<1>9. SavesAreValid'
  BY <1>2, <1>4, <1>5, <1>6 DEF SavesAreValid
<1>10. HandlersDoNotMix'
  <2>1. ASSUME NEW n \in DOMAIN jobs', NEW room, room = jobs'[n].location
        PROVE  /\ jobs'[n].state \in Allowed(room, "state", DEFAULT_LED_STATE)'
               /\ jobs'[n].mode \in Allowed(room, "mode", DEFAULT_LED_MODE)'
    <3>1. /\ jobs'[n].state \in Allowed(room, "state", DEFAULT_LED_STATE)
          /\ jobs'[n].mode \in Allowed(room, "mode", DEFAULT_LED_MODE)
      <4>1. CASE n \in DOMAIN jobs
        BY <1>6, <2>1, <4>1 DEF HandlersDoNotMix
      <4>2. CASE n = last
        BY <1>2, <1>4, <4>2 DEF Allowed
      <4> QED BY <1>5, <4>1, <4>2
    <3> QED BY <1>7, <3>1, SentKept
  <2> QED BY <2>1 DEF HandlersDoNotMix
<1>11. RoomsDoNotMix'
  BY <1>1, <1>7, SentKept DEF RoomsDoNotMix, Allowed
<1>12. RecordsAreKnown' /\ NewestExists'
  BY <1>1, <1>7 DEF RecordsAreKnown, NewestExists, Newest, Kept
<1>13. ASSUME NEW room \in Locations \ raced' PROVE Alone(room)'
  <2>1. Alone(room) /\ (room = location => \A k \in DOMAIN jobs : jobs[k].location = location => ~Active(k))
    BY <1>1, <1>13
  <2>2. \A c, default, v : IsLast(room, c, default, v) => IsLast(room, c, default, v)'
    BY <1>1, <1>7, StoredKept, LastKept
  <2>3. OneByOne(room)'
    <3> SUFFICES ASSUME NEW k \in DOMAIN jobs', NEW n \in DOMAIN jobs', Active(k)',
                        jobs'[k].location = room, jobs'[n].location = room
                 PROVE  n <= k
      BY DEF OneByOne
    <3>1. CASE k = last
      BY <1>3, <1>5, <3>1
    <3>2. CASE k \in DOMAIN jobs
      <4>1. Active(k) /\ jobs[k].location = room
        BY <1>6, <3>2 DEF Active
      <4>2. CASE n \in DOMAIN jobs
        BY <1>6, <2>1, <3>2, <4>1, <4>2 DEF Alone, OneByOne
      <4>3. CASE n = last
        BY <1>2, <1>4, <2>1, <3>2, <4>1, <4>3
      <4> QED BY <1>5, <4>2, <4>3
    <3> QED BY <1>5, <3>1, <3>2
  <2>4. NewestIsLast(room)'
    BY <1>1, <2>1, <2>2 DEF Alone, NewestIsLast, Newest
  <2>5. ASSUME NEW i, Holds(room, i) PROVE Holds(room, i)'
    BY <1>1, <2>2, <2>5 DEF Holds
  <2>6. ASSUME NEW n \in DOMAIN jobs', jobs'[n].location = room PROVE Holds(room, jobs'[n])
    <3>1. CASE n \in DOMAIN jobs
      BY <1>6, <2>1, <2>6, <3>1 DEF Alone
    <3>2. CASE n = last
      BY <1>2, <1>4, <3>2 DEF Holds
    <3> QED BY <1>5, <3>1, <3>2
  <2> QED BY <2>3, <2>4, <2>5, <2>6 DEF Alone
<1> QED BY <1>8, <1>9, <1>10, <1>11, <1>12, <1>13

\* After a restart no handler is active and the records are as before.
LEMMA RestartInv ==
  ASSUME ServerInv, Restart
  PROVE  ServerInv'
<1> USE DEF ServerInv
<1>1. /\ jobs' = [k \in DOMAIN jobs |-> IF Active(k) THEN [jobs[k] EXCEPT !.phase = "failed"] ELSE jobs[k]]
      /\ last_state' = "off" /\ last_mode' = "1" /\ UNCHANGED <<db, clock, raced>>
  BY DEF Restart
<1>2. DOMAIN jobs' = DOMAIN jobs /\ DOMAIN jobs = 1 .. Len(jobs) /\ Len(jobs) \in Nat
  BY <1>1, LenProperties DEF TypeOK
<1>3. ASSUME NEW k \in DOMAIN jobs
      PROVE  /\ jobs'[k] \in Job /\ jobs'[k].phase \notin {"find", "resume", "save"}
             /\ jobs'[k].location = jobs[k].location /\ jobs'[k].command = jobs[k].command
             /\ jobs'[k].value = jobs[k].value
             /\ jobs'[k].state = jobs[k].state /\ jobs'[k].mode = jobs[k].mode
  <2>1. jobs[k] \in Job
    BY AJob
  <2>2. CASE Active(k)
    <3>1. jobs'[k] = [jobs[k] EXCEPT !.phase = "failed"]
      BY <1>1, <2>2
    <3> QED BY <2>1, <3>1 DEF Job, Phases
  <2>3. CASE ~Active(k)
    <3>1. jobs'[k] = jobs[k]
      BY <1>1, <2>3
    <3> QED BY <2>1, <2>3, <3>1 DEF Active
  <2> QED BY <2>2, <2>3
<1>4. Kept
  BY <1>2, <1>3 DEF Kept
<1>5. jobs' \in Seq(Job) /\ Len(jobs') = Len(jobs)
  <2>1. jobs' \in [1 .. Len(jobs) -> Job]
    BY <1>1, <1>2, <1>3
  <2>2. jobs' \in Seq(Job)
    BY <1>2, <2>1, SeqDef
  <2> QED BY <1>2, <2>2, LenProperties
<1>6. TypeOK'
  BY <1>1, <1>5 DEF TypeOK, validValues
<1>7. SavesAreValid'
  BY <1>2, <1>3 DEF SavesAreValid
<1>8. HandlersDoNotMix'
  <2>1. ASSUME NEW n \in DOMAIN jobs, NEW location, location = jobs'[n].location
        PROVE  /\ jobs'[n].state \in Allowed(location, "state", DEFAULT_LED_STATE)'
               /\ jobs'[n].mode \in Allowed(location, "mode", DEFAULT_LED_MODE)'
    <3>1. /\ jobs'[n].state \in Allowed(location, "state", DEFAULT_LED_STATE)
          /\ jobs'[n].mode \in Allowed(location, "mode", DEFAULT_LED_MODE)
      BY <1>3, <2>1 DEF HandlersDoNotMix
    <3> QED BY <1>4, <3>1, SentKept
  <2> QED BY <1>2, <2>1 DEF HandlersDoNotMix
<1>9. RoomsDoNotMix'
  BY <1>1, <1>4, SentKept DEF RoomsDoNotMix, Allowed
<1>10. RecordsAreKnown' /\ NewestExists'
  BY <1>1, <1>4 DEF RecordsAreKnown, NewestExists, Newest, Kept
<1>11. ASSUME NEW location \in Locations \ raced PROVE Alone(location)'
  <2>1. \A c, default, v : IsLast(location, c, default, v) => IsLast(location, c, default, v)'
    BY <1>1, <1>4, StoredKept, LastKept
  <2>2. NewestIsLast(location)'
    BY <1>1, <1>11, <2>1 DEF Alone, NewestIsLast, Newest
  <2>3. OneByOne(location)' /\ \A n \in DOMAIN jobs' : Holds(location, jobs[n])'
    BY <1>2, <1>3 DEF OneByOne, Active, Holds
  <2> QED BY <2>2, <2>3 DEF Alone
<1> QED BY <1>1, <1>6, <1>7, <1>8, <1>9, <1>10, <1>11

LEMMA TickInv ==
  ASSUME ServerInv, UNCHANGED <<jobs, db, last_state, last_mode, raced>>,
         clock' = clock \/ Tick
  PROVE  ServerInv'
<1> USE DEF ServerInv
<1>1. clock \in 0 .. MaxClock /\ clock' \in 0 .. MaxClock /\ clock <= clock'
  BY ServerAssumption DEF TypeOK, Tick
<1>2. TypeOK'
  BY <1>1 DEF TypeOK
<1>3. \A d \in db : d.updatedAt \in Int
  BY DEF TypeOK, RecordType
<1>4. RecordsAreKnown'
  BY <1>1, <1>3 DEF RecordsAreKnown
<1>5. SavesAreValid' /\ HandlersDoNotMix' /\ RoomsDoNotMix' /\ NewestExists'
  BY DEF SavesAreValid, HandlersDoNotMix, RoomsDoNotMix, NewestExists, Allowed, SentTo, Newest
<1>6. ASSUME NEW location \in Locations \ raced PROVE Alone(location)'
  BY <1>6 DEF Alone, OneByOne, NewestIsLast, Newest, Holds, IsLast, Stored, Recorded, Active
<1> QED BY <1>2, <1>4, <1>5, <1>6

LEMMA ServerNextInv == ServerInv /\ [Next]_vars => ServerInv'
<1> SUFFICES ASSUME ServerInv, [Next]_vars PROVE ServerInv'
  OBVIOUS
<1>1. ASSUME NEW location \in Locations, NEW c \in Commands, Receive(location, c[1], c[2])
      PROVE  ServerInv'
  BY <1>1, ReceiveInv
<1>2. ASSUME NEW k \in DOMAIN jobs, getLatestData(k) \/ Prepare(k) \/ saveData(k) \/ RequestFails(k)
      PROVE  ServerInv'
  BY <1>2, GetInv, PrepareInv, SaveInv, FailsInv
<1>3. CASE Restart
  BY <1>3, RestartInv
<1>4. CASE Tick
  BY <1>4, TickInv DEF Tick
<1>5. CASE UNCHANGED vars
  BY <1>5, TickInv DEF vars
<1> QED BY <1>1, <1>2, <1>3, <1>4, <1>5 DEF Next

LEMMA ServerSpecInv == Spec => []ServerInv
BY ServerInit, ServerNextInv, PTL DEF Spec

-----------------------------------------------------------------------------
(* What follows *)

\* The variables keep their types: what saveData stores has a mode that is a
\* number, as the schema demands, although "mode on" passes the validation of
\* the handler.
THEOREM ServerTypeCorrect == Spec => []TypeOK
<1>1. ServerInv => TypeOK
  BY DEF ServerInv
<1> QED BY <1>1, ServerSpecInv, PTL

\* The handlers of all rooms share last_state and last_mode, and any number of
\* them may be between two awaits: no record of a room holds a value that was
\* sent to another one.
THEOREM ServerRoomsDoNotMix == Spec => []RoomsDoNotMix
<1>1. ServerInv => RoomsDoNotMix
  BY DEF ServerInv
<1> QED BY <1>1, ServerSpecInv, PTL

\* The CHOOSE of LastValue finds the last value.
LEMMA LastIsLast ==
  ASSUME TypeOK, NEW location, NEW command, NEW default, NEW v, IsLast(location, command, default, v)
  PROVE  v = LastValue(location, command, default)
<1> DEFINE ks == Stored(location, command)
<1>1. LastValue(location, command, default) =
        IF ks = {} THEN default ELSE jobs[CHOOSE k \in ks : \A n \in ks : n <= k].value
  BY DEF LastValue, Stored
<1>2. CASE ks = {}
  BY <1>1, <1>2 DEF IsLast
<1>3. ASSUME NEW k \in ks, \A n \in ks : n <= k, v = jobs[k].value
      PROVE  v = LastValue(location, command, default)
  <2>1. \A n \in ks : n \in Int
    BY AJob DEF Stored
  <2> DEFINE c == CHOOSE m \in ks : \A n \in ks : n <= m
  <2>2. c \in ks /\ \A n \in ks : n <= c
    BY <1>3
  <2>3. c = k
    BY <1>3, <2>1, <2>2
  <2> QED BY <1>1, <1>3, <2>3
<1> QED BY <1>2, <1>3 DEF IsLast

\* getLatestData and saveData keep both values of a room whose own handlers
\* never overlapped, for any number of messages, rooms, failures and restarts.
THEOREM ServerAloneReflectsBoth == Spec => []AloneReflectsBoth
<1>1. ServerInv => AloneReflectsBoth
  <2> SUFFICES ASSUME ServerInv, NEW location \in Locations \ raced, NEW d \in Newest(location)
               PROVE  /\ d.state = LastValue(location, "state", DEFAULT_LED_STATE)
                      /\ d.mode = LastValue(location, "mode", DEFAULT_LED_MODE)
    BY DEF AloneReflectsBoth, Reflected
  <2>1. TypeOK /\ NewestIsLast(location)
    BY DEF ServerInv, Alone
  <2> QED BY <2>1, LastIsLast DEF NewestIsLast
<1> QED BY <1>1, ServerSpecInv, PTL
=============================================================================
