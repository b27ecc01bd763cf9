---------------------------- MODULE SensorProofs ----------------------------
(***************************************************************************)
(* Proofs about Sensor, for every cache time, pause, bound on a round and  *)
(* size of the heap.  A round begins when the cache has run out and ends   *)
(* before it does again, so that one conversion serves all of its reads.   *)
(*                                                                         *)
(* What the checksum lets through is a sum over the bits of a frame, which *)
(* TLC evaluates; FramesDecode states it, and the theorems that need it    *)
(* have it as their hypothesis.                                            *)
(***************************************************************************)
EXTENDS Sensor, TLAPS

IsTimes(r, m, factor) == r.temperature = factor * m.temp /\ r.humidity = factor * m.hum

\* A frame with one fault is refused or has the values sent, and one with a
\* missed slot may have them twice.
FramesDecode ==
  \A m \in Measurements :
    /\ \A r \in Clean(m) \cup Disturbed(m) :
         r \in Reading /\ (r.humidity > 0 => IsTimes(r, m, 1))
    /\ \A r \in Delayed(m) :
         r \in Reading /\ (r.humidity > 0 => IsTimes(r, m, 1) \/ IsTimes(r, m, 2))

-----------------------------------------------------------------------------
(* The invariants *)

Testing   == {"test temperature", "test humidity"}
Reporting == {"clear", "show temperature", "show humidity",
              "json temperature", "json humidity", "publish"}

Clocks ==
  /\ pc \in Testing \cup Reporting \cup {"sleep"}
  /\ round \in 0 .. MaxRound
  /\ nap \in 0 .. Nap
  /\ age \in 0 .. Window
  /\ free \in 0 .. Heap

\* Who asks for the temperature has no valid reading left in the cache; from
\* the humidity on, a valid reading is no older than the round; the cache runs
\* out while the task sleeps.
CacheServesOneRound ==
  /\ pc = "test temperature" =>
       /\ round = 0
       /\ age = Window \/ ~(last_read.temperature > 0) \/ ~(last_read.humidity > 0)
  /\ pc = "test humidity" => age <= round \/ ~(last_read.humidity > 0)
  /\ pc \in Reporting => age <= round /\ last_read.humidity > 0
  /\ pc = "sleep" => round = 0 /\ Window <= age + nap /\ last_read.humidity > 0

Value(l) == IF l = "temperature" THEN last_read.temperature ELSE last_read.humidity

\* The steps after which a line shows, and a message has, what was read.
ShownAt(l) ==
  {"json temperature", "json humidity", "publish", "sleep"}
    \cup (IF l = "temperature" THEN {"show humidity"} ELSE {})
WrittenAt(l) ==
  {"publish", "sleep"} \cup (IF l = "temperature" THEN {"json humidity"} ELSE {})

CopiesAgree ==
  /\ display = [l \in Lines |-> display[l]]
  /\ json = [l \in Lines |-> json[l]]
  /\ \A l \in Lines :
       /\ pc \in ShownAt(l) /\ ~spoilt => display[l] = Value(l)
       /\ pc \in WrittenAt(l) => json[l] = Value(l)

RoundInv == Clocks /\ CacheServesOneRound /\ CopiesAgree

\* A valid reading is what was measured, or twice that after a missed slot.
SourceMatches ==
  last_read.humidity > 0 =>
    \/ IsTimes(last_read, source.measured, 1)
    \/ source.missed /\ IsTimes(last_read, source.measured, 2)

-----------------------------------------------------------------------------
(* The calls *)

\* A cache that has not run out answers every call.
LEMMA CachedRead ==
  ASSUME DHT11_read, age # Window
  PROVE  UNCHANGED reading
BY DEF DHT11_read

\* A call either answers from the cache or converts and starts it anew.
LEMMA ReadOrConvert ==
  ASSUME DHT11_read
  PROVE  \/ age < Window /\ UNCHANGED <<age, last_read, source>>
         \/ age = Window /\ age' = 0 /\ Convert
BY DEF DHT11_read, reading

\* While a round reports, its calls come from the cache.
LEMMA ReportingIsCached ==
  ASSUME RoundInv, pc \in Reporting, DHT11_read
  PROVE  UNCHANGED reading
<1>1. age <= round /\ round \in 0 .. MaxRound /\ age \in 0 .. Window
  BY DEF RoundInv, Clocks, CacheServesOneRound
<1>2. age # Window
  BY <1>1, SensorAssumption DEF SensorAssumption
<1> QED BY <1>2, CachedRead

\* The links of a text are at least one.
LEMMA TextLinks ==
  ASSUME NEW l, NEW v
  PROVE  1 + Length(l, v) \in Nat
<1>1. Digits(v) \in {1, 2, 3}
  BY DEF Digits
<1>2. Length(l, v) = 10 + Digits(v) \/ Length(l, v) = 7 + Digits(v)
  BY DEF Length
<1> QED BY <1>1, <1>2

\* A call to the display never takes more than the heap has.
LEMMA CallStaysInHeap ==
  ASSUME free \in 0 .. Heap, NEW links \in Nat, NEW shown, DisplayCall(links, shown)
  PROVE  free' \in 0 .. Heap
<1>1. Heap \in Nat
  BY SensorAssumption DEF SensorAssumption
<1> QED BY <1>1 DEF DisplayCall

\* A text writes its line only, and with all of its characters unless the
\* round is spoilt.
LEMMA TextShows ==
  ASSUME NEW l \in Lines, NEW v, free \in 0 .. Heap,
         display = [k \in Lines |-> display[k]],
         task_ssd1306_display_text(l, v)
  PROVE  /\ free' \in 0 .. Heap
         /\ display' = [k \in Lines |-> display'[k]]
         /\ ~spoilt' => ~spoilt /\ display' = [display EXCEPT ![l] = v]
<1> DEFINE links == 1 + Length(l, v)
           shown == [display EXCEPT ![l] = IF free > links THEN v ELSE IF free > 2 THEN Partial ELSE @]
<1>1. DisplayCall(links, shown)
  BY DEF task_ssd1306_display_text
<1>2. links \in Nat
  BY TextLinks
<1> HIDE DEF links
<1>3. free' \in 0 .. Heap
  BY <1>1, <1>2, CallStaysInHeap
<1>4. CASE spoilt' = TRUE /\ UNCHANGED <<display, free>>
  BY <1>3, <1>4
<1>5. CASE display' = shown /\ spoilt' = (spoilt \/ free <= links)
  <2>1. display' = [k \in Lines |-> display'[k]]
    BY <1>5
  <2>2. ASSUME ~spoilt' PROVE ~spoilt /\ free > links
    <3>1. ~spoilt /\ ~(free <= links)
      BY <1>5, <2>2
    <3>2. free \in Nat
      BY SensorAssumption DEF SensorAssumption
    <3> QED BY <1>2, <3>1, <3>2
  <2>3. ~spoilt' => display' = [display EXCEPT ![l] = v]
    BY <1>5, <2>2
  <2> QED BY <1>3, <2>1, <2>2, <2>3
<1> QED BY <1>1, <1>4, <1>5 DEF DisplayCall

-----------------------------------------------------------------------------
(* The invariant of the rounds *)

LEMMA RoundInit == Init => RoundInv
<1> SUFFICES ASSUME Init PROVE RoundInv
  OBVIOUS
<1>1. Clocks
  <2>1. pc \in Testing /\ round = 0 /\ nap = 0 /\ age = Window /\ free = Heap
    BY DEF Init, Testing
  <2>2. MaxRound \in Nat /\ Window \in Nat /\ Nap \in Nat /\ Heap \in Nat
    BY SensorAssumption DEF SensorAssumption
  <2> QED BY <2>1, <2>2 DEF Clocks
<1>2. CacheServesOneRound
  BY DEF Init, CacheServesOneRound, Reporting
<1>3. CopiesAgree
  BY DEF Init, CopiesAgree, ShownAt, WrittenAt
<1> QED BY <1>1, <1>2, <1>3 DEF RoundInv

\* The two tests: a round begins with a reading it has just fetched.
LEMMA TestTemperatureKeeps == RoundInv /\ TestTemperature => RoundInv'
<1> SUFFICES ASSUME RoundInv, TestTemperature PROVE RoundInv'
  OBVIOUS
<1>1. /\ pc = "test temperature" /\ UNCHANGED <<round, nap, heap, json, accepted>>
      /\ DHT11_read
      /\ pc' = IF last_read'.temperature > 0 THEN "test humidity" ELSE "test temperature"
  BY DEF TestTemperature, Goto
<1>2. UNCHANGED <<display, spoilt, free>> /\ round' = round
  BY <1>1 DEF heap
<1>3. /\ round = 0 /\ age \in 0 .. Window /\ Window \in Nat
      /\ age = Window \/ ~(last_read.temperature > 0) \/ ~(last_read.humidity > 0)
  BY <1>1, SensorAssumption DEF RoundInv, CacheServesOneRound, Clocks, SensorAssumption
<1>4. UNCHANGED <<age, last_read>> \/ age' = 0
  BY <1>1, ReadOrConvert
<1>5. age' \in 0 .. Window
  BY <1>3, <1>4
<1>6. Clocks'
  BY <1>1, <1>2, <1>5 DEF RoundInv, Clocks, Testing
<1>7. CASE last_read'.temperature > 0
  <2>1. pc' = "test humidity"
    BY <1>1, <1>7
  <2>2. age' <= round' \/ ~(last_read'.humidity > 0)
    <3>1. CASE age' = 0
      BY <1>2, <1>3, <3>1
    <3>2. CASE UNCHANGED <<age, last_read>> /\ age < Window
      BY <1>3, <1>7, <3>2
    <3> QED BY <1>1, <3>1, <3>2, ReadOrConvert
  <2>3. CacheServesOneRound'
    BY <2>1, <2>2 DEF CacheServesOneRound, Reporting
  <2>4. CopiesAgree'
    BY <1>1, <1>2, <2>1 DEF RoundInv, CopiesAgree, ShownAt, WrittenAt
  <2> QED BY <1>6, <2>3, <2>4 DEF RoundInv
<1>8. CASE ~(last_read'.temperature > 0)
  <2>1. pc' = "test temperature"
    BY <1>1, <1>8
  <2>2. CacheServesOneRound'
    BY <1>1, <1>3, <1>8, <2>1 DEF CacheServesOneRound, Reporting
  <2>3. CopiesAgree'
    BY <1>1, <1>2, <2>1 DEF RoundInv, CopiesAgree, ShownAt, WrittenAt
  <2> QED BY <1>6, <2>2, <2>3 DEF RoundInv
<1> QED BY <1>7, <1>8

LEMMA TestHumidityKeeps == RoundInv /\ TestHumidity => RoundInv'
<1> SUFFICES ASSUME RoundInv, TestHumidity PROVE RoundInv'
  OBVIOUS
<1>1. /\ pc = "test humidity" /\ UNCHANGED <<nap, heap, json, accepted>> /\ DHT11_read
      /\ IF last_read'.humidity > 0
         THEN pc' = "clear" /\ round' = round
         ELSE pc' = "test temperature" /\ round' = 0
  BY DEF TestHumidity, Goto
<1>2. UNCHANGED <<display, spoilt, free>>
  BY <1>1 DEF heap
<1>3. /\ round \in 0 .. MaxRound /\ age \in 0 .. Window /\ Window \in Nat /\ MaxRound \in Nat
      /\ age <= round \/ ~(last_read.humidity > 0)
  BY <1>1, SensorAssumption DEF RoundInv, CacheServesOneRound, Clocks, SensorAssumption
<1>4. UNCHANGED <<age, last_read>> \/ age' = 0
  BY <1>1, ReadOrConvert
<1>5. age' \in 0 .. Window /\ round' \in 0 .. MaxRound
  <2>1. round' = round \/ round' = 0
    BY <1>1
  <2> QED BY <1>3, <1>4, <2>1
<1>6. Clocks'
  BY <1>1, <1>2, <1>5 DEF RoundInv, Clocks, Testing, Reporting
<1>7. CASE last_read'.humidity > 0
  <2>1. pc' = "clear" /\ round' = round
    BY <1>1, <1>7
  <2>2. age' <= round'
    <3>1. CASE age' = 0
      BY <1>3, <2>1, <3>1
    <3>2. CASE UNCHANGED <<age, last_read>>
      BY <1>3, <1>7, <2>1, <3>2
    <3> QED BY <1>4, <3>1, <3>2
  <2>3. CacheServesOneRound'
    BY <1>7, <2>1, <2>2 DEF CacheServesOneRound, Reporting
  <2>4. CopiesAgree'
    BY <1>1, <1>2, <2>1 DEF RoundInv, CopiesAgree, ShownAt, WrittenAt
  <2> QED BY <1>6, <2>3, <2>4 DEF RoundInv
<1>8. CASE ~(last_read'.humidity > 0)
  <2>1. pc' = "test temperature" /\ round' = 0
    BY <1>1, <1>8
  <2>2. CacheServesOneRound'
    BY <1>8, <2>1 DEF CacheServesOneRound, Reporting
  <2>3. CopiesAgree'
    BY <1>1, <1>2, <2>1 DEF RoundInv, CopiesAgree, ShownAt, WrittenAt
  <2> QED BY <1>6, <2>2, <2>3 DEF RoundInv
<1> QED BY <1>7, <1>8

\* The calls of a round: the reading stays, and its copies are of it.
LEMMA ClearKeeps == RoundInv /\ Clear => RoundInv'
<1> SUFFICES ASSUME RoundInv, Clear PROVE RoundInv'
  OBVIOUS
<1>1. /\ pc = "clear" /\ pc' = "show temperature"
      /\ UNCHANGED <<round, nap, json, accepted>> /\ UNCHANGED <<age, last_read>>
  BY DEF Clear, Goto, reading
<1> DEFINE blank == [l \in Lines |-> IF free > Page(l) + 1 THEN Blank ELSE display[l]]
<1>2. DisplayCall(8, blank)
  BY DEF Clear, task_ssd1306_display_clear
<1>3. free' \in 0 .. Heap
  BY <1>2, CallStaysInHeap DEF RoundInv, Clocks
<1>4. Clocks'
  BY <1>1, <1>3 DEF RoundInv, Clocks, Testing, Reporting
<1>5. CacheServesOneRound'
  BY <1>1 DEF RoundInv, CacheServesOneRound, Reporting
<1>6. display' = [l \in Lines |-> display'[l]]
  <2>1. display' = display \/ display' = blank
    BY <1>2 DEF DisplayCall
  <2> QED BY <2>1 DEF RoundInv, CopiesAgree
<1>7. CopiesAgree'
  BY <1>1, <1>6 DEF RoundInv, CopiesAgree, ShownAt, WrittenAt
<1> QED BY <1>4, <1>5, <1>7 DEF RoundInv

LEMMA ShowKeeps ==
  ASSUME RoundInv, NEW l \in Lines, NEW from, NEW to, Show(l, from, to),
         \/ l = "temperature" /\ from = "show temperature" /\ to = "show humidity"
         \/ l = "humidity" /\ from = "show humidity" /\ to = "json temperature"
  PROVE  RoundInv'
<1>1. /\ pc = from /\ pc' = to /\ pc \in Reporting /\ pc' \in Reporting
      /\ DHT11_read /\ UNCHANGED <<round, nap, json, accepted>>
  BY DEF Show, Goto, Reporting
<1>2. UNCHANGED <<age, last_read>>
  BY <1>1, ReportingIsCached DEF reading
<1>3. task_ssd1306_display_text(l, Value(l))
  BY <1>2 DEF Show, Value
<1>4. /\ free' \in 0 .. Heap
      /\ display' = [k \in Lines |-> display'[k]]
      /\ ~spoilt' => ~spoilt /\ display' = [display EXCEPT ![l] = Value(l)]
  BY <1>3, TextShows DEF RoundInv, Clocks, CopiesAgree
<1>5. Clocks'
  BY <1>1, <1>2, <1>4 DEF RoundInv, Clocks
<1>6. CacheServesOneRound'
  BY <1>1, <1>2 DEF RoundInv, CacheServesOneRound, Reporting
<1>7. \A k \in Lines : Value(k)' = Value(k)
  BY <1>2 DEF Value
<1>8. ASSUME NEW k \in Lines, pc' \in ShownAt(k), ~spoilt' PROVE display'[k] = Value(k)
  <2>1. CASE k = l
    BY <1>4, <1>8, <2>1 DEF RoundInv, CopiesAgree
  <2>2. CASE k # l
    <3>1. display'[k] = display[k] /\ ~spoilt
      BY <1>4, <1>8, <2>2 DEF RoundInv, CopiesAgree
    <3>2. pc \in ShownAt(k)
      BY <1>1, <1>8, <2>2 DEF ShownAt, Lines
    <3> QED BY <3>1, <3>2 DEF RoundInv, CopiesAgree
  <2> QED BY <2>1, <2>2
<1>9. CopiesAgree'
  <2>1. \A k \in Lines : pc' \notin WrittenAt(k)
    BY <1>1 DEF WrittenAt
  <2>2. json' = [k \in Lines |-> json'[k]]
    BY <1>1 DEF RoundInv, CopiesAgree
  <2>3. \A k \in Lines : WrittenAt(k)' = WrittenAt(k) /\ ShownAt(k)' = ShownAt(k)
    BY DEF WrittenAt, ShownAt
  <2> QED BY <1>4, <1>7, <1>8, <2>1, <2>2, <2>3 DEF CopiesAgree
<1> QED BY <1>5, <1>6, <1>9 DEF RoundInv

LEMMA JsonKeeps ==
  ASSUME RoundInv, NEW l \in Lines, NEW from, NEW to, MQTT_DataJson(l, from, to),
         \/ l = "temperature" /\ from = "json temperature" /\ to = "json humidity"
         \/ l = "humidity" /\ from = "json humidity" /\ to = "publish"
  PROVE  RoundInv'
<1>1. /\ pc = from /\ pc' = to /\ pc \in Reporting /\ pc' \in Reporting
      /\ DHT11_read /\ UNCHANGED <<round, nap, display, spoilt, free, accepted>>
  BY DEF MQTT_DataJson, Goto, Reporting, heap
<1>2. UNCHANGED <<age, last_read>>
  BY <1>1, ReportingIsCached DEF reading
<1>3. json' = [json EXCEPT ![l] = Value(l)]
  BY <1>2 DEF MQTT_DataJson, Value
<1>4. Clocks'
  BY <1>1, <1>2 DEF RoundInv, Clocks
<1>5. CacheServesOneRound'
  BY <1>1, <1>2 DEF RoundInv, CacheServesOneRound, Reporting
<1>6. \A k \in Lines : Value(k)' = Value(k)
  BY <1>2 DEF Value
<1>7. json' = [k \in Lines |-> json'[k]]
  BY <1>3 DEF RoundInv, CopiesAgree
<1>8. ASSUME NEW k \in Lines, pc' \in WrittenAt(k) PROVE json'[k] = Value(k)
  <2>1. CASE k = l
    BY <1>3, <2>1 DEF RoundInv, CopiesAgree
  <2>2. CASE k # l
    <3>1. json'[k] = json[k]
      BY <1>3, <2>2 DEF RoundInv, CopiesAgree
    <3>2. pc \in WrittenAt(k)
      BY <1>1, <1>8, <2>2 DEF WrittenAt, Lines
    <3> QED BY <3>1, <3>2 DEF RoundInv, CopiesAgree
  <2> QED BY <2>1, <2>2
<1>9. ASSUME NEW k \in Lines, ~spoilt PROVE display[k] = Value(k)
  <2>1. pc \in ShownAt(k)
    BY <1>1 DEF ShownAt
  <2> QED BY <1>9, <2>1 DEF RoundInv, CopiesAgree
<1>10. CopiesAgree'
  <2>1. display' = [k \in Lines |-> display'[k]]
    BY <1>1 DEF RoundInv, CopiesAgree
  <2>2. \A k \in Lines : WrittenAt(k)' = WrittenAt(k) /\ ShownAt(k)' = ShownAt(k)
    BY DEF WrittenAt, ShownAt
  <2> QED BY <1>1, <1>6, <1>7, <1>8, <1>9, <2>1, <2>2 DEF CopiesAgree
<1> QED BY <1>4, <1>5, <1>10 DEF RoundInv

\* The pause is long enough for the cache to run out.
LEMMA PublishKeeps == RoundInv /\ Publish => RoundInv'
<1> SUFFICES ASSUME RoundInv, Publish PROVE RoundInv'
  OBVIOUS
<1>1. /\ pc = "publish" /\ pc' = "sleep" /\ round' = 0 /\ nap' = Nap
      /\ UNCHANGED <<age, last_read>> /\ UNCHANGED <<display, spoilt, free, json>>
  BY DEF Publish, Goto, reading, heap
<1>2. /\ MaxRound \in Nat /\ Window \in Nat /\ Nap \in Nat /\ Window <= Nap
      /\ age \in 0 .. Window /\ free \in 0 .. Heap
  BY SensorAssumption DEF SensorAssumption, RoundInv, Clocks
<1>3. Clocks'
  BY <1>1, <1>2 DEF Clocks
<1>4. CacheServesOneRound'
  <2>1. Window <= age' + nap' /\ last_read'.humidity > 0
    BY <1>1, <1>2 DEF RoundInv, CacheServesOneRound, Reporting
  <2> QED BY <1>1, <2>1 DEF CacheServesOneRound, Reporting
<1>5. CopiesAgree'
  BY <1>1 DEF RoundInv, CopiesAgree, ShownAt, WrittenAt, Value
<1> QED BY <1>3, <1>4, <1>5 DEF RoundInv

LEMMA WakeKeeps == RoundInv /\ Wake => RoundInv'
<1> SUFFICES ASSUME RoundInv, Wake PROVE RoundInv'
  OBVIOUS
<1>1. /\ pc = "sleep" /\ pc' = "test temperature" /\ nap = 0 /\ UNCHANGED <<round, nap>>
      /\ UNCHANGED <<age, last_read>> /\ UNCHANGED <<display, free, json>>
  BY DEF Wake, Goto, reading
<1>2. age \in 0 .. Window /\ Window \in Nat /\ round = 0 /\ Window <= age + nap
  BY <1>1, SensorAssumption DEF SensorAssumption, RoundInv, Clocks, CacheServesOneRound
<1>3. age' = Window
  <2>1. nap = 0 /\ age' = age
    BY <1>1
  <2> QED BY <1>2, <2>1
<1>4. Clocks'
  BY <1>1 DEF RoundInv, Clocks, Testing
<1>5. CacheServesOneRound'
  BY <1>1, <1>2, <1>3 DEF CacheServesOneRound, Reporting
<1>6. CopiesAgree'
  BY <1>1 DEF RoundInv, CopiesAgree, ShownAt, WrittenAt
<1> QED BY <1>4, <1>5, <1>6 DEF RoundInv

\* A round's time passes no slower than that of the reading it uses.
LEMMA TickKeeps == RoundInv /\ Tick => RoundInv'
<1> SUFFICES ASSUME RoundInv, Tick PROVE RoundInv'
  OBVIOUS
<1>1. /\ UNCHANGED <<pc, last_read, display, spoilt, free, json>>
      /\ age' = IF age < Window THEN age + 1 ELSE age
  BY DEF Tick, heap
<1>2. /\ MaxRound \in Nat /\ Window \in Nat /\ Nap \in Nat
      /\ age \in 0 .. Window /\ round \in 0 .. MaxRound /\ nap \in 0 .. Nap
  BY SensorAssumption DEF SensorAssumption, RoundInv, Clocks
<1>3. \/ pc = "test temperature" /\ UNCHANGED <<round, nap>>
      \/ pc = "sleep" /\ nap > 0 /\ nap' = nap - 1 /\ UNCHANGED round
      \/ pc \notin {"test temperature", "sleep"} /\ round < MaxRound /\ round' = round + 1 /\ UNCHANGED nap
  BY DEF Tick
<1>4. age' \in 0 .. Window /\ (age = Window => age' = Window) /\ age' <= age + 1
      /\ (age < Window => age' = age + 1)
  BY <1>1, <1>2
<1>5. round' \in 0 .. MaxRound /\ nap' \in 0 .. Nap
  <2>1. \/ round' = round /\ nap' = nap
        \/ round' = round /\ nap > 0 /\ nap' = nap - 1
        \/ round < MaxRound /\ round' = round + 1 /\ nap' = nap
    BY <1>3
  <2> QED BY <1>2, <2>1
<1>6. Clocks'
  BY <1>1, <1>4, <1>5 DEF RoundInv, Clocks
<1>7. CacheServesOneRound'
  <2>1. CASE pc = "test temperature"
    BY <1>1, <1>3, <1>4, <2>1 DEF RoundInv, CacheServesOneRound, Reporting
  <2>2. CASE pc = "sleep"
    <3>1. Window <= age + nap /\ nap' = nap - 1 /\ round' = 0 /\ last_read'.humidity > 0
      BY <1>1, <1>3, <2>2 DEF RoundInv, CacheServesOneRound
    <3>2. Window <= age' + nap'
      <4>1. nap > 0 /\ nap' = nap - 1 /\ Window <= age + nap
        BY <1>3, <2>2, <3>1
      <4>2. nap \in Nat /\ Window \in Nat
        BY <1>2
      <4>3. CASE age = Window
        <5>1. age' = Window
          BY <1>4, <4>3
        <5>2. Window <= Window + (nap - 1)
          BY <4>1, <4>2
        <5> QED BY <4>1, <5>1, <5>2
      <4>4. CASE age < Window
        <5>1. age' = age + 1
          BY <1>4, <4>4
        <5> QED BY <1>2, <4>1, <5>1
      <4> QED BY <1>2, <4>3, <4>4
    <3> QED BY <1>1, <2>2, <3>1, <3>2 DEF CacheServesOneRound, Reporting
  <2>3. CASE pc \notin {"test temperature", "sleep"}
    <3>1. age <= round => age' <= round'
      <4>1. round' = round + 1
        BY <1>3, <2>3
      <4> QED BY <1>2, <1>4, <4>1
    <3> QED BY <1>1, <2>3, <3>1 DEF RoundInv, CacheServesOneRound, Reporting
  <2> QED BY <2>1, <2>2, <2>3
<1>8. CopiesAgree'
  BY <1>1 DEF RoundInv, CopiesAgree, ShownAt, WrittenAt, Value
<1> QED BY <1>6, <1>7, <1>8 DEF RoundInv

LEMMA RoundNext == RoundInv /\ [Next]_vars => RoundInv'
<1> SUFFICES ASSUME RoundInv, [Next]_vars PROVE RoundInv'
  OBVIOUS
<1>1. CASE Show("temperature", "show temperature", "show humidity")
           \/ Show("humidity", "show humidity", "json temperature")
  BY <1>1, ShowKeeps DEF Lines
<1>2. CASE MQTT_DataJson("temperature", "json temperature", "json humidity")
           \/ MQTT_DataJson("humidity", "json humidity", "publish")
  BY <1>2, JsonKeeps DEF Lines
<1>3. CASE Disturb \/ UNCHANGED vars
  <2>1. UNCHANGED <<pc, round, nap, age, last_read, display, spoilt, free, json>>
    BY <1>3 DEF Disturb, vars, reading, heap
  <2> QED BY <2>1 DEF RoundInv, Clocks, CacheServesOneRound, CopiesAgree, ShownAt, WrittenAt, Value
<1> QED BY <1>1, <1>2, <1>3, TestTemperatureKeeps, TestHumidityKeeps, ClearKeeps, PublishKeeps,
           WakeKeeps, TickKeeps DEF Next, read_sensor_task

LEMMA RoundSpec == Spec => []RoundInv
<1> QED BY RoundInit, RoundNext, PTL DEF Spec

-----------------------------------------------------------------------------
(* Conversions *)

\* Whatever a conversion returns is a reading that matches its source.
LEMMA ConversionMatches ==
  ASSUME FramesDecode, Convert
  PROVE  /\ last_read' \in Reading
         /\ source' \in [measured : Measurements, missed : BOOLEAN]
         /\ SourceMatches'
<1>1. \E m \in Measurements :
        \/ last_read' \in Clean(m) \cup Disturbed(m) /\ source' = From(m, FALSE)
        \/ last_read' \in Delayed(m) /\ source' = From(m, TRUE)
  BY DEF Convert, Warm, WhenSteady, WhenDisturbed, WhenMissed
<1>2. PICK m \in Measurements :
        \/ last_read' \in Clean(m) \cup Disturbed(m) /\ source' = From(m, FALSE)
        \/ last_read' \in Delayed(m) /\ source' = From(m, TRUE)
  BY <1>1
<1>3. CASE last_read' \in Clean(m) \cup Disturbed(m) /\ source' = From(m, FALSE)
  <2>1. last_read' \in Reading /\ (last_read'.humidity > 0 => IsTimes(last_read', m, 1))
    BY <1>3 DEF FramesDecode
  <2>2. source' \in [measured : Measurements, missed : BOOLEAN] /\ source'.measured = m
    BY <1>3 DEF From
  <2> QED BY <2>1, <2>2 DEF SourceMatches, IsTimes
<1>4. CASE last_read' \in Delayed(m) /\ source' = From(m, TRUE)
  <2>1. /\ last_read' \in Reading
        /\ last_read'.humidity > 0 => IsTimes(last_read', m, 1) \/ IsTimes(last_read', m, 2)
    BY <1>4 DEF FramesDecode
  <2>2. /\ source' \in [measured : Measurements, missed : BOOLEAN]
        /\ source'.measured = m /\ source'.missed
    BY <1>4 DEF From
  <2> QED BY <2>1, <2>2 DEF SourceMatches, IsTimes
<1> QED BY <1>2, <1>3, <1>4

\* The rest of the types: the values read, and their copies.
ValueTypes ==
  /\ last_read \in Reading
  /\ source \in [measured : Measurements \cup {NoMeasurement}, missed : BOOLEAN]
  /\ steady \in BOOLEAN
  /\ display \in [Lines -> Int]
  /\ spoilt \in BOOLEAN
  /\ json \in [Lines -> Int]
  /\ accepted \in BOOLEAN

ReadingInv == ValueTypes /\ SourceMatches

LEMMA ReadingInit == Init => ReadingInv
<1> SUFFICES ASSUME Init PROVE ReadingInv
  OBVIOUS
<1>1. last_read \in Reading /\ last_read.humidity = 0
  <2>1. last_read = [status |-> DHT11_OK, temperature |-> 0, humidity |-> 0]
    BY DEF Init
  <2> QED BY <2>1 DEF Reading
<1>2. source \in [measured : Measurements \cup {NoMeasurement}, missed : BOOLEAN]
  BY DEF Init, From
<1>3. display \in [Lines -> Int] /\ json \in [Lines -> Int]
  <2>1. display = [l \in Lines |-> Blank] /\ json = [l \in Lines |-> 0]
    BY DEF Init
  <2>2. Blank \in Int
    BY DEF Blank
  <2> QED BY <2>1, <2>2
<1>4. steady \in BOOLEAN /\ spoilt \in BOOLEAN /\ accepted \in BOOLEAN
  BY DEF Init
<1> QED BY <1>1, <1>2, <1>3, <1>4 DEF ReadingInv, ValueTypes, SourceMatches

\* A call of DHT11_read keeps the reading one that matches its source.
LEMMA ReadKeeps ==
  ASSUME FramesDecode, ReadingInv, DHT11_read
  PROVE  /\ last_read' \in Reading
         /\ source' \in [measured : Measurements \cup {NoMeasurement}, missed : BOOLEAN]
         /\ SourceMatches'
         /\ last_read'.temperature \in Int /\ last_read'.humidity \in Int
<1>1. /\ last_read' \in Reading
      /\ source' \in [measured : Measurements \cup {NoMeasurement}, missed : BOOLEAN]
      /\ SourceMatches'
  <2>1. CASE UNCHANGED <<age, last_read, source>>
    BY <2>1 DEF ReadingInv, ValueTypes, SourceMatches
  <2>2. CASE Convert
    <3>1. /\ last_read' \in Reading /\ SourceMatches'
          /\ source' \in [measured : Measurements, missed : BOOLEAN]
      BY <2>2, ConversionMatches
    <3> QED BY <3>1
  <2> QED BY <2>1, <2>2, ReadOrConvert
<1>2. last_read'.temperature \in Int /\ last_read'.humidity \in Int
  BY <1>1 DEF Reading
<1> QED BY <1>1, <1>2

LEMMA DisplayKeeps ==
  ASSUME ValueTypes, NEW links, NEW shown \in [Lines -> Int], DisplayCall(links, shown)
  PROVE  display' \in [Lines -> Int] /\ spoilt' \in BOOLEAN
BY DEF ValueTypes, DisplayCall

LEMMA ReadingNext == FramesDecode /\ ReadingInv /\ [Next]_vars => ReadingInv'
<1> SUFFICES ASSUME FramesDecode, ReadingInv, [Next]_vars PROVE ReadingInv'
  OBVIOUS
<1> USE DEF Goto
<1>1. CASE TestTemperature \/ TestHumidity
  <2>1. DHT11_read /\ UNCHANGED <<steady, json, accepted, display, spoilt, free>>
    BY <1>1 DEF TestTemperature, TestHumidity, heap
  <2>2. last_read' \in Reading /\ SourceMatches'
        /\ source' \in [measured : Measurements \cup {NoMeasurement}, missed : BOOLEAN]
    BY <2>1, ReadKeeps
  <2> QED BY <2>1, <2>2 DEF ReadingInv, ValueTypes
<1>2. CASE Clear
  <2> DEFINE blank == [l \in Lines |-> IF free > Page(l) + 1 THEN Blank ELSE display[l]]
  <2>1. blank \in [Lines -> Int]
    BY DEF ReadingInv, ValueTypes, Blank
  <2>2. DisplayCall(8, blank) /\ UNCHANGED <<steady, json, accepted, last_read, source>>
    BY <1>2 DEF Clear, task_ssd1306_display_clear, reading
  <2> HIDE DEF blank
  <2>3. display' \in [Lines -> Int] /\ spoilt' \in BOOLEAN
    BY <2>1, <2>2, DisplayKeeps DEF ReadingInv
  <2> QED BY <2>2, <2>3 DEF ReadingInv, ValueTypes, SourceMatches
<1>3. ASSUME NEW l, NEW from, NEW to, Show(l, from, to), l \in Lines PROVE ReadingInv'
  <2> DEFINE v == IF l = "temperature" THEN last_read'.temperature ELSE last_read'.humidity
             links == 1 + Length(l, v)
             shown == [display EXCEPT ![l] = IF free > links THEN v ELSE IF free > 2 THEN Partial ELSE @]
  <2>1. DHT11_read /\ DisplayCall(links, shown) /\ UNCHANGED <<steady, json, accepted>>
    BY <1>3 DEF Show, task_ssd1306_display_text
  <2>2. /\ last_read' \in Reading /\ SourceMatches' /\ v \in Int
        /\ source' \in [measured : Measurements \cup {NoMeasurement}, missed : BOOLEAN]
    BY <2>1, ReadKeeps
  <2> HIDE DEF v, links
  <2>3. shown \in [Lines -> Int]
    BY <2>2, <1>3 DEF ReadingInv, ValueTypes, Partial
  <2> HIDE DEF shown
  <2>4. display' \in [Lines -> Int] /\ spoilt' \in BOOLEAN
    BY <2>1, <2>3, DisplayKeeps DEF ReadingInv
  <2> QED BY <2>1, <2>2, <2>4 DEF ReadingInv, ValueTypes
<1>4. ASSUME NEW l, NEW from, NEW to, MQTT_DataJson(l, from, to) PROVE ReadingInv'
  <2> DEFINE v == IF l = "temperature" THEN last_read'.temperature ELSE last_read'.humidity
  <2>1. DHT11_read /\ json' = [json EXCEPT ![l] = v]
        /\ UNCHANGED <<steady, display, spoilt, free, accepted>>
    BY <1>4 DEF MQTT_DataJson, heap
  <2>2. /\ last_read' \in Reading /\ SourceMatches' /\ v \in Int
        /\ source' \in [measured : Measurements \cup {NoMeasurement}, missed : BOOLEAN]
    BY <2>1, ReadKeeps
  <2> HIDE DEF v
  <2>3. json' \in [Lines -> Int]
    BY <2>1, <2>2 DEF ReadingInv, ValueTypes
  <2> QED BY <2>1, <2>2, <2>3 DEF ReadingInv, ValueTypes
<1>5. CASE Publish
  <2>1. accepted' \in BOOLEAN /\ UNCHANGED <<last_read, source, steady, display, spoilt, json>>
    BY <1>5 DEF Publish, reading, heap
  <2> QED BY <2>1 DEF ReadingInv, ValueTypes, SourceMatches
<1>6. CASE Wake
  <2>1. spoilt' \in BOOLEAN /\ UNCHANGED <<last_read, source, steady, display, accepted, json>>
    BY <1>6 DEF Wake, reading
  <2> QED BY <2>1 DEF ReadingInv, ValueTypes, SourceMatches
<1>7. CASE Disturb \/ Tick \/ UNCHANGED vars
  <2>1. steady' \in BOOLEAN /\ UNCHANGED <<last_read, source, display, spoilt, accepted, json>>
    BY <1>7 DEF Disturb, Tick, vars, reading, heap, ReadingInv, ValueTypes
  <2> QED BY <2>1 DEF ReadingInv, ValueTypes, SourceMatches
<1> QED BY <1>1, <1>2, <1>3, <1>4, <1>5, <1>6, <1>7 DEF Next, read_sensor_task, Lines

LEMMA ReadingSpec == ASSUME FramesDecode PROVE Spec => []ReadingInv
<1>1. ReadingInv /\ [Next]_vars => ReadingInv'
  BY ReadingNext
<1> QED BY <1>1, ReadingInit, PTL DEF Spec

-----------------------------------------------------------------------------
(* The theorems *)

\* read_sensor_task and its clocks, values and texts keep their types, and the
\* command links that stay behind never overdraw the heap.
THEOREM SensorTypeCorrect == ASSUME FramesDecode PROVE Spec => []TypeOK
<1>1. RoundInv /\ ReadingInv => TypeOK
  BY DEF RoundInv, Clocks, Testing, Reporting, ReadingInv, ValueTypes, TypeOK
<1> QED BY <1>1, RoundSpec, ReadingSpec, PTL

OneConversion == pc \in Reporting => UNCHANGED <<last_read, source>>

\* From the second test of read_sensor_task to its publish DHT11_read never
\* talks to the sensor: one conversion serves the round, for every bound on a
\* round below the time of the cache.
THEOREM SensorOneConversion == Spec => [][OneConversion]_vars
<1>1. RoundInv /\ [Next]_vars => [OneConversion]_vars
  <2> SUFFICES ASSUME RoundInv, Next, pc \in Reporting PROVE UNCHANGED <<last_read, source>>
    BY DEF OneConversion
  <2>1. CASE TestTemperature \/ TestHumidity
    BY <2>1 DEF TestTemperature, TestHumidity, Goto, Reporting
  <2>2. CASE DHT11_read
    BY <2>2, ReportingIsCached DEF reading
  <2>3. ASSUME NEW l, NEW from, NEW to, Show(l, from, to) PROVE DHT11_read
    BY <2>3 DEF Show
  <2>4. ASSUME NEW l, NEW from, NEW to, MQTT_DataJson(l, from, to) PROVE DHT11_read
    BY <2>4 DEF MQTT_DataJson
  <2>5. CASE Clear \/ Publish \/ Wake \/ Disturb
    BY <2>5 DEF Clear, Publish, Wake, Disturb, reading
  <2>6. CASE Tick
    BY <2>6 DEF Tick
  <2> QED BY <2>1, <2>2, <2>3, <2>4, <2>5, <2>6 DEF Next, read_sensor_task
<1> QED BY <1>1, RoundSpec, PTL DEF Spec

\* What MQTT_DataJson puts together from two calls of DHT11_read was measured
\* together, and doubled at most, whatever happens to one frame.
THEOREM SensorReportedIsSent == ASSUME FramesDecode PROVE Spec => []ReportedIsSent
<1>1. RoundInv /\ ReadingInv => ReportedIsSent
  <2> SUFFICES ASSUME RoundInv, ReadingInv, pc = "sleep"
               PROVE  \/ json = Values(source.measured, 1)
                      \/ source.missed /\ json = Values(source.measured, 2)
    BY DEF ReportedIsSent
  <2>1. /\ json = [l \in Lines |-> json[l]]
        /\ \A l \in Lines : json[l] = Value(l)
        /\ last_read.humidity > 0
    BY DEF RoundInv, CopiesAgree, CacheServesOneRound, WrittenAt
  <2>2. ASSUME NEW k, IsTimes(last_read, source.measured, k) PROVE json = Values(source.measured, k)
    BY <2>1, <2>2 DEF Value, Values, IsTimes
  <2> QED BY <2>1, <2>2 DEF ReadingInv, SourceMatches
<1> QED BY <1>1, RoundSpec, ReadingSpec, PTL

\* The OLED, filled by two calls of DHT11_read before the two of
\* MQTT_DataJson, shows what has been published, in every round in which the
\* display answered and the heap had room.
THEOREM SensorDisplayMatchesReport == Spec => []DisplayMatchesReport
<1>1. RoundInv => DisplayMatchesReport
  BY DEF RoundInv, CopiesAgree, ShownAt, WrittenAt, DisplayMatchesReport
<1> QED BY <1>1, RoundSpec, PTL
=============================================================================
