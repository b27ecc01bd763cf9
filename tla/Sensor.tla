------------------------------- MODULE Sensor -------------------------------
(***************************************************************************)
(* The sensor task of NodeOne (read_sensor_task in main/app_main.c): it    *)
(* reads the DHT11, shows both values on the OLED and publishes them.      *)
(* Every value is fetched by a call of DHT11_read of its own, six in one   *)
(* round; that they belong together rests on the driver's cache alone.     *)
(* Each text leaves I2C command links behind, because setting the location *)
(* does not delete its link when it succeeds.                              *)
(***************************************************************************)
EXTENDS Dht11

CONSTANTS Measurements,   \* what the sensor may measure: humidity, temperature, decimals
          Window,         \* ticks a reading is cached: 2 s
          MaxRound,       \* ticks one round may take, from its first test to the publish
          Nap,            \* ticks between two rounds: 10 s
          Heap            \* command links the heap has room for

ASSUME SensorAssumption ==
  /\ Measurements \subseteq [hum : Nat, temp : Nat, dec : Nat]
  /\ MaxRound \in Nat /\ Window \in Nat /\ Nap \in Nat /\ Heap \in Nat
  /\ 0 < MaxRound /\ MaxRound < Window /\ Window <= Nap

VARIABLES pc,          \* the next call of read_sensor_task
          round,       \* ticks spent in the round
          nap,         \* ticks left of vTaskDelay(10000)
          age,         \* ticks since last_read_time, at most Window
          last_read,
          source,      \* history: the measurement last converted, and whether a slot was missed
          steady,      \* the sensor works and measures more than zero
          display,     \* the two lines of the OLED
          spoilt,      \* history: some call to the display failed in this round
          free,        \* links the heap still has room for
          json,        \* MQTT_BUFFER
          accepted     \* the client took the message of the round into its outbox

reading == <<age, last_read, source>>
heap == <<display, spoilt, free>>
vars == <<pc, round, nap, reading, steady, heap, json, accepted>>

Lines == {"temperature", "humidity"}

\* Of a line, beside the values: empty, or with characters missing.
Blank   == -2
Partial == -3

NoMeasurement == [hum |-> 0, temp |-> 0, dec |-> 0]
From(m, missed) == [measured |-> m, missed |-> missed]

Init ==
  /\ pc = "test temperature"
  /\ round = 0
  /\ nap = 0
  /\ age = Window
  /\ last_read = [status |-> DHT11_OK, temperature |-> 0, humidity |-> 0]
  /\ source = From(NoMeasurement, FALSE)
  /\ steady \in BOOLEAN
  /\ display = [l \in Lines |-> Blank]
  /\ spoilt = FALSE
  /\ free = Heap
  /\ json = [l \in Lines |-> 0]
  /\ accepted = FALSE

-----------------------------------------------------------------------------
(* DHT11_read: the value of the call is last_read'. *)

Warm == {m \in Measurements : m.hum > 0 /\ m.temp > 0}

\* What conversions may return, as functions of what is measured.
WhenSteady    == [m \in Warm |-> Clean(m)]
WhenDisturbed == [m \in Measurements |-> Clean(m) \cup Disturbed(m)]
WhenMissed    == [m \in Measurements |-> Delayed(m)]

Convert ==
  \/ \E m \in Warm : last_read' \in WhenSteady[m] /\ source' = From(m, FALSE)
  \/ /\ ~steady
     /\ \E m \in Measurements :
          \/ last_read' \in WhenDisturbed[m] /\ source' = From(m, FALSE)
          \/ last_read' \in WhenMissed[m] /\ source' = From(m, TRUE)

\* Mutants: no reading is kept; the time of a call instead of a conversion.
DHT11_readUncached == age' = 0 /\ Convert

DHT11_readSliding ==
  \/ age < Window /\ age' = 0 /\ UNCHANGED <<last_read, source>>
  \/ age = Window /\ age' = 0 /\ Convert

\* The time of the read is taken before the conversion, whatever it returns.
DHT11_read ==
  \/ age < Window /\ UNCHANGED reading
  \/ age = Window /\ age' = 0 /\ Convert

-----------------------------------------------------------------------------
(* The OLED.  A call that is not answered deletes its link and stops; one   *)
(* that is answered leaves the link of every location behind.  A location  *)
(* and the link of the bytes after it must both find room.                 *)

\* Mutant: the heap is not looked at.
DisplayCallUnchecked(links, shown) ==
  \/ spoilt' = TRUE /\ UNCHANGED <<display, free>>
  \/ display' = shown /\ free' = free - links /\ UNCHANGED spoilt

\* What a call shows, and the links it leaves when the heap suffices.
DisplayCall(links, shown) ==
  \/ spoilt' = TRUE /\ UNCHANGED <<display, free>>
  \/ /\ free > 0
     /\ display' = shown
     /\ free' = IF free > links THEN free - links ELSE 0
     /\ spoilt' = (spoilt \/ free <= links)

\* Eight pages, one location each; the temperature is on page 2, the humidity
\* on page 4.
Page(l) == IF l = "temperature" THEN 2 ELSE 4

task_ssd1306_display_clear ==
  DisplayCall(8, [l \in Lines |-> IF free > Page(l) + 1 THEN Blank ELSE display[l]])

\* "nhiet do: " and "do am: ", then the digits; one location for the line and
\* one for each character.
Digits(v) == IF v \in 0 .. 9 THEN 1 ELSE IF v < 100 THEN 2 ELSE 3
Length(l, v) == (IF l = "temperature" THEN 10 ELSE 7) + Digits(v)

task_ssd1306_display_text(l, v) ==
  LET links == 1 + Length(l, v) IN
  DisplayCall(links, [display EXCEPT ![l] = IF free > links THEN v ELSE IF free > 2 THEN Partial ELSE @])

-----------------------------------------------------------------------------
(* read_sensor_task *)

Goto(from, to) == pc = from /\ pc' = to /\ UNCHANGED steady

\* The two tests; while one fails the task asks again without a pause.
TestTemperature ==
  /\ DHT11_read
  /\ Goto("test temperature", IF last_read'.temperature > 0 THEN "test humidity" ELSE "test temperature")
  /\ UNCHANGED <<round, nap, heap, json, accepted>>

TestHumidity ==
  /\ DHT11_read
  /\ IF last_read'.humidity > 0
     THEN Goto("test humidity", "clear") /\ UNCHANGED round
     ELSE Goto("test humidity", "test temperature") /\ round' = 0
  /\ UNCHANGED <<nap, heap, json, accepted>>

Clear ==
  /\ Goto("clear", "show temperature")
  /\ task_ssd1306_display_clear
  /\ UNCHANGED <<round, nap, reading, json, accepted>>

Show(l, from, to) ==
  /\ Goto(from, to)
  /\ DHT11_read
  /\ task_ssd1306_display_text(l, IF l = "temperature" THEN last_read'.temperature ELSE last_read'.humidity)
  /\ UNCHANGED <<round, nap, json, accepted>>

\* MQTT_DataJson fetches both values once more.
MQTT_DataJson(l, from, to) ==
  /\ Goto(from, to)
  /\ DHT11_read
  /\ json' = [json EXCEPT ![l] = IF l = "temperature" THEN last_read'.temperature ELSE last_read'.humidity]
  /\ UNCHANGED <<round, nap, heap, accepted>>

\* QoS 1: the message needs room in the outbox; the result is not looked at.
Publish ==
  /\ Goto("publish", "sleep")
  /\ accepted' = (free > 0)
  /\ round' = 0
  /\ nap' = Nap
  /\ UNCHANGED <<reading, heap, json>>

Wake ==
  /\ Goto("sleep", "test temperature")
  /\ nap = 0
  /\ spoilt' = FALSE
  /\ UNCHANGED <<round, nap, reading, display, free, json, accepted>>

read_sensor_task ==
  \/ TestTemperature \/ TestHumidity \/ Clear
  \/ Show("temperature", "show temperature", "show humidity")
  \/ Show("humidity", "show humidity", "json temperature")
  \/ MQTT_DataJson("temperature", "json temperature", "json humidity")
  \/ MQTT_DataJson("humidity", "json humidity", "publish")
  \/ Publish \/ Wake

-----------------------------------------------------------------------------
\* Time passes while the task polls or sleeps, and within the bound on a round.
Tick ==
  /\ \/ pc = "test temperature" /\ UNCHANGED <<round, nap>>
     \/ pc = "sleep" /\ nap > 0 /\ nap' = nap - 1 /\ UNCHANGED round
     \/ pc \notin {"test temperature", "sleep"} /\ round < MaxRound /\ round' = round + 1 /\ UNCHANGED nap
  /\ age' = IF age < Window THEN age + 1 ELSE age
  /\ UNCHANGED <<pc, last_read, source, steady, heap, json, accepted>>

\* The sensor is disturbed, measures zero, or works again.
Disturb == steady' = ~steady /\ UNCHANGED <<pc, round, nap, reading, heap, json, accepted>>

Next == read_sensor_task \/ Tick \/ Disturb

\* The task has a slice of its priority, and time passes.
Fairness == WF_vars(read_sensor_task) /\ WF_vars(Tick)

Spec == Init /\ [][Next]_vars /\ Fairness

-----------------------------------------------------------------------------
Reading == [status : {DHT11_OK, DHT11_TIMEOUT_ERROR, DHT11_CRC_ERROR}, temperature : Int, humidity : Int]

\* The variables keep their types; the heap is never overdrawn.
TypeOK ==
  /\ pc \in {"test temperature", "test humidity", "clear", "show temperature", "show humidity",
            "json temperature", "json humidity", "publish", "sleep"}
  /\ round \in 0 .. MaxRound
  /\ nap \in 0 .. Nap
  /\ age \in 0 .. Window
  /\ last_read \in Reading
  /\ source \in [measured : Measurements \cup {NoMeasurement}, missed : BOOLEAN]
  /\ steady \in BOOLEAN
  /\ display \in [Lines -> Int]
  /\ spoilt \in BOOLEAN
  /\ free \in 0 .. Heap
  /\ json \in [Lines -> Int]
  /\ accepted \in BOOLEAN

Values(m, factor) == [l \in Lines |-> factor * (IF l = "temperature" THEN m.temp ELSE m.hum)]

\* Whatever happens to one frame, temperature and humidity that are published
\* together were measured together, although each was fetched and tested by a
\* call of its own; only a missed slot gets through, as twice both values.
ReportedIsSent ==
  pc = "sleep" =>
    \/ json = Values(source.measured, 1)
    \/ source.missed /\ json = Values(source.measured, 2)

\* What the OLED shows in the pause is what has been published, unless the
\* display or the heap failed in that round.
DisplayMatchesReport == (pc = "sleep" /\ ~spoilt) => display = json

Reported == pc = "sleep" /\ accepted

\* The task gets over every disturbance: once the sensor works for good, it
\* goes on reporting as long as there is memory.
SensorReports == <>[]steady => ([]<>Reported \/ <>[](free = 0))

\* "data push to database" (README.md): once the sensor works for good, its
\* values go on being pushed.
DataIsPushed == <>[]steady => []<>Reported
=============================================================================
