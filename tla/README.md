# A TLA+ model of the smart-home nodes and their server

The repository holds the firmware of two ESP32 nodes (`NodeOne`: fan, sensor,
display; `NodeTwo`: door, lamps, BLE) and a Node.js server (`SERVER`) that
writes what happens into a database. They meet at an MQTT broker. This
directory models their control: what the tasks, handlers and callbacks do, in
which order, and what may come between.

## Inventory

| Component | State it keeps | Operations | Who else touches it |
|---|---|---|---|
| Door, servo (`NodeTwo/main/main.c`, `components/servo`) | `is_door_open`, `targetAngle`, duty register and output of the LEDC channel | `door_mqtt_handle`, `handle_user_input`, `check_and_close_door`, `servo_per_degree_init` | MQTT task and auto-close task, no lock |
| Lamps (`components/LED`, `components/74hc595`, `led_mqtt_handle`) | `led[]`, `mode_index`; register and latch of the 74HC595 | commands per room, byte out, latch, button interrupt | MQTT task; interrupt |
| Wi-Fi station (`components/WIFI`) | `s_retry_num`, event group | `wifi_init_sta`, `event_handler` | `app_main` waits, event-loop task sets |
| BLE bridge (`components/BLE_GATTS_SERVER`, three tasks in `main.c`) | three queues, `publish_topic`, attribute handles, `adv_config_done` | GATT write event, `mqtt_subcribe_topic`, `mqtt_publish_topic`, `send_mqtt_mesage`; advertising | Bluetooth task and three tasks |
| Fan schedule (`NodeOne/main/app_main.c`) | `fan_state`, `fan_timer`, motor duty, a task per schedule | `fan_control`, `start_fan_timer`, `check_time_and_turn_on_fan`, `fan_off_callback` | monitor tasks, timer task, MQTT task |
| Fan commands (`app_handle_mqtt_data`) | motor duty; messages in flight | command, answer under the same topic | broker, server |
| Sensor, display, time (`app_main.c`, `dht11.c`) | last reading and its time; I2C links; system clock | `DHT11_read`, `read_sensor_task`, `task_ssd1306_*`, `obtain_time` | one task each |
| Server (`SERVER/server.js`, `event.js`) | `last_state`, `last_mode`; four collections | one async handler per message, `getLatestData`, `saveData` | overlapping handlers |
| `NodeOne/mongodb/sever.js` | a collection | parse and insert a sensor message | nothing |

How they interact: the server and the web client talk to the nodes through
the topics `smarthome/led`, `smarthome/door`, `smarthome/fan/control`,
`smarthome/fan/time` and `smarthome/sensor`. (The committed configuration names
three different broker hosts: one for NodeOne, one for NodeTwo, one for
`sever.js`; the server takes its own from the environment. The model assumes
that the parts that are composed meet at one broker.)

What makes them correct, and hard:

- *Door.* Two tasks move one servo degree by degree and write one flag. The
  flag must be right when it says open, and an open door must be closed.
- *Lamps.* Bits travel one by one to a latch that drives all rooms, and a reset
  may come between any two of them.
- *Wi-Fi.* Events are handled late; retries must be counted per outage; nobody
  may wait for ever.
- *BLE.* Queues fill up and drop; topic and message take different ways.
  Advertising is asked for in three callbacks, and the callbacks run before
  `app_main` has made the queues they write to.
- *Fan.* Any number of tasks share one timer handle, the timer's callback runs
  in a task of its own.
- *Sensor.* Pulses are timed by a task that may be interrupted, one round
  reads the sensor six times and relies on a cache, and every text shown on the
  display costs memory.
- *Server.* Handlers overlap at every `await` and share two variables.

## Modules

| Module | Models | Checked by | Proved in |
|---|---|---|---|
| `Servo` | `components/servo`: the two halves of a duty update | with `Door` | with `Door` |
| `Door` | `main.c` 52-168, extends `Servo` | `MCDoor`, 2 runs | `DoorProofs` |
| `WifiStation` | `components/WIFI` | with `NodeTwoStart` | `NodeTwoStartProofs` |
| `NodeTwoStart` | `app_main` of NodeTwo, `ble_gatt_init`, the GAP and GATT callbacks, the BLE stack and a phone, resets; extends `WifiStation` | `MCNodeTwoStart` | `NodeTwoStartProofs` |
| `LedPanel` | abstract: a pattern per room, shown at once | target of a refinement | |
| `Led` | `led_mqtt_handle`, `components/LED`, `components/74hc595`; implements `LedPanel` | `MCLed` | `LedProofs` |
| `ServerLed` | LED branch of `server.js`, `LedSchema` | `MCServerLed`, 2 runs | `ServerLedProofs` |
| `MessageChannel` | abstract: a bounded first-in-first-out channel | target of a refinement | |
| `BleBridge` | GATT write event, queues, three tasks; implements `MessageChannel` | `MCBleBridge`, 2 runs | `BleBridgeProofs` |
| `FanSchedule` | monitor tasks, timer, callback and SNTP of `app_main.c` | `MCFanSchedule` | `FanScheduleProofs` |
| `FanControl` | fan commands and answers: client, broker, `app_handle_mqtt_data`, fan branch of `server.js` | `MCFanControl` | `FanControlProofs` |
| `Dht11` | `dht11.c` on one frame: pulses, timeouts, checksum; the frames and their faults. Operators only | with `Sensor` | |
| `Sensor` | `read_sensor_task`, the cache of `DHT11_read`, `task_ssd1306_*` of `app_main.c`; extends `Dht11` | `MCSensor`, 2 runs | `SensorProofs` |

The modules named `MC...` only give the constants their values for TLC; no
definition of a module is replaced. Definitions whose comment begins with
*Mutant* are faulty variants of the definition below them: `PROJECT.json` names,
for every property of every passing run, a variant under which TLC must find
that property violated.

## How the models correspond to the code

**`Servo`, `Door`.** `staged` and `duty` are the duty register and the output of
the LEDC channel: `SetDuty` is `ledc_set_duty`, `UpdateDuty` is
`ledc_update_duty`, and the other task may run between them. `PulseWidth`
is the code's formula with its constrain macro. The two tasks are
`mqtt`, which runs `door_mqtt_handle` to its end inside the MQTT event handler,
and `auto`, which is `check_and_close_door`. The label of a task says which call
comes next: `Dispatch` writes the flag and enters the sweep of
`handle_user_input`, `SetServo`, `UpdateServo`, `NextDegree` and `EndSweep` are
its loop, `CheckOpen`, `CheckClosed` and `ClearFlag` the loop of the
auto-close task. Time is counted in the 10 ms of one degree; `Tick` passes only
when both tasks are blocked. `openFor` is history.

**`WifiStation`.** `main` is `app_main` inside `wifi_init_sta`, `event_handler`
is the handler of the same name (one action per branch), `bits` the event group.
The driver and the network (`driver`, `Associate`, `ObtainIp`, `Disconnect`,
`LoseIp`) are the ESP-IDF's and are modelled from how the code uses them: an
attempt is answered, a link may break at any time, and events wait in the queue
of the event loop, so that the handler sees them late. `failures` is history.

**`NodeTwoStart`.** `Calls` is the rest of `app_main` in its order; `boot`
counts the calls done, `made` holds those that succeeded. A call whose failure
the code logs and goes on after may fail (`Fail`); `TaskAsserts` is
`xQueueReceive` on a queue that was not created, `WriteAsserts` is `xQueueSend`
on one that does not exist yet: both assertions reset the chip. `requests` is
what the stack was asked for and has not answered, `btc` what waits for the
callbacks in the Bluetooth task. `OnReg`, `OnAttrTab`, `OnDisconnect` and
`OnWrite` are branches of `gatts_profile_event_handler`, `OnPayload` and
`OnAdvStart` of `gap_event_handler`. `adv_config_done` is the set of flags of
that variable. `Answer` and `Phone` are the stack and the client, modelled from
how the code uses them: answers come in the order of the requests, a connection
ends advertising, and any request may fail. `Ask` is a call whose result the
code looks at, `AskUnchecked` one whose result it does not: the start of
advertising (`BLE_GATTS_SERVER.c:281`, 287, 492) and of the service (506); nor
does it look at the status of a payload (278-289) or, outside debug output, of
the service start (483). `logged` remembers that an error has been written to
the log since the reset, and `ignored`, which is history, which requests failed
unseen. The Wi-Fi part is `WifiStation` unchanged: its `Next` is a disjunct of
`StartNext`, and a reset puts its variables back.

**`Led`.** A byte is the set of its bits. `Receive` is `led_mqtt_handle` by the
outcome of its parsing: on, off, a mode of the table, a byte from beyond the
table (`Foreign`: the number is not checked), or an unknown room, which the code
reports and then carries out. `NewMode` and `Word` are `get_data_controll`,
`ShiftBit` one round of the loop of `ic74hc595_send8bits`, `ic74hc595_latch` the
latch. `Restart` is a reset at any bit: it clears `led` and leaves register and
lamps alone, since `ic74hc595_init` sends nothing. A button press is a restart
as well: `gpio_isr_handler` dereferences its argument, which is the GPIO number
itself (`LED.c:63` and 108). `room` and `fresh` are history. `LedPanel` is what
the driver promises, one pattern per room and one step that shows them all;
`Panel` in `Led` is the refinement mapping.

**`ServerLed`.** `jobs[k]` is the k-th activation of the async handler. The code
between two awaits is one action: `Receive` up to the look-up, `getLatestData`
the look-up in the database, `Prepare` from its answer to the save with
the validation and the hook of `LedSchema`, `saveData` the insert. `RequestFails`
is a rejected request, `Restart` a new process. `last_state` and `last_mode` are
the globals of the module; a command's state and mode are written to them and
read back within `Prepare`. `raced` is history: the rooms that had two handlers
under way at once.

**`BleBridge`.** `Write` is `ESP_GATTS_WRITE_EVT`, `Enqueue` and `Drop` the two
ways `xQueueSend` ends, `Subscribe` the task `mqtt_subcribe_topic`,
`ReceiveTopic`, `SwitchTopic` and `FillTopic` the task `mqtt_publish_topic` (the
pointer is replaced by the result of `malloc` before the `memcpy`), and
`ReceiveMessage`, `ReadPointer` and `Publish` the task `send_mqtt_mesage`. A
value is the number of its write. `chosen`, `accepted` and `published` are history.
`Channel` is the refinement mapping: in transit are the message the sender holds,
then the queue, then the value the Bluetooth task is about to enqueue.

**`FanSchedule`.** A schedule message starts a monitor (`NewSchedule` is
`start_fan_monitoring`); `CheckTime`, `TurnOn` and `SetState` are
`check_time_and_turn_on_fan`, `HasTimer` to `StartTimer` the calls of
`start_fan_timer`, one action for each because each reads the global `fan_timer`
again; `Fire`, `CallbackOff` and `CallbackFlag` are the timer task in
`fan_off_callback`. `Manual` is a speed command, which does not look at
`fan_state`. A monitor polls once a second, at times twice in one second or not
at all in one (`polls`, `lag`), because 1000 ms plus the time of a check is not
one second. A second may pass while monitors are between their tests and the
start of their timers (`PassedBy`), so that two of them meet there also when
their schedules are a second apart. The timer task, which has the higher
priority, runs before a second passes. `esp_timer_create` may find no memory and
then leaves the handle as it is; timers that a race has left behind stay armed.
Once a deleted timer has been used (`corrupt`), what follows is undefined and
the model stops. `manual`, `ranFor`, `owner`, `raced` and `stepped` are history:
the motor was last set by hand, how long the flag has been up and for which
monitor, whether two monitors have been past their tests at once, and whether
SNTP set the clock under one. `raced` ends with a switch-off that leaves no
monitor at work and no timer armed. `obtain_time` is one poll of the loop of
that name, `mqtt_app_start` ends the waiting, and `SetClock` is an answer of
SNTP, which may come long after start-up has gone on: the clock jumps, the
`esp_timer` does not.

**`FanControl`.** The client publishes (`Command`), the broker forwards to both
subscribers, the node drives the motor and publishes its answer under the same
topic (`HandleCommand`), from where it returns to it (`HandleAnswer`) and to the
server. `ServerReceive` is the fan branch of the handler, which accepts what
`parseInt` reads as 0 to 100; the node uses `atoi` and checks nothing. Order is
kept per connection, `Break` loses what is in one.

**`Dht11`.** A line is the microseconds each of the forty slots stays low and
high. `waitOrTimeout`, `ReadBit`, `Data`, `checkCRC` and `Decode` are the
functions of `dht11.c` on such a line, `Sent` is what the sensor sends for a
measurement, and `StaysHigh`, `StaysLow`, `Flipped`, `Missed` and `Silent` are
frames with one fault, at any of the forty slots. `Missed` is a slot that passed
while the task was interrupted: the driver times pulses in a task, with
interrupts enabled.

**`Sensor`.** `pc` is the next call of `read_sensor_task`. Each of the six calls
of `DHT11_read` is a step of its own and converts or returns the cached reading;
`last_read'` is its result. `MQTT_DataJson` is split at its two reads, the two
texts are `Show`. The display calls count the I2C command links they leave
behind, one for each location that was set: eight to clear, one
for a line and one for each character. `free` is the rest of the heap in links.
A call to the display that is not answered changes nothing and is noted in
`spoilt`. `source` and `spoilt` are history.

## The runs

Sizes are distinct states.

| Run | Expectation | What it shows |
|---|---|---|
| `door` (2,015) | pass | `OpenFlagMeansOpen`: when nothing moves the servo, an open flag is right, although both tasks may have swept it in opposite directions. `OpenIsBounded`: the flag is never up for more than a period. `OpenDoorIsClosed`: an open door is closed unless a further command moves it. |
| `door_flag` | violation | `FlagTracksDoor`, what the comment on `is_door_open` says ("Biến để theo dõi trạng thái của cửa", `main.c:52`). An open command that arrives as the automatic close begins raises the flag between the two writes of `check_and_close_door`, and its sweep moves the servo last. When both sweeps have ended the servo is open and the flag TRUE; then the second `is_door_open = false` (`main.c:147`) makes the right flag wrong: the door stays open and is never closed. |
| `node_start` (656,396) | pass | `NeverStranded`: the station is never offline with nothing pending and nothing said. `FailIsEarned`: failures of one outage are not charged to the next. `QuietIsUsable`: when Bluetooth has nothing left to do, the device is found or connected and has its service, or an error was logged, or the stack failed that very request and the code did not look: none of the three places that start advertising is missed, and nothing but those requests is lost in silence. `AdvertisesWhole`: on the air only after both payloads were answered, never asked for while the radio is in use; a start that was refused unseen is final. `AssertIsExplained`: a reset by a missing queue has a logged cause, or a phone was faster than `app_main`. `NodeComesUp`: start-up ends whatever Wi-Fi does, and the device does not stay invisible unless an error was logged or its start was refused unseen. |
| `led` (102,467) | pass | `NoTornOutput`: lamps only change to the whole word, whichever bit a reset comes at. `IdleShowsLeds`: between commands they show `led[]`. `RoomsAreIsolated`: a command changes its own room. `ImplementsPanel`: the driver implements `LedPanel`. |
| `server_led` (3.8 million) | pass | `RoomsDoNotMix`: overlapping handlers share two globals and still never write a value of one room into a record of another. `AloneReflectsBoth`: a room whose own handlers did not overlap has a newest record with its last state and its last mode. |
| `server_led_overlap` | violation | `LatestReflectsBoth`, what the comment in the handler says ("Tìm dữ liệu gần nhất cho cả state và mode", `server.js:101`). A state and a mode command of one room both look up before either has saved. The later record has its own value and the default of the other, although both are stored, one after the other. |
| `ble` (188,031) | pass | `TopicSettles`: whatever was dropped, the pointer ends at the last topic that was accepted, and its buffer is filled. `ImplementsChannel`: queues, tasks and pointer implement `MessageChannel`: messages leave once and in order, only the newest is turned away, none is lost after the first delivery, topics never go back. `BridgeDrains`: nothing is held up. |
| `ble_topic` | violation | `UnderChosenTopic`, what the names of the task ("Choose topic to Publish from ble to mqtt", `main.c:476`) and of the characteristic (`BLE_GATTS_SERVER.h:37`) say. A message can leave under an older, a newer or an unfilled topic. |
| `fan_schedule` (613,734) | pass | `NoUseAfterDelete`: whatever schedules share the handle, equal start times included, a deleted timer is used only after two monitors have both passed the test of `fan_state` before either set it. `OnlyNeighboursRace`: which takes two schedules of one second or of neighbouring ones. `RunningFanIsTimed`: in races too, a fan that runs has an armed timer in the handle. `RunHasItsTimer`, `RunLastsItsDuration`: without a race it is the only one, and the run lasts what its message said, whatever begins meanwhile and whatever SNTP makes of the clock. `RunEnds`: every run ends unless a deleted timer was used. `StartUpEnds`: nobody waits for the time for ever. |
| `fan_control` (323,979) | pass | `FanSettles`: answers that return between newer commands do not leave the motor at an older speed. `LogMatchesFan`: the server's newest record is the motor's speed. `EchoesEnd`: answers do not go round for ever. |
| `sensor` (230,752) | pass | `ReportedIsSent`: with any one fault in any frame, and six reads in a round, temperature and humidity that are published together were measured together and are right, or both doubled after a missed slot. `DisplayMatchesReport`: the display shows what was published, unless it failed. `SensorReports`: reporting resumes after every disturbance, until the heap is used up. |
| `sensor_leak` | violation | `DataIsPushed`, what `README.md:1` of the repository says ("data push to database"). Every round leaves more than thirty command links behind (`app_main.c:529`), until neither display nor client find memory. |

`TypeOK` is checked in every passing run. Deadlock is checked in `door`, `led`,
`fan_schedule` and `sensor`; the other systems stop when their bounded environment
stops, or when the station has given up for good.

## Bounds, and why they are enough

The safety properties and the refinements are proved for all values (see below);
for them the bounds only matter as a check of the statements before their
proofs. For liveness they are all there is.

- `MCDoor`: a servo of 3 degrees and a period of 7 ticks instead of 91 and 1500.
  What matters is kept: a sweep has a first, an inner and a last degree, and the
  period is longer than two sweeps and no multiple of one, so that sweeps
  overlap at every offset.
- `MCNodeTwoStart`: 2 Wi-Fi retries instead of 5 and an event queue of 2, which
  fills up. One reset (`MaxResets`), so that a start follows a failed one; in
  each start at most one call fails, and only while a reset is left, as is a
  write to a missing queue. The phone acts while fewer than two events wait
  (`MaxEvents`): enough for a write, or a disconnect, behind a connect that no
  callback has seen. The stack may fail any request at any time, without a
  bound.
- `MCLed`: the real constants of `LED.h` (8 bits, 2 rooms of 3 lamps, all three
  modes), one foreign byte that reaches into both rooms, two contents at
  power-up.
- `MCServerLed`: 3 messages, 2 rooms, 2 of 3 handlers at once, a clock of 3 ms.
  Lost updates and mixed rooms need two handlers and a third message that reads
  what they left; each of the two values of a command is one the validation
  accepts, and one of each the other command was meant for. `MCServerLedOverlap`
  needs only 2 messages for one room.
- `MCBleBridge`: queues of 1, 1 and 2 instead of 3, 3 and 6, with 1, 3 and 3
  writes: the topic and message queues are full and drop, a message can wait
  while two topics pass it.
- `MCFanSchedule`: a day of 4 s, durations up to 1 s, two monitors, which is
  what a race takes; a message may repeat a schedule, so that both start in one
  second. The three schedules follow one another across midnight, one lasts into
  the start of the next and two last 0 s. A second overtakes a monitor between
  its test and the start of its timer at most once in each stay there. Two timer
  handles: a new timer gets the handle of a deleted one or another, and with
  both in use there is no memory for a third. Two polls of `obtain_time` instead
  of ten, and one answer of SNTP (`MaxClockSteps`), which may come while a
  monitor is at work.
- `MCFanControl`: stop (0), a normal speed (50) and one the server refuses and
  the node accepts (150); each may be sent as text that only `atoi` reads. Three
  commands, so that an answer can be overtaken by two; one broken connection or
  failing save.
- `MCSensor`: measurements with different values, and with a checksum below 128,
  where a missed slot is not noticed. A cache of 2 ticks, at most 1 tick from
  the first test of a round to its publish (`MaxRound`: in the code 50 ms and
  the transfers, against 2 s) and a pause of 2. If a round took longer than the
  cache lasts, its values could part; `SensorAssumption` names that condition.
  The heap has room for 40 links, a little more than one round: as calls may
  fail without leaving links, it ends at any call of a later round. A call to
  the display is answered or not as a whole.

## Fairness

- FreeRTOS schedules a ready task: weak fairness for each task. It is given to
  the tasks of `Door`, `FanSchedule` and `BleBridge`, to `app_main` and the
  event loop of `WifiStation`, to `app_main`, the stack and its callbacks in
  `NodeTwoStart`, to the sensor task, and to the node and the server of
  `FanControl`.
- The tick interrupt keeps coming. `Tick` has strong fairness in `Door` and
  `FanSchedule`: `Tick` waits for ready tasks, and a message that does not
  block (an invalid command) could otherwise keep a task ready at every
  moment; only finitely many messages fit into 10 ms.
- `Sensor`: time passes (weak fairness of `Tick`), since the task asks the sensor
  again without blocking and the cache must run out meanwhile.
- `WifiStation`: an attempt that has begun is answered (the driver has its own
  timeouts). An established link need never break.
- `FanControl`: the client library reconnects, and the broker forwards what is
  not lost.
- No environment is fair: no message, write, command, reset, broken link, answer
  of SNTP or failure ever has to happen. `Led` and `ServerLed` state no liveness
  and assume no fairness.

## What is proved

Every invariant, action property and refinement that a passing run checks is
also a theorem, checked by TLAPS for all values of the constants. The theorems
stand in eight modules, one for each component. They assume the named ASSUMEs of
the component modules, which every run evaluates:

| Assumption | Says |
|---|---|
| `ServoAssumption`, `DoorAssumption` | a positive sweep, at least one unit of duty per degree; a sweep is not longer than the period |
| `RetryAssumption`, `StartAssumption` | a natural retry limit, an event queue of at least one; natural bounds |
| `LedAssumption` | all rooms fit the register |
| `BridgeAssumption` | each queue holds at least one value |
| `FanAssumption` | schedules within a day; two timers at least, none of them `NULL` |
| `FanControlAssumption` | speeds are integers; natural bounds |
| `ServerAssumption` | at least one handler at a time; natural bounds |
| `SensorAssumption` | measurements are natural numbers; a round is shorter than the cache lasts, the pause is not |

One condition is a hypothesis of the theorems that need it: `FramesDecode` (what
the checksum lets through, which the code does ensure but the prover cannot
follow; see *Sensor*).

*Door* (`DoorTypeCorrect`, `FlagIsBounded`, `FlagIsRight`). Neither property is
inductive. The invariant `Inv` adds `AutoLabels` (the auto-close task only runs
"close"), `OpenBudget` and `SoleSweep`. `OpenBudget` bounds the age of the flag
by where the auto-close task is: asleep, the age plus the rest of the nap is at
most the period; in the sweep the age is at most the number of degrees behind
it. `SoleSweep` is why the flag can be trusted: a flag that is up while the
auto-close task does not sweep was raised by a sweep of the MQTT task that has
had the servo to itself since its first degree, because the auto-close task
clears the flag when it begins and again when it ends. (The same second write
is what `door_flag` shows to be wrong in the other direction.)

*Wi-Fi* (`WifiTypeCorrect`, `WifiNeverStranded`, `WifiFailIsEarned`; with resets
`StartWifiTypeCorrect`, `StartNeverStranded`, `StartFailIsEarned`). The
invariant says that an event that would make the handler act on an idle driver
is the last one of the queue (`WakeIsLast`), that an idle driver has such an
event or has been given up (`IdleIsAccounted`), and that the code's counter is
the number of failures in a row up to its limit (`RetryCounts`). The queue is
handled by two lemmas about a post and a take. Every step of `NodeTwoStart` is
one of the station, a reset, or leaves the station alone (`WifiStep`), so that the
same invariant holds across resets (`WifiInStart`).

*Lamps* (`LedTypeCorrect`, `LedShown`, `LedNotTorn`, `LedRoomsIsolated`,
`LedImplementsPanel`). The invariant follows a byte through the register: the
bits sent so far stand in the register in their order (`SentSoFar`), after the
last one the register is the byte (`AllSent`), the byte is the word of
`led[]` (`SendsWord`), and the other rooms already show their patterns
(`OthersShown`). `MaskInBits` and `MasksDisjoint` are the arithmetic of the
masks for any number of rooms and lamps. The refinement maps every state to a
panel: initial states to initial states (`PanelInit`), every step to a step of
the panel or a stutter (`PanelNext`): bits are stutters, the latch is `Show`.

*Start-up and advertising* (`StartTypeCorrect`, `StartQuietIsUsable`,
`StartAdvertisesWhole`, `StartAssertIsExplained`). What is followed is the one
start of advertising: it waits for the flags of two payloads, is asked for, is
on the air, comes back as a disconnection, or was refused unseen, and is in one
of these places at most (`OneStart`, `RefusalFinal`). Each flag that is up has
its payload with the stack or before the callbacks (`FlagsKept`), no payload is
under way twice (`SingleRequests`, `SingleEvents`, `NotBoth`), and so
advertising begins after both have been answered: each is set or its failure is
in `ignored` (`StartedWhole`). `StartAccounted` and `ServiceAccounted` say that
the start and the service are somewhere unless an error was logged or their
request failed unseen; with empty queues they are on the air. `FailuresLogged`
and `WritesBounded` name the causes of a missing queue.

*BLE bridge* (`BridgeTypeCorrect`, `BridgeTopicSettles`, `BridgeImplementsChannel`).
The topic last accepted is at the end of its queue, else in the topic task, else
under the pointer (`LastAccepted`); only the buffer that task is about to fill is
not filled (`FilledUnlessNew`); from the client back to the phone topics never
become older (`TopicsAge`, `SentUnderOlder`). For the refinement, what is in
transit is the concatenation of sender, queue and Bluetooth task; each step moves
the border between two of these (a stutter), adds at the end, drops the newest, or
takes from the front.

*Fan schedule* (`FanTypeCorrect`, `FanNoUseAfterDelete`,
`FanOnlyNeighboursRace`, `FanRunningFanIsTimed`, `FanRunHasItsTimer`,
`FanRunLasts`; no theorem restricts the schedules). The invariant has three
layers. A monitor past its test is at its time of day or a second behind it,
unless SNTP set the clock under it (`AtItsTime`). Whatever the monitors do,
races included, the handle is dead only while one of them is between the
deletion and the creation or a deleted timer was used (`HandleLives`), and a
motor or a flag that is up has an armed timer in the handle, or somebody at work
who will arm one or switch off (`Timed`). As long as no two have raced there is
one monitor past its test at most (`OneInside`), so that nobody comes between
its test of the flag and its calls for the timer (`DownBefore`, `UpDuring`); a
run has its armed timer, what it has run and what the timer has left make up its
duration (`RunIsArmed`), and no other timer is armed (`ArmedIsRun`). When a race
is settled the third layer is entered again from the first two.

*Fan commands* (`ControlTypeCorrect`, `ControlFanSettles`, `ControlLogMatchesFan`).
The last command is behind all other commands on its way to the node, or has been
handled, and then the newest answer, or the motor when there is none, has its
speed (`NodeFollows`); the same to the server, whose newest record is then that
of the last command (`ServerFollows`). That no other record has its stamp, and
that the server never stamps more commands than were sent, needs the places of the
waiting commands among all that were sent (`Stamped`, `Counted`).

*Server* (`ServerTypeCorrect`, `ServerRoomsDoNotMix`, `ServerAloneReflectsBoth`).
What a handler holds between two awaits was sent to its room or is the default
(`HandlersDoNotMix`): the globals are written and read within one of its pieces.
In a room that is not in `raced` only the last handler is active (`OneByOne`), what
it has looked up or will store is what all records of the room amount to
(`Holds`), and so is the newest record (`NewestIsLast`), as the stamp of the
next one is later.

*Sensor* (`SensorTypeCorrect`, `SensorOneConversion`, `SensorReportedIsSent`,
`SensorDisplayMatchesReport`). The task asks for the temperature only when the
cache has run out or holds nothing valid; from then on the reading is no older
than the round, and the pause outlasts the cache (`CacheServesOneRound`). Hence
no call between the second test and the publish converts, and the copies on the
display and in the message are of one reading (`CopiesAgree`). That a valid
reading is what was measured, or both values doubled, is a matter of the
checksum over the bits of a frame: a sum over a set, about which the prover
cannot reason. `FramesDecode` states it for the measurements given and is the
hypothesis of `SensorTypeCorrect` and `SensorReportedIsSent`. TLC, evaluating
it by itself, found it true of every humidity from 20 to 90 and temperature from
0 to 50 (the range of a DHT11) with 0, 3 and 9 as decimals; the run `sensor`
rests on the same frames for its own measurements.

Each invariant was first checked by TLC on the instance of the component's run.
The last step of each theorem is temporal (PTL over the lemmas).

## What is only model-checked

- Liveness (`OpenDoorIsClosed`, `NodeComesUp`, `BridgeDrains`, `RunEnds`,
  `StartUpEnds`, `EchoesEnd`, `SensorReports`) is beyond this prover.
- What `Dht11` decodes (`FramesDecode`), for the reason given above.
- The counterexamples of `door_flag`, `server_led_overlap`, `ble_topic` and
  `sensor_leak` are runs of an instance.

## Limits that a reader should know

- Two schedules of one start time, or of neighbouring seconds when a second
  passes in between, can race in `FanSchedule`: both monitors pass the test of
  `fan_state` before either sets it, and both stop, delete and create through
  the one global, so that a deleted handle may be used. What does hold then is
  `RunningFanIsTimed` and `RunEnds`; how long a run lasts and which timers are
  armed is only claimed without a race. Nothing in the code refuses such
  schedules and no line of the repository promises otherwise, so that this is a
  hazard, not a finding.
- `BleBridge` calls a message delivered when it has been handed to the MQTT client.
  That a publish of QoS 0 (`main.c:414`) is lost on the way is not modelled.
- The speeds of `FanControl` are shorter than the ten characters at which
  `snprintf` cuts them (`app_main.c:347-348`), and no schedule drives its motor.
- The properties of `FanControl` hold while nothing is lost. If the connection
  breaks between two answers, an older one may be the last to arrive and the
  motor keeps that speed: the node obeys its own answers.
- The automatic close polls every 15 s and takes what it finds, so a door may be
  closed a moment after it was opened, while the log says "Door has been open
  for 10 seconds, closing..." (`main.c:145`). `OpenIsBounded` is what does hold.
- A state button does not switch its lamp but restarts the chip: the interrupt
  handler dereferences a GPIO number (`LED.c:63`).
- `ReportedIsSent` allows both values doubled. A task that is interrupted for
  the length of the first slot reads every bit one place to the left; the
  checksum is a plain sum and is doubled with the values as long as it stays
  below 128.
- A write that arrives before `app_main` has created its queue resets the chip
  (`main.c:447` and 460). No line of the repository promises otherwise;
  `AssertIsExplained` shows that there is no further cause.
- A failed registration or attribute table, a request that is refused during
  registration and an answer that advertising did not start are logged and never
  repeated (`BLE_GATTS_SERVER.c:293`). A failed payload, a failed start of the
  service and a refused start of advertising are not even logged: the device
  lacks a part of its data or its service, or is off the air.
- `sscanf` may fill only some of the integers of a schedule (`app_main.c:393`).
  `FanSchedule` takes parsed schedules; with a foreign duration a run may be as
  long as a timer allows.
- `Door` and `Led` begin after `servo_init` and `led_init`. In `app_main` the
  MQTT client is started before them (`main.c:446` and 450, 451), so a command
  may come earlier.
- `ServerLed` assumes that an insert is stamped in an earlier millisecond than
  the one it is visible in; records of one millisecond are ordered arbitrarily
  by the look-up, which the model keeps.
- `WifiStation` lets a full event queue block its sender; the driver that posts
  is not part of the repository.
- Where the code reads beyond an array or an unterminated copy (`led_mqtt_handle`),
  the model takes any of a given set of bytes; a crash at such a read is covered by
  `Restart`.

## What is not modelled, and why

- *BLE pairing*: security requests are confirmed and everything else is left to
  the stack.
- *OLED*: its initialisation and its pixels. What the two lines show and the
  command links are part of `Sensor`.
- *The heap of NodeTwo*: the buffer of the previous topic is never freed
  (`main.c:399`); freeing it would race with the sender. *Stacks of NodeOne*: every
  schedule leaves a task for ever (`app_main.c:343`).
- *Payload bytes of BLE*: `xQueueSend` copies more than the phone wrote
  (`BLE_GATTS_SERVER.c:451`).
- *MQTT client events*: NodeOne's subscription on a connect is part of
  `FanControl`; the rest is log lines. Sessions,
  keep-alive and reconnecting are the client library's.
- *Door and sensor branches of the server, `mongodb/sever.js`*: validate one
  message and insert one record; nothing is carried from one message to the next.
- *Vendored and generated code* (`node_modules`, fonts, certificates, build
  files): no logic of this program.

## Plan

Done, in the order of importance: `Door` with `Servo`, `WifiStation`, `Led` with
`LedPanel`, `ServerLed`, `BleBridge`, `FanSchedule`, `FanControl`, the proofs of the
first three; then `Sensor` with `Dht11` and the display, `NodeTwoStart`,
`MessageChannel` and the refinement of `BleBridge`, SNTP in `FanSchedule`; then
the proofs of `BleBridge`, `FanSchedule`, `NodeTwoStart`, `ServerLed`, `FanControl`
and `Sensor`.

Left, in this order:

1. An abstract log, one newest record per room, that `ServerLed` implements while
   a room's handlers do not overlap, with its refinement proved from `Alone`.
2. `FanControl`: that the sum of what is in flight goes down with every answer,
   the safety part of `EchoesEnd`.

## Running it

    tlc -config MCDoor.cfg MCDoor.tla        (and so on for every .cfg)
    tlapm DoorProofs.tla                     (and so on for every ...Proofs.tla)
