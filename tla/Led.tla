-------------------------------- MODULE Led ---------------------------------
(***************************************************************************)
(* The lamps of NodeTwo: led_mqtt_handle (main/main.c), the LED driver     *)
(* (components/LED) and the 74HC595 shift register behind it               *)
(* (components/74hc595).  A byte is the set of its bits that are 1, so the *)
(* mask of a room is a set of bits, & is \cap and | is \cup.               *)
(***************************************************************************)
EXTENDS Integers, FiniteSets

CONSTANTS NUMBER_OF_BIT,   \* outputs of the shift register (8)
          NUMBER_OF_LED,   \* lamps of a room (3)
          NUMBER_OF_ID,    \* rooms (2)
          Modes,           \* the patterns of mode[], as bytes
          Foreign,         \* bytes a read beyond mode[] may return
          PowerUp          \* bytes the register may hold when it is powered

Bits  == 0 .. NUMBER_OF_BIT - 1
Rooms == 0 .. NUMBER_OF_ID - 1
Lamps == 0 .. NUMBER_OF_LED - 1

ASSUME LedAssumption ==
  /\ NUMBER_OF_BIT \in Nat \ {0} /\ NUMBER_OF_LED \in Nat \ {0} /\ NUMBER_OF_ID \in Nat \ {0}
  /\ NUMBER_OF_ID * NUMBER_OF_LED <= NUMBER_OF_BIT
  /\ Modes \subseteq SUBSET Bits
  /\ Foreign \subseteq SUBSET Bits
  /\ PowerUp \subseteq SUBSET Bits

VARIABLES led,        \* led[ID].mode, a byte per room
          pc,         \* the MQTT task inside set_mode
          i,          \* the bit ic74hc595_send8bits sends next
          data,       \* the byte it sends
          register,   \* the shift register of the 74HC595
          outputs,    \* its output latch: the lamps
          room,       \* history: the room of the last command, NUMBER_OF_ID if unknown
          fresh       \* history: the outputs were latched since the last reset

hardware == <<register, outputs>>
vars == <<led, pc, i, data, register, outputs, room, fresh>>

OFF == {}
ON  == Bits

mask(id) == {id * NUMBER_OF_LED + l : l \in Lamps}

\* mask[id] & (MODE << (id * NUMBER_OF_LED)), truncated to a byte by the mask.
InRoom(id, byte) == mask(id) \cap {b + id * NUMBER_OF_LED : b \in byte}

Word(modes) == UNION {modes[id] : id \in Rooms}

-----------------------------------------------------------------------------
Init ==
  /\ led = [id \in Rooms |-> OFF]
  /\ pc = "idle" /\ i = 0 /\ data = {}
  /\ register \in PowerUp
  /\ outputs \in PowerUp
  /\ room = NUMBER_OF_ID
  /\ fresh = FALSE

\* Mutant: the byte of the other rooms is not OR-ed in.
SetLedAlone(id, modes) ==
  /\ pc = "idle"
  /\ led' = modes
  /\ data' = IF id \in Rooms THEN modes[id] ELSE OFF
  /\ i' = NUMBER_OF_BIT - 1
  /\ pc' = "send"
  /\ room' = id
  /\ UNCHANGED <<hardware, fresh>>

\* set_mode: what get_data_controll stores and sends.
SetLed(id, modes) ==
  /\ pc = "idle"
  /\ led' = modes
  /\ data' = Word(modes)
  /\ i' = NUMBER_OF_BIT - 1
  /\ pc' = "send"
  /\ room' = id
  /\ UNCHANGED <<hardware, fresh>>

\* ON changes a dark room only, any other byte replaces the pattern.
NewMode(id, byte) ==
  IF byte = ON /\ led[id] # OFF THEN led[id] ELSE InRoom(id, byte)

\* Mutant: the pattern of the room is not shifted to its lamps.
CommandUnshifted(id, byte) ==
  SetLed(id, [led EXCEPT ![id] = IF byte = ON /\ led[id] # OFF THEN led[id] ELSE byte])

Command(id, byte) == SetLed(id, [led EXCEPT ![id] = NewMode(id, byte)])

\* "<room> state on", "<room> state off" and "<room> mode <n>".
StateOn   == \E id \in Rooms : Command(id, ON)
StateOff  == \E id \in Rooms : Command(id, OFF)
ModeKnown == \E id \in Rooms, byte \in Modes : Command(id, byte)

\* The number is not checked, and the copy of the payload is not terminated,
\* so that a digit may follow the one that was sent: mode[] is read beyond its
\* end and any byte of memory becomes the pattern.
ModeForeign == \E id \in Rooms, byte \in Foreign : Command(id, byte)

\* An unknown room is reported, and the command carried out with
\* id = NUMBER_OF_ID: the write beyond led[] touches no room and the same
\* lamps are sent again.
UnknownRoom == SetLed(NUMBER_OF_ID, led)

\* Any other payload (too few words, an unknown command, a state that is
\* neither "on" nor "off", also because of the byte after its end) returns
\* before set_mode and changes nothing modelled here.
Receive == StateOn \/ StateOff \/ ModeKnown \/ ModeForeign \/ UnknownRoom

-----------------------------------------------------------------------------
(* ic74hc595_set8bit *)

\* Mutants: the least significant bit first; one bit too few.
ShiftBitReversed ==
  /\ pc = "send"
  /\ register' = {b + 1 : b \in register \ {NUMBER_OF_BIT - 1}}
                   \cup (IF NUMBER_OF_BIT - 1 - i \in data THEN {0} ELSE {})
  /\ IF i = 0 THEN pc' = "latch" /\ i' = i ELSE pc' = pc /\ i' = i - 1
  /\ UNCHANGED <<led, data, outputs, room, fresh>>

ShiftBitShort ==
  /\ pc = "send"
  /\ register' = {b + 1 : b \in register \ {NUMBER_OF_BIT - 1}}
                   \cup (IF i \in data THEN {0} ELSE {})
  /\ IF i = 1 THEN pc' = "latch" /\ i' = i ELSE pc' = pc /\ i' = i - 1
  /\ UNCHANGED <<led, data, outputs, room, fresh>>

\* The data pin, then a rising edge of the clock: every bit moves up by one.
ShiftBit ==
  /\ pc = "send"
  /\ register' = {b + 1 : b \in register \ {NUMBER_OF_BIT - 1}}
                   \cup (IF i \in data THEN {0} ELSE {})
  /\ IF i = 0 THEN pc' = "latch" /\ i' = i ELSE pc' = pc /\ i' = i - 1
  /\ UNCHANGED <<led, data, outputs, room, fresh>>

\* Mutant: the latch pin is never raised.
LatchForgotten ==
  /\ pc = "latch"
  /\ pc' = "idle"
  /\ fresh' = TRUE
  /\ UNCHANGED <<led, i, data, room, hardware>>

\* A rising edge of the latch pin copies the register to the outputs.
ic74hc595_latch ==
  /\ pc = "latch"
  /\ outputs' = register
  /\ pc' = "idle"
  /\ fresh' = TRUE
  /\ UNCHANGED <<led, i, data, room, register>>

-----------------------------------------------------------------------------
\* The chip restarts: led[] is zero again; ic74hc595_init sends nothing, so
\* register and outputs stay.
Restart ==
  /\ led' = [id \in Rooms |-> OFF]
  /\ pc' = "idle" /\ i' = 0 /\ data' = {}
  /\ room' = NUMBER_OF_ID
  /\ fresh' = FALSE
  /\ UNCHANGED hardware

\* A button is pressed, at any moment: gpio_isr_handler reads through its
\* argument, which is the GPIO number and no address, and the load faults.
PressState(id) == id \in Rooms /\ Restart
PressMode(id)  == id \in Rooms /\ Restart

Send    == ShiftBit \/ ic74hc595_latch
Press   == \E id \in Rooms : PressState(id) \/ PressMode(id)

Next == Receive \/ Send \/ Press

Spec == Init /\ [][Next]_vars

-----------------------------------------------------------------------------
\* The variables keep their types; led[id] never leaves the lamps of its room.
TypeOK ==
  /\ led \in [Rooms -> SUBSET Bits] /\ \A id \in Rooms : led[id] \subseteq mask(id)
  /\ pc \in {"idle", "send", "latch"}
  /\ i \in Bits
  /\ data \subseteq Bits /\ register \subseteq Bits /\ outputs \subseteq Bits
  /\ room \in 0 .. NUMBER_OF_ID
  /\ fresh \in BOOLEAN

\* The register is sent bit by bit and can be interrupted by a reset at every
\* bit; whenever the lamps change, they still change to the whole word of all
\* rooms.
NoTornOutput == [][outputs' # outputs => outputs' = Word(led)]_vars

\* Between two commands the lamps are what led[] says, until the next reset.
IdleShowsLeds == (pc = "idle" /\ fresh) => outputs = Word(led)

\* A command changes the lamps of its own room only, as long as the chip has
\* not been reset since the lamps were last set; one for an unknown room
\* changes no lamp.
RoomsAreIsolated ==
  [][fresh => \A id \in Rooms : id # room =>
       outputs' \cap mask(id) = outputs \cap mask(id)]_vars

\* The panel of the abstract specification, read off the bits.
LampsOf(id, byte) == {b - id * NUMBER_OF_LED : b \in byte \cap mask(id)}

Panel == INSTANCE LedPanel WITH
  pattern <- [id \in Rooms |-> LampsOf(id, led[id])],
  display <- [id \in Rooms |-> LampsOf(id, outputs)],
  pending <- pc # "idle"

\* The driver implements the panel: bit order, shift count, masks and latch.
ImplementsPanel == Panel!Spec
=============================================================================
