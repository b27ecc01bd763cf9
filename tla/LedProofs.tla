----------------------------- MODULE LedProofs ------------------------------
(***************************************************************************)
(* Proofs about Led for every number of rooms, lamps and register bits.    *)
(* The inductive invariant follows a byte through the register: what has   *)
(* been shifted in is the upper part of the byte, in place once the last   *)
(* bit is in, and the byte is what led[] says while it is on its way.      *)
(***************************************************************************)
EXTENDS Led, TLAPS

USE DEF Bits, Rooms, Lamps

\* The bits of a room lie within the register: id * NUMBER_OF_LED + l never
\* reaches NUMBER_OF_BIT.
LEMMA MaskInBits ==
  ASSUME NEW id \in Rooms
  PROVE  mask(id) \subseteq Bits
<1>1. SUFFICES ASSUME NEW l \in Lamps PROVE id * NUMBER_OF_LED + l \in Bits
  BY DEF mask
<1>2. (id + 1) * NUMBER_OF_LED <= NUMBER_OF_ID * NUMBER_OF_LED
  BY LedAssumption, SMT
<1>3. (id + 1) * NUMBER_OF_LED = id * NUMBER_OF_LED + NUMBER_OF_LED
  BY LedAssumption, SMT
<1>4. id * NUMBER_OF_LED \in Nat
  BY LedAssumption, SMT
<1>5. NUMBER_OF_ID * NUMBER_OF_LED \in Nat
  BY LedAssumption, SMT
<1> QED BY <1>1, <1>2, <1>3, <1>4, <1>5, LedAssumption

\* The masks of two rooms share no bit.
LEMMA MasksDisjoint ==
  ASSUME NEW id \in Rooms, NEW other \in Rooms, id # other
  PROVE  mask(id) \cap mask(other) = {}
<1>1. ASSUME NEW a \in Rooms, NEW b \in Rooms, a < b, NEW k \in Lamps, NEW l \in Lamps
      PROVE  a * NUMBER_OF_LED + k # b * NUMBER_OF_LED + l
  <2>1. (a + 1) * NUMBER_OF_LED <= b * NUMBER_OF_LED
    BY <1>1, LedAssumption, SMT
  <2>2. (a + 1) * NUMBER_OF_LED = a * NUMBER_OF_LED + NUMBER_OF_LED
    BY LedAssumption, SMT
  <2>3. a * NUMBER_OF_LED \in Nat /\ b * NUMBER_OF_LED \in Nat
    BY LedAssumption, SMT
  <2> QED BY <2>1, <2>2, <2>3, LedAssumption
<1>2. id < other \/ other < id
  BY LedAssumption
<1> QED BY <1>1, <1>2 DEF mask

-----------------------------------------------------------------------------
\* While a byte is sent, the upper bits are in the register, in order.
SentSoFar ==
  pc = "send" => \A b \in Bits : b + i + 1 < NUMBER_OF_BIT =>
                    (b \in register <=> b + i + 1 \in data)

AllSent == pc = "latch" => register = data

SendsWord == pc # "idle" => data = Word(led)

\* Rooms other than the one of the command under way show their pattern.
OthersShown ==
  fresh => \A id \in Rooms : id # room => outputs \cap mask(id) = led[id]

IInv == TypeOK /\ SentSoFar /\ AllSent /\ SendsWord /\ IdleShowsLeds /\ OthersShown

\* The word of all rooms, restricted to a room, is the pattern of the room.
LEMMA WordOfRoom ==
  ASSUME TypeOK, NEW id \in Rooms
  PROVE  Word(led) \cap mask(id) = led[id]
<1>1. \A r \in Rooms : led[r] \subseteq mask(r)
  BY DEF TypeOK
<1>2. \A r \in Rooms : r # id => led[r] \cap mask(id) = {}
  BY <1>1, MasksDisjoint
<1> QED BY <1>1, <1>2 DEF Word

LEMMA WordInBits ==
  ASSUME NEW modes, \A r \in Rooms : modes[r] \subseteq mask(r)
  PROVE  Word(modes) \subseteq Bits
<1> QED BY MaskInBits DEF Word

LEMMA InitInv == Init => IInv
<1> SUFFICES ASSUME Init PROVE IInv
  OBVIOUS
<1>1. TypeOK
  <2>1. register \subseteq Bits /\ outputs \subseteq Bits
    BY LedAssumption DEF Init
  <2>2. led \in [Rooms -> SUBSET Bits] /\ \A id \in Rooms : led[id] \subseteq mask(id)
    BY DEF Init, OFF
  <2>3. i \in Bits /\ room \in 0 .. NUMBER_OF_ID
    BY LedAssumption DEF Init
  <2>4. pc \in {"idle", "send", "latch"} /\ data \subseteq Bits /\ fresh \in BOOLEAN
    BY DEF Init
  <2> QED BY <2>1, <2>2, <2>3, <2>4 DEF TypeOK
<1> QED BY <1>1 DEF Init, IInv, SentSoFar, AllSent, SendsWord, IdleShowsLeds, OthersShown

-----------------------------------------------------------------------------
\* A command, whatever room it names: the patterns of other rooms stay.
LEMMA SetLedInv ==
  ASSUME IInv, NEW id \in 0 .. NUMBER_OF_ID, NEW modes, SetLed(id, modes),
         modes \in [Rooms -> SUBSET Bits],
         \A r \in Rooms : modes[r] \subseteq mask(r),
         \A r \in Rooms : r # id => modes[r] = led[r]
  PROVE  IInv'
<1> USE DEF IInv
<1>1. TypeOK'
  BY WordInBits, LedAssumption DEF TypeOK, SetLed, hardware
<1>2. SentSoFar'
  BY LedAssumption DEF SentSoFar, SetLed, hardware, TypeOK
<1>3. AllSent' /\ IdleShowsLeds'
  BY DEF AllSent, IdleShowsLeds, SetLed
<1>4. SendsWord'
  BY DEF SendsWord, SetLed, Word
<1>5. OthersShown'
  <2> SUFFICES ASSUME fresh, NEW r \in Rooms, r # id
               PROVE  outputs \cap mask(r) = modes[r]
    BY DEF OthersShown, SetLed, hardware
  <2>1. outputs = Word(led)
    BY DEF SetLed, IdleShowsLeds
  <2>2. outputs \cap mask(r) = led[r]
    BY <2>1, WordOfRoom
  <2> QED BY <2>2
<1> QED BY <1>1, <1>2, <1>3, <1>4, <1>5

LEMMA CommandInv ==
  ASSUME IInv, NEW id \in Rooms, NEW byte, Command(id, byte)
  PROVE  IInv'
<1> DEFINE modes == [led EXCEPT ![id] = NewMode(id, byte)]
<1>1. SetLed(id, modes)
  BY DEF Command
<1>2. InRoom(id, byte) \subseteq mask(id)
  BY DEF InRoom
<1>3. NewMode(id, byte) \subseteq mask(id)
  BY <1>2 DEF NewMode, IInv, TypeOK
<1>4. mask(id) \subseteq Bits
  BY MaskInBits
<1>5. modes \in [Rooms -> SUBSET Bits]
  BY <1>3, <1>4 DEF IInv, TypeOK
<1>6. \A r \in Rooms : modes[r] \subseteq mask(r)
  BY <1>3 DEF IInv, TypeOK
<1>7. \A r \in Rooms : r # id => modes[r] = led[r]
  BY DEF IInv, TypeOK
<1>8. id \in 0 .. NUMBER_OF_ID
  BY LedAssumption
<1> HIDE DEF modes
<1> QED BY <1>1, <1>5, <1>6, <1>7, <1>8, SetLedInv

LEMMA UnknownRoomInv == IInv /\ UnknownRoom => IInv'
<1> SUFFICES ASSUME IInv, UnknownRoom PROVE IInv'
  OBVIOUS
<1>1. NUMBER_OF_ID \in 0 .. NUMBER_OF_ID
  BY LedAssumption
<1> QED BY <1>1, SetLedInv DEF UnknownRoom, IInv, TypeOK

-----------------------------------------------------------------------------
\* One more bit: every bit of the register moves up, the next one follows.
LEMMA ShiftBitInv == IInv /\ ShiftBit => IInv'
<1> SUFFICES ASSUME IInv, ShiftBit PROVE IInv'
  OBVIOUS
<1> USE DEF IInv
<1>1. /\ pc = "send" /\ i \in 0 .. NUMBER_OF_BIT - 1
      /\ register \subseteq Bits /\ data \subseteq Bits
      /\ NUMBER_OF_BIT \in Nat \ {0}
  BY LedAssumption DEF ShiftBit, TypeOK
<1>2. \A b \in Bits : b \in register' <=> IF b = 0 THEN i \in data ELSE b - 1 \in register
  BY <1>1 DEF ShiftBit
<1>3. \A b \in Bits : b + i < NUMBER_OF_BIT => (b \in register' <=> b + i \in data)
  <2> SUFFICES ASSUME NEW b \in Bits, b + i < NUMBER_OF_BIT
               PROVE  b \in register' <=> b + i \in data
    OBVIOUS
  <2>1. CASE b = 0
    BY <2>1, <1>1, <1>2
  <2>2. CASE b # 0
    <3>1. b - 1 \in Bits /\ (b - 1) + i + 1 < NUMBER_OF_BIT /\ (b - 1) + i + 1 = b + i
      BY <2>2, <1>1
    <3>2. b - 1 \in register <=> b + i \in data
      BY <3>1, <1>1 DEF SentSoFar
    <3> QED BY <3>2, <2>2, <1>2
  <2> QED BY <2>1, <2>2
<1>4. register' \subseteq Bits
  BY <1>1 DEF ShiftBit
<1>5. TypeOK'
  BY <1>1, <1>4 DEF TypeOK, ShiftBit
<1>6. SentSoFar' /\ AllSent'
  <2>1. CASE i = 0
    <3>1. pc' = "latch" /\ data' = data
      BY <2>1 DEF ShiftBit
    <3>2. \A b \in Bits : b \in register' <=> b \in data
      BY <2>1, <1>1, <1>3
    <3>3. register' = data
      BY <3>2, <1>1, <1>4
    <3> QED BY <3>1, <3>3 DEF SentSoFar, AllSent
  <2>2. CASE i # 0
    <3>1. pc' = "send" /\ i' = i - 1 /\ data' = data
      BY <2>2, <1>1 DEF ShiftBit
    <3>2. \A b \in Bits : b + i' + 1 = b + i
      BY <3>1, <1>1
    <3> QED BY <3>1, <3>2, <1>3 DEF SentSoFar, AllSent
  <2> QED BY <2>1, <2>2
<1>7. SendsWord' /\ IdleShowsLeds' /\ OthersShown'
  BY <1>1 DEF SendsWord, IdleShowsLeds, OthersShown, ShiftBit, Word
<1> QED BY <1>5, <1>6, <1>7

\* The latch shows the word of all rooms.
LEMMA LatchShowsWord ==
  ASSUME IInv, ic74hc595_latch
  PROVE  outputs' = Word(led)
<1> QED BY DEF IInv, AllSent, SendsWord, ic74hc595_latch

LEMMA LatchInv == IInv /\ ic74hc595_latch => IInv'
<1> SUFFICES ASSUME IInv, ic74hc595_latch PROVE IInv'
  OBVIOUS
<1>1. TypeOK'
  BY DEF IInv, TypeOK, ic74hc595_latch
<1>2. outputs' = Word(led) /\ led' = led
  BY LatchShowsWord DEF ic74hc595_latch
<1>3. SentSoFar' /\ AllSent' /\ SendsWord'
  BY DEF SentSoFar, AllSent, SendsWord, ic74hc595_latch
<1>4. IdleShowsLeds'
  BY <1>2 DEF IdleShowsLeds, Word
<1>5. OthersShown'
  <2>1. \A r \in Rooms : Word(led) \cap mask(r) = led[r]
    BY WordOfRoom DEF IInv
  <2> QED BY <1>2, <2>1 DEF OthersShown, mask
<1> QED BY <1>1, <1>3, <1>4, <1>5 DEF IInv

LEMMA RestartInv == IInv /\ Restart => IInv'
<1> SUFFICES ASSUME IInv, Restart PROVE IInv'
  OBVIOUS
<1>1. led' \in [Rooms -> SUBSET Bits] /\ \A r \in Rooms : led'[r] \subseteq mask(r)
  BY DEF Restart, OFF
<1>2. i' \in Bits /\ room' \in 0 .. NUMBER_OF_ID
  BY LedAssumption DEF Restart
<1>3. TypeOK'
  BY <1>1, <1>2 DEF IInv, TypeOK, Restart, hardware, mask
<1>4. SentSoFar' /\ AllSent' /\ SendsWord' /\ IdleShowsLeds' /\ OthersShown'
  BY DEF SentSoFar, AllSent, SendsWord, IdleShowsLeds, OthersShown, Restart
<1> QED BY <1>3, <1>4 DEF IInv

\* A step is a command for a room, one for no room, a bit, the latch, a reset
\* or a stutter.
LEMMA StepCases ==
  ASSUME [Next]_vars
  PROVE  \/ \E id \in Rooms : \E byte : Command(id, byte)
         \/ UnknownRoom \/ ShiftBit \/ ic74hc595_latch \/ Restart
         \/ UNCHANGED vars
<1>1. CASE Receive
  BY <1>1 DEF Receive, StateOn, StateOff, ModeKnown, ModeForeign
<1>2. CASE Send
  BY <1>2 DEF Send
<1>3. CASE Press
  BY <1>3 DEF Press, PressState, PressMode
<1> QED BY <1>1, <1>2, <1>3 DEF Next

LEMMA NextInv == IInv /\ [Next]_vars => IInv'
<1> SUFFICES ASSUME IInv, [Next]_vars PROVE IInv'
  OBVIOUS
<1>1. ASSUME NEW id \in Rooms, NEW byte, Command(id, byte) PROVE IInv'
  BY <1>1, CommandInv
<1>2. CASE UnknownRoom
  BY <1>2, UnknownRoomInv
<1>3. CASE ShiftBit
  BY <1>3, ShiftBitInv
<1>4. CASE ic74hc595_latch
  BY <1>4, LatchInv
<1>5. CASE Restart
  BY <1>5, RestartInv
<1>6. CASE UNCHANGED vars
  BY <1>6 DEF IInv, TypeOK, SentSoFar, AllSent, SendsWord, IdleShowsLeds, OthersShown,
              vars, hardware, Word, mask
<1> QED BY <1>1, <1>2, <1>3, <1>4, <1>5, <1>6, StepCases

LEMMA SpecInv == Spec => []IInv
<1> QED BY InitInv, NextInv, PTL DEF Spec

-----------------------------------------------------------------------------
\* The variables keep their types, and no room's pattern leaves its lamps:
\* also not after a mode read beyond mode[] or a command for no room.
THEOREM LedTypeCorrect == Spec => []TypeOK
<1>1. IInv => TypeOK
  BY DEF IInv
<1> QED BY <1>1, SpecInv, PTL

\* Between two commands the lamps are what led[] says, whatever the register
\* held before, until the next reset.
THEOREM LedShown == Spec => []IdleShowsLeds
<1>1. IInv => IdleShowsLeds
  BY DEF IInv
<1> QED BY <1>1, SpecInv, PTL

\* Lamps only ever change to the whole word of all rooms, although the word
\* is sent bit by bit and a reset may come between any two bits.
THEOREM LedNotTorn == Spec => NoTornOutput
<1>1. IInv /\ [Next]_vars => [outputs' # outputs => outputs' = Word(led)]_vars
  <2> SUFFICES ASSUME IInv, [Next]_vars, outputs' # outputs
               PROVE  outputs' = Word(led)
    OBVIOUS
  <2>1. CASE ic74hc595_latch
    BY <2>1, LatchShowsWord
  <2> QED BY <2>1, StepCases
          DEF Command, UnknownRoom, SetLed, ShiftBit, Restart, vars, hardware
<1> QED BY <1>1, SpecInv, PTL DEF Spec, NoTornOutput

\* A command changes the lamps of its own room only: the one byte that drives
\* all rooms repeats the others as they are shown.
THEOREM LedRoomsIsolated == Spec => RoomsAreIsolated
<1>1. IInv /\ [Next]_vars =>
        [fresh => \A id \in Rooms : id # room =>
           outputs' \cap mask(id) = outputs \cap mask(id)]_vars
  <2> SUFFICES ASSUME IInv, [Next]_vars, fresh, NEW id \in Rooms, id # room
               PROVE  outputs' \cap mask(id) = outputs \cap mask(id)
    OBVIOUS
  <2>1. CASE ic74hc595_latch
    <3>1. outputs' = Word(led)
      BY <2>1, LatchShowsWord
    <3>2. Word(led) \cap mask(id) = led[id]
      BY WordOfRoom DEF IInv
    <3>3. outputs \cap mask(id) = led[id]
      BY DEF IInv, OthersShown
    <3> QED BY <3>1, <3>2, <3>3
  <2> QED BY <2>1, StepCases
          DEF Command, UnknownRoom, SetLed, ShiftBit, Restart, vars, hardware
<1> QED BY <1>1, SpecInv, PTL DEF Spec, RoomsAreIsolated

-----------------------------------------------------------------------------
\* The bits of a byte that belong to a room, as lamps of the room.
LEMMA LampsOfType ==
  ASSUME NEW id \in Rooms, NEW byte
  PROVE  LampsOf(id, byte) \subseteq Lamps
<1>1. SUFFICES ASSUME NEW b \in mask(id) PROVE b - id * NUMBER_OF_LED \in Lamps
  BY DEF LampsOf
<1>2. PICK l \in Lamps : b = id * NUMBER_OF_LED + l
  BY DEF mask
<1>3. id * NUMBER_OF_LED \in Nat
  BY LedAssumption, SMT
<1> QED BY <1>2, <1>3, LedAssumption

\* The word and the pattern of a room light the same lamps of the room.
LEMMA LampsOfWord ==
  ASSUME TypeOK, NEW id \in Rooms
  PROVE  LampsOf(id, Word(led)) = LampsOf(id, led[id])
<1>1. Word(led) \cap mask(id) = led[id] \cap mask(id)
  BY WordOfRoom
<1> QED BY <1>1 DEF LampsOf

LEMMA PanelInit == Init => Panel!Init
<1> SUFFICES ASSUME Init PROVE Panel!Init
  OBVIOUS
<1>1. \A id \in Rooms : LampsOf(id, led[id]) = {}
  BY DEF Init, OFF, LampsOf
<1>2. [id \in Rooms |-> LampsOf(id, outputs)] \in [Rooms -> SUBSET Lamps]
  BY LampsOfType
<1> QED BY <1>1, <1>2 DEF Init, Panel!Init, Panel!Dark

\* Every step of the driver is a step of the panel or changes nothing of it:
\* a bit that is shifted is not seen, the latch shows all patterns.
LEMMA PanelNext == IInv /\ [Next]_vars => [Panel!Next]_(Panel!vars)
<1> SUFFICES ASSUME IInv, [Next]_vars PROVE [Panel!Next]_(Panel!vars)
  OBVIOUS
<1>1. ASSUME NEW id \in Rooms, NEW byte, Command(id, byte)
      PROVE  Panel!Command(id)
  <2>1. /\ pc = "idle" /\ pc' = "send" /\ outputs' = outputs
        /\ led' = [led EXCEPT ![id] = NewMode(id, byte)]
    BY <1>1 DEF Command, SetLed, hardware
  <2>2. LampsOf(id, led'[id]) \in SUBSET Lamps
    BY LampsOfType
  <2>3. \A r \in Rooms : r # id => led'[r] = led[r]
    BY <2>1 DEF IInv, TypeOK
  <2>4. [r \in Rooms |-> LampsOf(r, led'[r])]
          = [[r \in Rooms |-> LampsOf(r, led[r])] EXCEPT ![id] = LampsOf(id, led'[id])]
    BY <2>3
  <2>5. [r \in Rooms |-> LampsOf(r, outputs')] = [r \in Rooms |-> LampsOf(r, outputs)]
    BY <2>1
  <2> QED BY <2>1, <2>2, <2>4, <2>5 DEF Panel!Command, LampsOf, mask
<1>2. CASE UnknownRoom
  <2>1. pc = "idle" /\ pc' = "send" /\ led' = led /\ outputs' = outputs
    BY <1>2 DEF UnknownRoom, SetLed, hardware
  <2> QED BY <2>1 DEF Panel!Next, Panel!Refresh, LampsOf, mask
<1>3. CASE ShiftBit
  <2>1. pc # "idle" /\ pc' # "idle" /\ led' = led /\ outputs' = outputs
    BY <1>3 DEF ShiftBit
  <2> QED BY <2>1 DEF Panel!vars, LampsOf, mask
<1>4. CASE ic74hc595_latch
  <2>1. pc # "idle" /\ pc' = "idle" /\ led' = led
    BY <1>4 DEF ic74hc595_latch
  <2>2. \A id \in Rooms : LampsOf(id, outputs') = LampsOf(id, led[id])
    BY <1>4, LatchShowsWord, LampsOfWord DEF IInv
  <2> QED BY <2>1, <2>2 DEF Panel!Next, Panel!Show, LampsOf, mask
<1>5. CASE Restart
  <2>1. pc' = "idle" /\ led' = [id \in Rooms |-> {}] /\ outputs' = outputs
    BY <1>5 DEF Restart, hardware, OFF
  <2>2. \A id \in Rooms : LampsOf(id, led'[id]) = {}
    BY <2>1 DEF LampsOf
  <2> QED BY <2>1, <2>2 DEF Panel!Next, Panel!Reset, Panel!Dark, LampsOf, mask
<1>6. CASE UNCHANGED vars
  BY <1>6 DEF vars, hardware, Panel!vars, LampsOf, mask
<1>7. (\E id \in Rooms : Panel!Command(id)) => Panel!Next
  BY DEF Panel!Next
<1> QED BY <1>1, <1>2, <1>3, <1>4, <1>5, <1>6, <1>7, StepCases

\* The driver implements the panel for every layout of rooms and lamps that
\* fits the register.
THEOREM LedImplementsPanel == Spec => ImplementsPanel
<1> QED BY PanelInit, PanelNext, SpecInv, PTL DEF Spec, ImplementsPanel, Panel!Spec
=============================================================================
