------------------------------- MODULE Dht11 --------------------------------
(***************************************************************************)
(* Reading a DHT11 sensor over one wire (NodeOne/main/dht11.c).  The       *)
(* sensor sends five bytes as forty slots, each a low and a high pulse     *)
(* whose length is the bit; the driver counts microseconds, with a limit.  *)
(*                                                                         *)
(* A line gives the microseconds its slots stay low and high, counted from *)
(* the end of the sensor's response.                                       *)
(***************************************************************************)
EXTENDS Integers, FiniteSetsExt

DHT11_OK            == 0
DHT11_TIMEOUT_ERROR == -1
DHT11_CRC_ERROR     == -2

Slots   == 0 .. 39
Forever == 1000     \* longer than any limit

-----------------------------------------------------------------------------
(* The driver *)

\* Counts up to limit + 1, then gives up.
waitOrTimeout(limit, us) == IF us > limit + 1 THEN DHT11_TIMEOUT_ERROR ELSE us

\* A pulse that times out is not longer than 28: it reads as 0.
ReadBit(line, i) == IF waitOrTimeout(70, line.high[i]) > 28 THEN 1 ELSE 0

Data(line) ==
  [b \in 0 .. 4 |-> MapThenSumSet(LAMBDA j : ReadBit(line, 8 * b + j) * 2^(7 - j), 0 .. 7)]

\* Mutant: the checksum is not looked at.
checkCRCNot(data) == TRUE

\* The sum is computed as an int, not as a byte.
checkCRC(data) == data[4] = data[0] + data[1] + data[2] + data[3]

Error(status) == [status |-> status, temperature |-> -1, humidity |-> -1]

\* _checkResponse, then forty bits, each after a low pulse; then the checksum.
Decode(line) ==
  IF \/ ~line.responds
     \/ \E i \in Slots : waitOrTimeout(50, line.low[i]) = DHT11_TIMEOUT_ERROR
  THEN Error(DHT11_TIMEOUT_ERROR)
  ELSE LET data == Data(line) IN
       IF checkCRC(data)
       THEN [status |-> DHT11_OK, temperature |-> data[2], humidity |-> data[0]]
       ELSE Error(DHT11_CRC_ERROR)

-----------------------------------------------------------------------------
(* The sensor and what may happen to one of its frames *)

\* The bytes of a measurement: humidity, temperature, each with its decimals.
Bytes(m) == [b \in 0 .. 4 |-> <<m.hum, 0, m.temp, m.dec, m.hum + m.temp + m.dec>>[b + 1]]

SentBit(m, i) == (Bytes(m)[i \div 8] \div 2^(7 - (i % 8))) % 2

Pulse(bit) == IF bit = 1 THEN 70 ELSE 26

Sent(m) == [responds |-> TRUE,
            low  |-> [i \in Slots |-> 50],
            high |-> [i \in Slots |-> Pulse(SentBit(m, i))]]

\* One fault at slot k: the line stays high or low from there on, the pulse
\* is that of the other bit, or the task is interrupted for the length of a
\* slot, misses it and finds the idle line, pulled up, after the last one.
\* The loops count microseconds without disabling interrupts.
StaysHigh(m, k) ==
  [Sent(m) EXCEPT !.low  = [i \in Slots |-> IF i < k THEN @[i] ELSE 0],
                  !.high = [i \in Slots |-> IF i < k THEN @[i] ELSE Forever]]

StaysLow(m, k) == [Sent(m) EXCEPT !.low[k] = Forever]

Flipped(m, k) == [Sent(m) EXCEPT !.high[k] = Pulse(1 - SentBit(m, k))]

Missed(m, k) ==
  [Sent(m) EXCEPT !.high = [i \in Slots |-> IF i < k THEN @[i] ELSE IF i < 39 THEN @[i + 1] ELSE Forever]]

Silent(m) == [Sent(m) EXCEPT !.responds = FALSE]

\* What a conversion of m may return when the line works, when a frame is
\* disturbed, and when a slot is missed.
Clean(m)     == {Decode(Sent(m))}
Disturbed(m) == {Decode(Silent(m))}
                \cup UNION {{Decode(StaysHigh(m, k)), Decode(StaysLow(m, k)), Decode(Flipped(m, k))} : k \in Slots}
Delayed(m)   == {Decode(Missed(m, k)) : k \in Slots}
=============================================================================
