-------------------------- MODULE FanControlProofs -------------------------
(***************************************************************************)
(* Proofs about FanControl, for any speeds a client sends, any number of   *)
(* commands and any losses.  What has not been lost keeps its order, so    *)
(* that the last command, or else the answer to it, is always behind all   *)
(* the others: in the queue to the node, in that from the node, or as the  *)
(* speed of the motor; and in the queue to the server, or as its record    *)
(* with the highest stamp.                                                 *)
(***************************************************************************)
EXTENDS FanControl, SequenceTheorems, TLAPS

-----------------------------------------------------------------------------
(* The invariants *)

IsCommand(m) == m.form # "answer"
NoCommand(s) == \A n \in DOMAIN s : ~IsCommand(s[n])

\* m is the last command in the queue.
LastIs(s, m) ==
  \E k \in DOMAIN s : /\ s[k] = m /\ IsCommand(m)
                      /\ \A n \in DOMAIN s : k < n => ~IsCommand(s[n])

OfflineIsEmpty == ~online => toNode = <<>> /\ fromNode = <<>>

\* The speed the motor will have when no command is left.
SpeedInTheEnd ==
  IF fromNode # <<>> THEN fromNode[Len(fromNode)].speed
  ELSE IF toNode # <<>> THEN toNode[Len(toNode)].speed
  ELSE speed

NodeFollows ==
  ~lost /\ commands # <<>> =>
    \/ LastIs(toNode, LastCommand)
    \/ NoCommand(toNode) /\ SpeedInTheEnd = LastCommand.speed

Records == saving \cup saved

ServerFollows ==
  commands # <<>> =>
    \/ LastIs(toServer, LastCommand)
    \/ /\ NoCommand(toServer)
       /\ ~lost /\ Valid(LastCommand) =>
            \E r \in Records : r.n = stamped /\ r.speed = LastCommand.speed

Stamped ==
  \A r \in Records : /\ r.n <= stamped
                     /\ \A q \in Records : r.n = q.n => r = q

\* The commands that wait for the server were sent one by one, after all that
\* it has stamped: f gives their places in commands.
Places(f) ==
  /\ f \in [DOMAIN toServer -> Nat]
  /\ \A i, j \in DOMAIN toServer :
       IsCommand(toServer[i]) /\ IsCommand(toServer[j]) /\ i < j => f[i] < f[j]
  /\ \A i \in DOMAIN toServer :
       IsCommand(toServer[i]) => stamped < f[i] /\ f[i] <= Len(commands)

Counted == stamped <= Len(commands) /\ \E f : Places(f)

FanInv ==
  /\ TypeOK /\ NoCommand(fromNode) /\ OfflineIsEmpty
  /\ NodeFollows /\ ServerFollows /\ Stamped /\ Counted

-----------------------------------------------------------------------------
(* Queues *)

LEMMA Appending ==
  ASSUME NEW s \in Seq(Message), NEW e \in Message
  PROVE  /\ Append(s, e) \in Seq(Message) /\ Len(s) \in Nat /\ Len(Append(s, e)) = Len(s) + 1
         /\ DOMAIN s = 1 .. Len(s) /\ DOMAIN Append(s, e) = DOMAIN s \cup {Len(s) + 1}
         /\ Append(s, e)[Len(s) + 1] = e /\ Append(s, e) # <<>>
         /\ \A n \in DOMAIN s : Append(s, e)[n] = s[n] /\ n < Len(s) + 1
<1>1. /\ Append(s, e) \in Seq(Message) /\ Len(Append(s, e)) = Len(s) + 1
      /\ \A n \in 1 .. Len(s) : Append(s, e)[n] = s[n]
      /\ Append(s, e)[Len(s) + 1] = e
  BY AppendProperties
<1>2. DOMAIN s = 1 .. Len(s) /\ Len(s) \in Nat
  BY LenProperties
<1>3. DOMAIN Append(s, e) = 1 .. Len(s) + 1
  BY <1>1, LenProperties
<1>4. Append(s, e) # <<>>
  BY <1>1, <1>2, EmptySeq
<1> QED BY <1>1, <1>2, <1>3, <1>4

LEMMA Shifting ==
  ASSUME NEW s \in Seq(Message), s # <<>>
  PROVE  /\ Tail(s) \in Seq(Message) /\ Len(s) \in Nat \ {0} /\ Len(Tail(s)) = Len(s) - 1
         /\ DOMAIN s = 1 .. Len(s) /\ DOMAIN Tail(s) = 1 .. Len(s) - 1
         /\ Head(s) = s[1] /\ Head(s) \in Message
         /\ \A n \in DOMAIN Tail(s) : Tail(s)[n] = s[n + 1] /\ n + 1 \in DOMAIN s
         /\ Tail(s) = <<>> <=> Len(s) = 1
<1>1. /\ Tail(s) \in Seq(Message) /\ Len(Tail(s)) = Len(s) - 1
      /\ Head(s) = s[1] /\ \A n \in 1 .. Len(Tail(s)) : Tail(s)[n] = s[n + 1]
  BY HeadTailProperties
<1>2. DOMAIN s = 1 .. Len(s) /\ Len(s) \in Nat \ {0}
  BY LenProperties, EmptySeq
<1>3. DOMAIN Tail(s) = 1 .. Len(s) - 1
  BY <1>1, LenProperties
<1>4. s[1] \in Message
  BY <1>2, ElementOfSeq
<1>5. Tail(s) = <<>> <=> Len(s) = 1
  <2>1. Tail(s) = <<>> <=> Len(Tail(s)) = 0
    BY <1>1, EmptySeq
  <2>2. Len(Tail(s)) = Len(s) - 1 /\ Len(s) \in Nat
    BY <1>1, <1>2
  <2> QED BY <2>1, <2>2
<1> QED BY <1>1, <1>2, <1>3, <1>4, <1>5

\* A command that arrives is the last one; anything else leaves the last one.
LEMMA LastAppended ==
  ASSUME NEW s \in Seq(Message), NEW e \in Message
  PROVE  /\ IsCommand(e) => LastIs(Append(s, e), e)
         /\ ~IsCommand(e) =>
              /\ NoCommand(s) => NoCommand(Append(s, e))
              /\ \A m : LastIs(s, m) => LastIs(Append(s, e), m)
<1>1. /\ Len(s) \in Nat
      /\ DOMAIN s = 1 .. Len(s) /\ DOMAIN Append(s, e) = DOMAIN s \cup {Len(s) + 1}
      /\ Append(s, e)[Len(s) + 1] = e
      /\ \A n \in DOMAIN s : Append(s, e)[n] = s[n] /\ n < Len(s) + 1
  BY Appending
<1>2. IsCommand(e) => LastIs(Append(s, e), e)
  BY <1>1 DEF LastIs
<1>3. ~IsCommand(e) /\ NoCommand(s) => NoCommand(Append(s, e))
  BY <1>1 DEF NoCommand
<1>4. ASSUME ~IsCommand(e), NEW m, LastIs(s, m) PROVE LastIs(Append(s, e), m)
  <2>1. PICK k \in DOMAIN s : /\ s[k] = m /\ IsCommand(m)
                              /\ \A n \in DOMAIN s : k < n => ~IsCommand(s[n])
    BY <1>4 DEF LastIs
  <2>2. k \in DOMAIN Append(s, e) /\ Append(s, e)[k] = m
    BY <1>1, <2>1
  <2>3. \A n \in DOMAIN Append(s, e) : k < n => ~IsCommand(Append(s, e)[n])
    BY <1>1, <1>4, <2>1
  <2> QED BY <2>1, <2>2, <2>3 DEF LastIs
<1> QED BY <1>2, <1>3, <1>4

\* The last command is handled, or it is still to come.
LEMMA LastShifted ==
  ASSUME NEW s \in Seq(Message), s # <<>>
  PROVE  /\ NoCommand(s) => NoCommand(Tail(s)) /\ ~IsCommand(Head(s))
         /\ \A m : LastIs(s, m) =>
              LastIs(Tail(s), m) \/ (Head(s) = m /\ IsCommand(m) /\ NoCommand(Tail(s)))
<1>1. /\ Len(s) \in Nat \ {0} /\ DOMAIN s = 1 .. Len(s) /\ DOMAIN Tail(s) = 1 .. Len(s) - 1
      /\ Head(s) = s[1]
      /\ \A n \in DOMAIN Tail(s) : Tail(s)[n] = s[n + 1] /\ n + 1 \in DOMAIN s
  BY Shifting
<1>2. NoCommand(s) => NoCommand(Tail(s)) /\ ~IsCommand(Head(s))
  BY <1>1 DEF NoCommand
<1>3. ASSUME NEW m, LastIs(s, m)
      PROVE  LastIs(Tail(s), m) \/ (Head(s) = m /\ IsCommand(m) /\ NoCommand(Tail(s)))
  <2>1. PICK k \in DOMAIN s : /\ s[k] = m /\ IsCommand(m)
                              /\ \A n \in DOMAIN s : k < n => ~IsCommand(s[n])
    BY <1>3 DEF LastIs
  <2>2. CASE k = 1
    <3>1. \A n \in DOMAIN Tail(s) : 1 < n + 1
      BY <1>1
    <3>2. NoCommand(Tail(s))
      BY <1>1, <2>1, <2>2, <3>1 DEF NoCommand
    <3> QED BY <1>1, <2>1, <2>2, <3>2
  <2>3. CASE k # 1
    <3>1. k - 1 \in DOMAIN Tail(s) /\ (k - 1) + 1 = k
      BY <1>1, <2>3
    <3>2. Tail(s)[k - 1] = m
      BY <1>1, <2>1, <3>1
    <3>3. \A n \in DOMAIN Tail(s) : k - 1 < n => k < n + 1
      BY <1>1, <3>1
    <3>4. \A n \in DOMAIN Tail(s) : k - 1 < n => ~IsCommand(Tail(s)[n])
      BY <1>1, <2>1, <3>3
    <3> QED BY <2>1, <3>1, <3>2, <3>4 DEF LastIs
  <2> QED BY <2>2, <2>3
<1> QED BY <1>2, <1>3

LEMMA Empty ==
  /\ NoCommand(<<>>)
  /\ \A m : ~LastIs(<<>>, m)
BY DEF NoCommand, LastIs

LEMMA FanInitInv == Init => FanInv
<1> SUFFICES ASSUME Init PROVE FanInv
  OBVIOUS
<1>1. /\ toNode = <<>> /\ toServer = <<>> /\ fromNode = <<>> /\ online = TRUE /\ speed = 0
      /\ saving = {} /\ saved = {} /\ stamped = 0 /\ commands = <<>> /\ breaks = 0 /\ lost = FALSE
  BY DEF Init
<1>2. TypeOK
  <2>1. commands \in Seq(Message) /\ toNode \in Seq(Message) /\ toServer \in Seq(Message)
        /\ fromNode \in Seq(Message)
    BY <1>1
  <2>2. Len(commands) = 0 /\ Len(commands) <= MaxCommands /\ 0 \in 0 .. MaxCommands /\ 0 \in 0 .. MaxBreaks
    BY <1>1, FanControlAssumption
  <2> QED BY <1>1, <2>1, <2>2 DEF TypeOK
<1>3. NoCommand(fromNode) /\ OfflineIsEmpty /\ NodeFollows /\ ServerFollows /\ Stamped
  BY <1>1, Empty DEF OfflineIsEmpty, NodeFollows, ServerFollows, Stamped, Records
<1>4. Counted
  <2>1. Places([n \in {} |-> 0])
    BY <1>1 DEF Places
  <2> QED BY <1>1, <2>1, EmptySeq DEF Counted
<1> QED BY <1>2, <1>3, <1>4 DEF FanInv

-----------------------------------------------------------------------------
(* What a step does not touch *)

LEMMA NodeSame ==
  ASSUME FanInv, UNCHANGED <<toNode, fromNode, speed, online, commands>>, lost => lost'
  PROVE  NoCommand(fromNode)' /\ OfflineIsEmpty' /\ NodeFollows'
<1>1. SpeedInTheEnd' = SpeedInTheEnd /\ LastCommand' = LastCommand
  BY DEF SpeedInTheEnd, LastCommand
<1>2. /\ NoCommand(fromNode)' <=> NoCommand(fromNode)
      /\ NoCommand(toNode)' <=> NoCommand(toNode)
      /\ LastIs(toNode, LastCommand)' <=> LastIs(toNode, LastCommand)
  BY <1>1 DEF NoCommand, LastIs
<1> QED BY <1>1, <1>2 DEF FanInv, OfflineIsEmpty, NodeFollows

LEMMA ServerSame ==
  ASSUME FanInv, UNCHANGED <<toServer, Records, stamped, commands>>, lost => lost'
  PROVE  ServerFollows' /\ Stamped' /\ Counted'
<1>1. LastCommand' = LastCommand
  BY DEF LastCommand
<1>2. /\ NoCommand(toServer)' <=> NoCommand(toServer)
      /\ LastIs(toServer, LastCommand)' <=> LastIs(toServer, LastCommand)
      /\ Valid(LastCommand)' <=> Valid(LastCommand)
  BY <1>1 DEF NoCommand, LastIs, Valid
<1>3. ServerFollows'
  BY <1>2, <1>1 DEF FanInv, ServerFollows
<1>4. Stamped'
  BY DEF FanInv, Stamped
<1>5. \A f : Places(f) => Places(f)'
  BY DEF Places
<1>6. Counted'
  BY <1>5 DEF FanInv, Counted
<1> QED BY <1>3, <1>4, <1>6

-----------------------------------------------------------------------------
(* The way to the server *)

LEMMA ServerArrival ==
  ASSUME FanInv, NEW m \in Message, toServer' = Append(toServer, m), UNCHANGED <<Records, stamped>>,
         \/ IsCommand(m) /\ commands' = Append(commands, m)
         \/ ~IsCommand(m) /\ commands' = commands /\ lost' = lost
  PROVE  ServerFollows' /\ Stamped' /\ Counted'
<1> USE DEF FanInv
<1>1. /\ toServer \in Seq(Message) /\ commands \in Seq(Message) /\ stamped \in Nat
      /\ DOMAIN toServer = 1 .. Len(toServer) /\ Len(toServer) \in Nat /\ Len(commands) \in Nat
  BY LenProperties, FanControlAssumption DEF TypeOK
<1>2. /\ Len(toServer) + 1 \notin DOMAIN toServer
      /\ DOMAIN toServer' = DOMAIN toServer \cup {Len(toServer) + 1}
      /\ toServer'[Len(toServer) + 1] = m
      /\ \A n \in DOMAIN toServer : toServer'[n] = toServer[n] /\ n < Len(toServer) + 1
  BY <1>1, Appending
<1>3. Stamped'
  BY DEF Stamped
<1>4. PICK f : Places(f)
  BY DEF Counted
<1> DEFINE last == Len(toServer) + 1
           g == [n \in DOMAIN toServer' |-> IF n = last THEN Len(commands) + 1 ELSE f[n]]
<1>5. f \in [DOMAIN toServer -> Nat]
  BY <1>4 DEF Places
<1>6. g \in [DOMAIN toServer' -> Nat]
  BY <1>1, <1>2, <1>5
<1>7. g[last] = Len(commands) + 1 /\ \A n \in DOMAIN toServer : g[n] = f[n] /\ n # last
  BY <1>2
<1> HIDE DEF g
<1>8. CASE IsCommand(m) /\ commands' = Append(commands, m)
  <2>1. /\ Len(commands') = Len(commands) + 1 /\ commands'[Len(commands) + 1] = m
    BY <1>1, <1>8, Appending
  <2>2. LastCommand' = m
    BY <2>1 DEF LastCommand
  <2>3. LastIs(toServer', m)
    BY <1>1, <1>8, LastAppended
  <2>4. ServerFollows'
    BY <2>2, <2>3 DEF ServerFollows
  <2>5. \A i, j \in DOMAIN toServer' :
          IsCommand(toServer'[i]) /\ IsCommand(toServer'[j]) /\ i < j => g[i] < g[j]
    <3> SUFFICES ASSUME NEW i \in DOMAIN toServer', NEW j \in DOMAIN toServer',
                        IsCommand(toServer'[i]), IsCommand(toServer'[j]), i < j
                 PROVE  g[i] < g[j]
      OBVIOUS
    <3>1. i \in DOMAIN toServer
      BY <1>1, <1>2
    <3>2. CASE j \in DOMAIN toServer
      BY <1>2, <1>4, <1>7, <3>1, <3>2 DEF Places
    <3>3. CASE j = last
      <4>1. f[i] <= Len(commands) /\ f[i] \in Nat
        BY <1>2, <1>4, <1>5, <3>1 DEF Places
      <4> QED BY <1>1, <1>7, <3>1, <3>3, <4>1
    <3> QED BY <1>2, <3>2, <3>3
  <2>6. \A i \in DOMAIN toServer' : IsCommand(toServer'[i]) => stamped < g[i] /\ g[i] <= Len(commands')
    <3> SUFFICES ASSUME NEW i \in DOMAIN toServer', IsCommand(toServer'[i])
                 PROVE  stamped < g[i] /\ g[i] <= Len(commands')
      OBVIOUS
    <3>1. CASE i \in DOMAIN toServer
      <4>1. stamped < f[i] /\ f[i] <= Len(commands) /\ f[i] \in Nat
        BY <1>2, <1>4, <1>5, <3>1 DEF Places
      <4> QED BY <1>1, <1>7, <2>1, <3>1, <4>1
    <3>2. CASE i = last
      BY <1>1, <1>7, <2>1, <3>2 DEF Counted
    <3> QED BY <1>2, <3>1, <3>2
  <2>7. \E h : Places(h)'
    BY <1>6, <2>5, <2>6 DEF Places
  <2> QED BY <1>1, <1>3, <2>1, <2>4, <2>7 DEF Counted
<1>9. CASE ~IsCommand(m) /\ commands' = commands /\ lost' = lost
  <2>1. LastCommand' = LastCommand
    BY <1>9 DEF LastCommand
  <2>2. /\ NoCommand(toServer) => NoCommand(toServer')
        /\ LastIs(toServer, LastCommand) => LastIs(toServer', LastCommand)
    BY <1>1, <1>9, LastAppended
  <2>3. ServerFollows'
    BY <1>9, <2>1, <2>2 DEF ServerFollows
  <2>4. \A i \in DOMAIN toServer' : IsCommand(toServer'[i]) => i \in DOMAIN toServer
    BY <1>2, <1>9
  <2>5. \E h : Places(h)'
    BY <1>2, <1>4, <1>6, <1>7, <1>9, <2>4 DEF Places
  <2> QED BY <1>3, <1>9, <2>3, <2>5 DEF Counted
<1> QED BY <1>8, <1>9

\* A command is recorded under the next stamp if it is a speed, and dropped if
\* it is not; an answer is always dropped.
LEMMA ServerReceiveInv ==
  ASSUME FanInv, ServerReceive
  PROVE  TypeOK' /\ ServerFollows' /\ Stamped' /\ Counted'
<1> USE DEF FanInv
<1> DEFINE m == Head(toServer)
<1>1. toServer # <<>> /\ toServer' = Tail(toServer)
      /\ UNCHANGED <<toNode, fromNode, online, speed, saved, commands, breaks, lost>>
  BY DEF ServerReceive, nodeVars, history
<1>2. /\ toServer \in Seq(Message) /\ commands \in Seq(Message) /\ stamped \in Nat /\ Len(commands) \in Nat
      /\ Len(commands) <= MaxCommands /\ MaxCommands \in Nat
  BY LenProperties, FanControlAssumption DEF TypeOK
<1>3. /\ toServer' \in Seq(Message) /\ Len(toServer) \in Nat \ {0}
      /\ DOMAIN toServer = 1 .. Len(toServer) /\ DOMAIN toServer' = 1 .. Len(toServer) - 1
      /\ m = toServer[1] /\ m \in Message /\ 1 \in DOMAIN toServer
      /\ \A n \in DOMAIN toServer' : toServer'[n] = toServer[n + 1] /\ n + 1 \in DOMAIN toServer
  BY <1>1, <1>2, Shifting
<1>4. LastCommand' = LastCommand
  BY <1>1 DEF LastCommand
<1>5. /\ NoCommand(toServer) => NoCommand(toServer') /\ ~IsCommand(m)
      /\ LastIs(toServer, LastCommand) =>
           LastIs(toServer', LastCommand) \/ (m = LastCommand /\ NoCommand(toServer'))
  BY <1>1, <1>2, LastShifted
<1>6. PICK f : Places(f)
  BY DEF Counted
<1> DEFINE g == [n \in DOMAIN toServer' |-> f[n + 1]]
<1>7. f \in [DOMAIN toServer -> Nat] /\ \A n \in DOMAIN toServer : f[n] \in Nat
  BY <1>6 DEF Places
<1>8. g \in [DOMAIN toServer' -> Nat] /\ \A n \in DOMAIN toServer' : g[n] = f[n + 1]
  BY <1>3, <1>7
<1> HIDE DEF g
<1>9. \A i, j \in DOMAIN toServer' :
        IsCommand(toServer'[i]) /\ IsCommand(toServer'[j]) /\ i < j => g[i] < g[j]
  <2> SUFFICES ASSUME NEW i \in DOMAIN toServer', NEW j \in DOMAIN toServer',
                      IsCommand(toServer'[i]), IsCommand(toServer'[j]), i < j
               PROVE  g[i] < g[j]
    OBVIOUS
  <2>1. i + 1 < j + 1 /\ i + 1 \in DOMAIN toServer /\ j + 1 \in DOMAIN toServer
    BY <1>3
  <2>2. f[i + 1] < f[j + 1]
    BY <1>3, <1>6, <2>1 DEF Places
  <2> QED BY <1>8, <2>2
<1>10. CASE Valid(m)
  <2>1. /\ stamped' = stamped + 1
        /\ saving' = saving \cup {[n |-> stamped + 1, speed |-> m.speed]}
    BY <1>10 DEF ServerReceive
  <2>2. IsCommand(m)
    BY <1>10 DEF Valid, IsCommand
  <2>3. stamped + 1 <= f[1] /\ f[1] <= Len(commands) /\ f[1] \in Nat
    BY <1>2, <1>3, <1>6, <1>7, <2>2 DEF Places
  <2>4. stamped' \in 0 .. MaxCommands /\ stamped' \in 1 .. MaxCommands /\ stamped' <= Len(commands)
    BY <1>2, <2>1, <2>3
  <2> DEFINE r == [n |-> stamped + 1, speed |-> m.speed]
  <2>5. r.n = stamped + 1 /\ r.speed = m.speed
        /\ r \in [n : 1 .. MaxCommands, speed : (Speeds \cup {0}) \cap (0 .. 100)]
    <3>1. m.speed \in (Speeds \cup {0}) \cap (0 .. 100)
      <4>1. m.speed \in Speeds \cup {0} /\ m.speed \in Int
        <5>1. m.speed \in Speeds \cup {0}
          BY <1>3 DEF Message
        <5>2. Speeds \cup {0} \subseteq Int
          BY FanControlAssumption
        <5> QED BY <5>1, <5>2
      <4> QED BY <1>10, <4>1 DEF Valid
    <3> QED BY <2>1, <2>4, <3>1
  <2>6. Records' = Records \cup {r}
    BY <1>1, <2>1 DEF Records
  <2> HIDE DEF r
  <2>7. TypeOK'
    <3>1. Records' \subseteq [n : 1 .. MaxCommands, speed : (Speeds \cup {0}) \cap (0 .. 100)]
      BY <2>5, <2>6 DEF TypeOK, Records
    <3> QED BY <1>1, <1>3, <2>4, <3>1 DEF TypeOK, Records
  <2>8. Stamped'
    <3>1. \A q \in Records : q.n <= stamped /\ q.n \in Nat
      <4>1. \A q \in Records : q.n \in 1 .. MaxCommands
        BY DEF TypeOK, Records
      <4> QED BY <1>2, <4>1 DEF Stamped
    <3>2. \A q \in Records : q.n <= stamped' /\ q.n # r.n
      BY <1>2, <2>1, <2>5, <3>1
    <3>3. r.n <= stamped'
      BY <1>2, <2>1, <2>5
    <3> QED BY <2>6, <3>2, <3>3 DEF Stamped
  <2>9. ServerFollows'
    <3>1. ASSUME commands # <<>>, m = LastCommand, NoCommand(toServer') PROVE ServerFollows'
      BY <1>4, <2>1, <2>5, <2>6, <3>1 DEF ServerFollows
    <3>2. ASSUME commands # <<>> PROVE LastIs(toServer, LastCommand)
      BY <1>5, <2>2, <3>2 DEF ServerFollows
    <3> QED BY <1>1, <1>4, <1>5, <3>1, <3>2 DEF ServerFollows
  <2>10. ASSUME NEW i \in DOMAIN toServer', IsCommand(toServer'[i])
         PROVE  stamped' < g[i] /\ g[i] <= Len(commands')
    <3>1. i + 1 \in DOMAIN toServer /\ 1 < i + 1 /\ IsCommand(toServer[i + 1])
      BY <1>3, <2>10
    <3>2. f[1] < f[i + 1] /\ f[i + 1] <= Len(commands) /\ f[i + 1] \in Nat
      BY <1>3, <1>6, <1>7, <2>2, <3>1 DEF Places
    <3> QED BY <1>1, <1>2, <1>8, <2>1, <2>3, <3>2
  <2>11. Counted'
    <3>1. \E h : Places(h)'
      BY <1>8, <1>9, <2>10 DEF Places
    <3> QED BY <1>1, <2>4, <3>1 DEF Counted
  <2> QED BY <2>7, <2>8, <2>9, <2>11
<1>11. CASE ~Valid(m)
  <2>1. stamped' = stamped /\ saving' = saving
    BY <1>11 DEF ServerReceive
  <2>2. TypeOK'
    BY <1>1, <1>3, <2>1 DEF TypeOK
  <2>3. Records' = Records
    BY <1>1, <2>1 DEF Records
  <2>4. Stamped'
    BY <2>1, <2>3 DEF Stamped
  <2>5. Valid(LastCommand)' <=> Valid(LastCommand)
    BY <1>4 DEF Valid
  <2>6. ServerFollows'
    BY <1>1, <1>4, <1>5, <1>11, <2>1, <2>3, <2>5 DEF ServerFollows
  <2>7. ASSUME NEW i \in DOMAIN toServer', IsCommand(toServer'[i])
        PROVE  stamped < g[i] /\ g[i] <= Len(commands)
    <3>1. i + 1 \in DOMAIN toServer /\ IsCommand(toServer[i + 1])
      BY <1>3, <2>7
    <3> QED BY <1>6, <1>8, <3>1 DEF Places
  <2>8. Counted'
    <3>1. \E h : Places(h)'
      BY <1>1, <1>8, <1>9, <2>1, <2>7 DEF Places
    <3> QED BY <1>1, <2>1, <3>1 DEF Counted
  <2> QED BY <2>2, <2>4, <2>6, <2>8
<1> QED BY <1>10, <1>11

-----------------------------------------------------------------------------
(* The way to the node and back *)

\* The node takes the first message; its answer, if it gives one, comes last.
LEMMA HandleAnswerInv ==
  ASSUME FanInv, HandleAnswer
  PROVE  TypeOK' /\ NoCommand(fromNode)' /\ OfflineIsEmpty' /\ NodeFollows'
<1> USE DEF FanInv
<1> DEFINE m == Head(toNode)
<1>1. /\ toNode # <<>> /\ m.form = "answer" /\ speed' = m.speed /\ toNode' = Tail(toNode)
      /\ UNCHANGED <<toServer, fromNode, online, saving, saved, stamped, commands, breaks, lost>>
  BY DEF HandleAnswer, serverVars, history
<1>2. /\ toNode' \in Seq(Message) /\ Len(toNode) \in Nat \ {0} /\ Len(toNode') = Len(toNode) - 1
      /\ m = toNode[1] /\ m \in Message /\ DOMAIN toNode' = 1 .. Len(toNode) - 1
      /\ \A n \in DOMAIN toNode' : toNode'[n] = toNode[n + 1]
      /\ toNode' = <<>> <=> Len(toNode) = 1
  BY <1>1, Shifting DEF TypeOK
<1>3. TypeOK'
  BY <1>1, <1>2 DEF TypeOK, Message
<1>4. NoCommand(fromNode)' /\ OfflineIsEmpty'
  BY <1>1 DEF NoCommand, OfflineIsEmpty
<1>5. LastCommand' = LastCommand
  BY <1>1 DEF LastCommand
<1>6. /\ NoCommand(toNode) => NoCommand(toNode')
      /\ LastIs(toNode, LastCommand) => LastIs(toNode', LastCommand)
  BY <1>1, LastShifted DEF TypeOK, IsCommand
<1>7. SpeedInTheEnd' = SpeedInTheEnd
  <2>1. CASE fromNode # <<>>
    BY <1>1, <2>1 DEF SpeedInTheEnd
  <2>2. CASE fromNode = <<>> /\ toNode' = <<>>
    BY <1>1, <1>2, <2>2 DEF SpeedInTheEnd
  <2>3. CASE fromNode = <<>> /\ toNode' # <<>>
    <3>1. Len(toNode') \in DOMAIN toNode' /\ Len(toNode') + 1 = Len(toNode)
      BY <1>2, <2>3
    <3>2. toNode'[Len(toNode')] = toNode[Len(toNode)]
      BY <1>2, <3>1
    <3> QED BY <1>1, <2>3, <3>2 DEF SpeedInTheEnd
  <2> QED BY <2>1, <2>2, <2>3
<1>8. NodeFollows'
  BY <1>1, <1>5, <1>6, <1>7 DEF NodeFollows
<1> QED BY <1>3, <1>4, <1>8

LEMMA HandleCommandInv ==
  ASSUME FanInv, HandleCommand
  PROVE  TypeOK' /\ NoCommand(fromNode)' /\ OfflineIsEmpty' /\ NodeFollows'
<1> USE DEF FanInv
<1> DEFINE m == Head(toNode)
           a == Answer(m.speed)
<1>1. /\ toNode # <<>> /\ m.form # "answer" /\ speed' = m.speed /\ toNode' = Tail(toNode)
      /\ fromNode' = Append(fromNode, a)
      /\ UNCHANGED <<toServer, online, saving, saved, stamped, commands, breaks, lost>>
  BY DEF HandleCommand, serverVars, history, Answer
<1>2. toNode' \in Seq(Message) /\ m \in Message
  BY <1>1, Shifting DEF TypeOK
<1>3. a \in Message /\ a.form = "answer" /\ a.speed = m.speed
  BY <1>2 DEF Message, Answer, Forms
<1> HIDE DEF a
<1>4. /\ fromNode' \in Seq(Message) /\ fromNode' # <<>> /\ fromNode'[Len(fromNode')] = a
  BY <1>1, <1>3, Appending DEF TypeOK
<1>5. TypeOK'
  BY <1>1, <1>2, <1>4 DEF TypeOK, Message
<1>6. NoCommand(fromNode)'
  BY <1>1, <1>3, LastAppended DEF TypeOK, IsCommand
<1>7. OfflineIsEmpty'
  BY <1>1 DEF OfflineIsEmpty
<1>8. LastCommand' = LastCommand /\ SpeedInTheEnd' = m.speed
  BY <1>1, <1>3, <1>4 DEF LastCommand, SpeedInTheEnd
<1>9. /\ ~NoCommand(toNode)
      /\ LastIs(toNode, LastCommand) =>
           LastIs(toNode', LastCommand) \/ (m = LastCommand /\ NoCommand(toNode'))
  BY <1>1, LastShifted DEF TypeOK, IsCommand
<1>10. NodeFollows'
  BY <1>1, <1>8, <1>9 DEF NodeFollows
<1> QED BY <1>5, <1>6, <1>7, <1>10

\* The broker puts an answer behind everything that waits for the node.
LEMMA ForwardAnswerInv ==
  ASSUME FanInv, ForwardAnswer
  PROVE  FanInv'
<1> USE DEF FanInv
<1> DEFINE m == Head(fromNode)
<1>1. /\ fromNode # <<>> /\ Forward(m) /\ fromNode' = Tail(fromNode)
      /\ UNCHANGED <<online, speed, saving, saved, stamped, commands, breaks, lost>>
  BY DEF ForwardAnswer, serverVars, history
<1>2. online
  BY <1>1 DEF OfflineIsEmpty
<1>3. toNode' = Append(toNode, m) /\ toServer' = Append(toServer, m)
  BY <1>1, <1>2 DEF Forward
<1>4. /\ fromNode' \in Seq(Message) /\ Len(fromNode) \in Nat \ {0} /\ Len(fromNode') = Len(fromNode) - 1
      /\ m = fromNode[1] /\ m \in Message /\ DOMAIN fromNode' = 1 .. Len(fromNode) - 1
      /\ \A n \in DOMAIN fromNode' : fromNode'[n] = fromNode[n + 1]
      /\ fromNode' = <<>> <=> Len(fromNode) = 1
  BY <1>1, Shifting DEF TypeOK
<1>5. ~IsCommand(m) /\ NoCommand(fromNode')
  BY <1>1, LastShifted DEF TypeOK
<1>6. /\ toNode' \in Seq(Message) /\ toNode' # <<>> /\ toNode'[Len(toNode')] = m
      /\ toServer' \in Seq(Message)
  <2>1. toNode \in Seq(Message) /\ toServer \in Seq(Message) /\ m \in Message
    BY <1>4 DEF TypeOK
  <2> HIDE DEF m
  <2>2. /\ Append(toNode, m) \in Seq(Message) /\ Append(toNode, m) # <<>>
        /\ Append(toNode, m)[Len(Append(toNode, m))] = m
    BY <2>1, Appending
  <2>3. Append(toServer, m) \in Seq(Message)
    BY <2>1, Appending
  <2> QED BY <1>3, <2>2, <2>3
<1>7. TypeOK'
  BY <1>1, <1>4, <1>6 DEF TypeOK
<1>8. OfflineIsEmpty' /\ LastCommand' = LastCommand
  BY <1>1, <1>2 DEF OfflineIsEmpty, LastCommand
<1>9. SpeedInTheEnd' = SpeedInTheEnd
  <2>1. CASE fromNode' = <<>>
    BY <1>1, <1>4, <1>6, <2>1 DEF SpeedInTheEnd
  <2>2. CASE fromNode' # <<>>
    <3>1. Len(fromNode') \in DOMAIN fromNode' /\ Len(fromNode') + 1 = Len(fromNode)
      BY <1>4, <2>2
    <3>2. fromNode'[Len(fromNode')] = fromNode[Len(fromNode)]
      BY <1>4, <3>1
    <3> QED BY <1>1, <2>2, <3>2 DEF SpeedInTheEnd
  <2> QED BY <2>1, <2>2
<1>10. /\ NoCommand(toNode) => NoCommand(toNode')
       /\ LastIs(toNode, LastCommand) => LastIs(toNode', LastCommand)
  BY <1>3, <1>4, <1>5, LastAppended DEF TypeOK
<1>11. NodeFollows'
  BY <1>1, <1>8, <1>9, <1>10 DEF NodeFollows
<1>12. ServerFollows' /\ Stamped' /\ Counted'
  BY <1>1, <1>3, <1>4, <1>5, ServerArrival DEF Records
<1> QED BY <1>5, <1>7, <1>8, <1>11, <1>12

\* A command goes to both; the node misses it only while its connection is
\* broken.
LEMMA CommandInv ==
  ASSUME FanInv, Command
  PROVE  FanInv'
<1> USE DEF FanInv
<1>1. PICK m \in Message : /\ IsCommand(m) /\ Forward(m) /\ commands' = Append(commands, m)
  <2>1. PICK form \in {"number", "other"}, s \in Speeds :
          Forward([form |-> form, speed |-> s]) /\ commands' = Append(commands, [form |-> form, speed |-> s])
    BY DEF Command
  <2>2. [form |-> form, speed |-> s] \in Message /\ IsCommand([form |-> form, speed |-> s])
    BY DEF Message, IsCommand, Forms
  <2> QED BY <2>1, <2>2
<1>2. /\ lost' = (lost \/ ~online) /\ Len(commands) < MaxCommands
      /\ UNCHANGED <<fromNode, online, speed, saving, saved, stamped, breaks>>
  BY DEF Command, nodeVars, serverVars
<1>3. toNode' = (IF online THEN Append(toNode, m) ELSE toNode) /\ toServer' = Append(toServer, m)
  BY <1>1 DEF Forward
<1>4. /\ commands' \in Seq(Message) /\ Len(commands') = Len(commands) + 1 /\ Len(commands) \in Nat
      /\ commands'[Len(commands')] = m /\ toServer' \in Seq(Message)
      /\ Append(toNode, m) \in Seq(Message)
  BY <1>1, <1>3, Appending DEF TypeOK
<1>5. TypeOK'
  <2>1. Len(commands') <= MaxCommands
    BY <1>2, <1>4, FanControlAssumption
  <2> QED BY <1>2, <1>3, <1>4, <2>1 DEF TypeOK
<1>6. NoCommand(fromNode)' /\ OfflineIsEmpty'
  BY <1>2, <1>3 DEF NoCommand, OfflineIsEmpty
<1>7. NodeFollows'
  <2>1. CASE online
    <3>1. LastIs(toNode', m)
      BY <1>1, <1>3, <2>1, LastAppended DEF TypeOK
    <3>2. LastCommand' = m
      BY <1>4 DEF LastCommand
    <3> QED BY <3>1, <3>2 DEF NodeFollows
  <2>2. CASE ~online
    BY <1>2, <2>2 DEF NodeFollows
  <2> QED BY <2>1, <2>2
<1>8. ServerFollows' /\ Stamped' /\ Counted'
  BY <1>1, <1>2, <1>3, ServerArrival DEF Records
<1> QED BY <1>5, <1>6, <1>7, <1>8

-----------------------------------------------------------------------------
(* The steps together *)

LEMMA FanNextInv == FanInv /\ [Next]_vars => FanInv'
<1> SUFFICES ASSUME FanInv, [Next]_vars PROVE FanInv'
  OBVIOUS
<1>1. CASE Command
  BY <1>1, CommandInv
<1>2. CASE Break
  <2>1. /\ online' = FALSE /\ breaks < MaxBreaks /\ breaks' = breaks + 1
        /\ lost' = (lost \/ toNode # <<>> \/ fromNode # <<>>) /\ toNode' = <<>> /\ fromNode' = <<>>
        /\ UNCHANGED <<toServer, speed, saving, saved, stamped, commands>>
    BY <1>2 DEF Break, serverVars
  <2>2. TypeOK'
    <3>1. breaks' \in 0 .. MaxBreaks
      BY <2>1, FanControlAssumption DEF FanInv, TypeOK
    <3>2. toNode' \in Seq(Message) /\ fromNode' \in Seq(Message)
      BY <2>1
    <3>3. online' \in BOOLEAN /\ lost' \in BOOLEAN
      BY <2>1
    <3>4. /\ toServer' \in Seq(Message) /\ commands' \in Seq(Message) /\ Len(commands') <= MaxCommands
          /\ speed' \in Speeds \cup {0} /\ stamped' \in 0 .. MaxCommands
          /\ saving' \cup saved' \subseteq [n : 1 .. MaxCommands, speed : (Speeds \cup {0}) \cap (0 .. 100)]
      BY <2>1 DEF FanInv, TypeOK
    <3> QED BY <3>1, <3>2, <3>3, <3>4 DEF TypeOK
  <2>3. NoCommand(fromNode)' /\ OfflineIsEmpty'
    BY <2>1, Empty DEF OfflineIsEmpty, NoCommand
  <2>4. NodeFollows'
    <3> SUFFICES ASSUME ~lost', commands # <<>> PROVE NodeFollows'
      BY <2>1 DEF NodeFollows
    <3>1. toNode = <<>> /\ fromNode = <<>> /\ ~lost
      BY <2>1
    <3>2. UNCHANGED <<toNode, fromNode, speed, commands>>
      BY <2>1, <3>1
    <3>3. SpeedInTheEnd' = SpeedInTheEnd /\ LastCommand' = LastCommand
      BY <3>2 DEF SpeedInTheEnd, LastCommand
    <3>4. NoCommand(toNode)' /\ SpeedInTheEnd = LastCommand.speed
      BY <3>1, <3>2, Empty DEF FanInv, NodeFollows, NoCommand
    <3> QED BY <3>3, <3>4 DEF NodeFollows
  <2>5. ServerFollows' /\ Stamped' /\ Counted'
    BY <2>1, ServerSame DEF Records
  <2> QED BY <2>2, <2>3, <2>4, <2>5 DEF FanInv
<1>3. CASE SaveFails
  <2>1. PICK r \in saving : saving' = saving \ {r}
    BY <1>3 DEF SaveFails
  <2>2. /\ breaks < MaxBreaks /\ breaks' = breaks + 1 /\ lost' = TRUE
        /\ UNCHANGED <<toNode, toServer, fromNode, online, speed, saved, stamped, commands>>
    BY <1>3 DEF SaveFails, nodeVars
  <2>3. TypeOK'
    <3>1. breaks' \in 0 .. MaxBreaks
      BY <2>2, FanControlAssumption DEF FanInv, TypeOK
    <3> QED BY <2>1, <2>2, <3>1 DEF FanInv, TypeOK
  <2>4. NoCommand(fromNode)' /\ OfflineIsEmpty' /\ NodeFollows'
    BY <2>2, NodeSame
  <2>5. Stamped'
    BY <2>1, <2>2 DEF FanInv, Stamped, Records
  <2>6. ServerFollows'
    <3>1. LastCommand' = LastCommand
      BY <2>2 DEF LastCommand
    <3>2. /\ NoCommand(toServer)' <=> NoCommand(toServer)
          /\ LastIs(toServer, LastCommand)' <=> LastIs(toServer, LastCommand)
      BY <2>2, <3>1 DEF NoCommand, LastIs
    <3> QED BY <2>2, <3>1, <3>2 DEF FanInv, ServerFollows
  <2>7. Counted'
    <3>1. \A f : Places(f) => Places(f)'
      BY <2>2 DEF Places
    <3> QED BY <2>2, <3>1 DEF FanInv, Counted
  <2> QED BY <2>3, <2>4, <2>5, <2>6, <2>7 DEF FanInv
<1>4. ASSUME HandleAnswer \/ HandleCommand PROVE FanInv'
  <2>1. TypeOK' /\ NoCommand(fromNode)' /\ OfflineIsEmpty' /\ NodeFollows'
    BY <1>4, HandleAnswerInv, HandleCommandInv
  <2>2. UNCHANGED <<toServer, saving, saved, stamped, commands, lost>>
    BY <1>4 DEF HandleAnswer, HandleCommand, serverVars, history
  <2>3. ServerFollows' /\ Stamped' /\ Counted'
    BY <2>2, ServerSame DEF Records
  <2> QED BY <2>1, <2>3 DEF FanInv
<1>5. CASE ForwardAnswer
  BY <1>5, ForwardAnswerInv
<1>6. CASE Connect
  <2>1. /\ ~online /\ online' = TRUE
        /\ UNCHANGED <<toNode, toServer, fromNode, speed, saving, saved, stamped, commands, breaks, lost>>
    BY <1>6 DEF Connect, serverVars, history
  <2>2. TypeOK'
    BY <2>1 DEF FanInv, TypeOK
  <2>3. NoCommand(fromNode)' /\ OfflineIsEmpty'
    BY <2>1 DEF FanInv, NoCommand, OfflineIsEmpty
  <2>4. NodeFollows'
    <3>1. SpeedInTheEnd' = SpeedInTheEnd /\ LastCommand' = LastCommand
      BY <2>1 DEF SpeedInTheEnd, LastCommand
    <3>2. /\ NoCommand(toNode)' <=> NoCommand(toNode)
          /\ LastIs(toNode, LastCommand)' <=> LastIs(toNode, LastCommand)
      BY <2>1, <3>1 DEF NoCommand, LastIs
    <3> QED BY <2>1, <3>1, <3>2 DEF FanInv, NodeFollows
  <2>5. ServerFollows' /\ Stamped' /\ Counted'
    BY <2>1, ServerSame DEF Records
  <2> QED BY <2>2, <2>3, <2>4, <2>5 DEF FanInv
<1>7. CASE ServerReceive
  <2>1. UNCHANGED <<toNode, fromNode, speed, online, commands, lost>>
    BY <1>7 DEF ServerReceive, nodeVars, history
  <2>2. NoCommand(fromNode)' /\ OfflineIsEmpty' /\ NodeFollows'
    BY <2>1, NodeSame
  <2> QED BY <1>7, <2>2, ServerReceiveInv DEF FanInv
<1>8. CASE saveData
  <2>1. /\ Records' = Records
        /\ UNCHANGED <<toNode, toServer, fromNode, online, speed, stamped, commands, breaks, lost>>
    BY <1>8 DEF saveData, nodeVars, history, Records
  <2>2. TypeOK'
    BY <2>1 DEF FanInv, TypeOK, Records
  <2>3. NoCommand(fromNode)' /\ OfflineIsEmpty' /\ NodeFollows'
    BY <2>1, NodeSame
  <2>4. ServerFollows' /\ Stamped' /\ Counted'
    BY <2>1, ServerSame
  <2> QED BY <2>2, <2>3, <2>4 DEF FanInv
<1>9. CASE UNCHANGED vars
  <2>1. UNCHANGED <<toNode, toServer, fromNode, online, speed, saving, saved, stamped, commands, breaks, lost>>
    BY <1>9 DEF vars
  <2>2. TypeOK'
    BY <2>1 DEF FanInv, TypeOK
  <2>3. NoCommand(fromNode)' /\ OfflineIsEmpty' /\ NodeFollows' /\ ServerFollows' /\ Stamped' /\ Counted'
    BY <2>1, NodeSame, ServerSame DEF Records
  <2> QED BY <2>2, <2>3 DEF FanInv
<1> QED BY <1>1, <1>2, <1>3, <1>4, <1>5, <1>6, <1>7, <1>8, <1>9 DEF Next, Node, Broker, Server

LEMMA FanSpecInv == Spec => []FanInv
BY FanInitInv, FanNextInv, PTL DEF Spec

-----------------------------------------------------------------------------
(* What follows *)

\* The variables keep their types: the server's handler stores only speeds
\* between 0 and 100, and at most one record for each command.
THEOREM ControlTypeCorrect == Spec => []TypeOK
<1>1. FanInv => TypeOK
  BY DEF FanInv
<1> QED BY <1>1, FanSpecInv, PTL

\* The answers of app_handle_mqtt_data come back to it between later commands;
\* still the last command decides the speed of the motor.
THEOREM ControlFanSettles == Spec => []FanSettles
<1>1. FanInv => FanSettles
  <2> SUFFICES ASSUME FanInv, NodeQuiet, ~lost, commands # <<>> PROVE speed = LastCommand.speed
    BY DEF FanSettles
  <2>1. toNode = <<>> /\ fromNode = <<>>
    BY DEF NodeQuiet
  <2>2. SpeedInTheEnd = speed /\ ~LastIs(toNode, LastCommand)
    BY <2>1, Empty DEF SpeedInTheEnd
  <2> QED BY <2>2 DEF FanInv, NodeFollows
<1> QED BY <1>1, FanSpecInv, PTL

\* The newest record of the server is then the speed of the motor, in whatever
\* order the inserts reached the database.
THEOREM ControlLogMatchesFan == Spec => []LogMatchesFan
<1>1. FanInv => LogMatchesFan
  <2> SUFFICES ASSUME FanInv, Quiet, ~lost, commands # <<>>,
                      LastCommand.form = "number", LastCommand.speed \in 0 .. 100
               PROVE  saved # {} /\ Newest.speed = speed
    BY DEF LogMatchesFan
  <2>1. toNode = <<>> /\ fromNode = <<>> /\ toServer = <<>> /\ Records = saved
    BY DEF Quiet, NodeQuiet, Records
  <2>2. speed = LastCommand.speed
    BY <2>1, Empty DEF FanInv, NodeFollows, SpeedInTheEnd
  <2>3. Valid(LastCommand)
    <3> DEFINE v == LastCommand.speed
    <3>1. ASSUME NEW n, n \in 0 .. 100 PROVE n >= 0 /\ n <= 100
      BY <3>1
    <3>2. v >= 0 /\ v <= 100
      BY <3>1
    <3> QED BY <3>2 DEF Valid
  <2>4. PICK r \in saved : r.n = stamped /\ r.speed = LastCommand.speed
    BY <2>1, <2>3, Empty DEF FanInv, ServerFollows
  <2>5. \A q \in saved : q.n <= r.n
    BY <2>1, <2>4 DEF FanInv, Stamped
  <2>6. Newest \in saved /\ \A q \in saved : q.n <= Newest.n
    BY <2>5 DEF Newest
  <2>7. \A q \in saved : q.n \in Int
    BY DEF FanInv, TypeOK
  <2>8. Newest.n = r.n
    BY <2>5, <2>6, <2>7
  <2>9. Newest = r
    BY <2>1, <2>6, <2>8 DEF FanInv, Stamped
  <2> QED BY <2>2, <2>4, <2>9
<1> QED BY <1>1, FanSpecInv, PTL
=============================================================================
