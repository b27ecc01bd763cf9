----------------------------- MODULE FanControl -----------------------------
(***************************************************************************)
(* Fan commands end to end: a web client publishes a speed under           *)
(* smarthome/fan/control, the broker forwards it to NodeOne and to the     *)
(* server, the server records it, the node drives the motor and publishes  *)
(* its answer {"Speed":"n"} under the very topic it subscribes to, so that *)
(* it comes back to the node and to the server (app_handle_mqtt_data of    *)
(* NodeOne/main/app_main.c, the fan branch of SERVER/server.js).           *)
(*                                                                         *)
(* All subscriptions and publications have QoS 0: the order on a           *)
(* connection is kept, and what is in it is lost when it breaks.           *)
(***************************************************************************)
EXTENDS Integers, Sequences, FiniteSets

CONSTANTS Speeds,        \* integers a client may send
          MaxCommands,   \* bound: commands sent
          MaxBreaks      \* bound: connections that break

ASSUME FanControlAssumption ==
  Speeds \subseteq Int /\ MaxCommands \in Nat /\ MaxBreaks \in Nat

VARIABLES toNode, toServer,   \* what the broker has forwarded
          fromNode,           \* answers on their way to the broker
          online,             \* NodeOne is connected and subscribed
          speed,              \* the speed fan_control was last called with
          saving, saved,      \* records of the server: on their way, stored
          stamped,            \* records made so far
          commands,           \* history: what the client published, in order
          breaks, lost        \* history: connections broken, something was lost

vars == <<toNode, toServer, fromNode, online, speed, saving, saved, stamped,
          commands, breaks, lost>>

nodeVars   == <<fromNode, online, speed>>
serverVars == <<saving, saved, stamped>>
history    == <<commands, breaks, lost>>

\* The forms of a message: "number", which both sides parse alike; "other",
\* where parseInt finds no number and atoi finds the speed (0 for a word, 50
\* for " 50", which the server splits at its blank); "answer", the node's own.
Forms == {"number", "other", "answer"}
Message == [form : Forms, speed : Speeds \cup {0}]

Init ==
  /\ toNode = <<>> /\ toServer = <<>> /\ fromNode = <<>>
  /\ online = TRUE
  /\ speed = 0
  /\ saving = {} /\ saved = {} /\ stamped = 0
  /\ commands = <<>> /\ breaks = 0 /\ lost = FALSE

-----------------------------------------------------------------------------
(* The broker forwards to every subscriber, the sender included. *)

Forward(m) ==
  /\ toNode' = IF online THEN Append(toNode, m) ELSE toNode
  /\ toServer' = Append(toServer, m)

Command ==
  /\ Len(commands) < MaxCommands
  /\ \E form \in {"number", "other"}, s \in Speeds :
       LET m == [form |-> form, speed |-> s]
       IN  /\ Forward(m)
           /\ commands' = Append(commands, m)
  /\ lost' = (lost \/ ~online)
  /\ UNCHANGED <<nodeVars, serverVars, breaks>>

ForwardAnswer ==
  /\ fromNode # <<>>
  /\ Forward(Head(fromNode))
  /\ fromNode' = Tail(fromNode)
  /\ UNCHANGED <<online, speed, serverVars, history>>

\* The connection of the node breaks; the client library connects again and
\* MQTT_EVENT_CONNECTED subscribes again.
Break ==
  /\ online /\ breaks < MaxBreaks
  /\ online' = FALSE
  /\ breaks' = breaks + 1
  /\ lost' = (lost \/ toNode # <<>> \/ fromNode # <<>>)
  /\ toNode' = <<>> /\ fromNode' = <<>>
  /\ UNCHANGED <<toServer, speed, serverVars, commands>>

Connect ==
  /\ ~online
  /\ online' = TRUE
  /\ UNCHANGED <<toNode, toServer, fromNode, speed, serverVars, history>>

-----------------------------------------------------------------------------
(* app_handle_mqtt_data, in the task of the MQTT client: fan_control first, *)
(* then the answer, which is not published for an answer.                   *)

Answer(s) == [form |-> "answer", speed |-> s]

\* Mutants: an answer is parsed like a command, where atoi finds no digit; an
\* answer is answered.
HandleAnswerAsText ==
  /\ toNode # <<>> /\ Head(toNode).form = "answer"
  /\ speed' = 0
  /\ toNode' = Tail(toNode)
  /\ UNCHANGED <<toServer, fromNode, online, serverVars, history>>

HandleAnswerAnswers ==
  /\ toNode # <<>> /\ Head(toNode).form = "answer"
  /\ speed' = Head(toNode).speed
  /\ fromNode' = Append(fromNode, Answer(speed'))
  /\ toNode' = Tail(toNode)
  /\ UNCHANGED <<toServer, online, serverVars, history>>

HandleAnswer ==
  /\ toNode # <<>> /\ Head(toNode).form = "answer"
  /\ speed' = Head(toNode).speed
  /\ toNode' = Tail(toNode)
  /\ UNCHANGED <<toServer, fromNode, online, serverVars, history>>

\* The speed is not checked.
HandleCommand ==
  /\ toNode # <<>> /\ Head(toNode).form # "answer"
  /\ speed' = Head(toNode).speed
  /\ fromNode' = Append(fromNode, Answer(speed'))
  /\ toNode' = Tail(toNode)
  /\ UNCHANGED <<toServer, online, serverVars, history>>

-----------------------------------------------------------------------------
(* The fan branch of the server's handler. *)

\* Mutants: a speed of 0 is taken for no number; no upper limit.
ValidNonZero(m) == m.form = "number" /\ m.speed > 0 /\ m.speed <= 100
ValidUnlimited(m) == m.form = "number" /\ m.speed >= 0

Valid(m) == m.form = "number" /\ m.speed >= 0 /\ m.speed <= 100

\* Up to the first await: the record is stamped by the pre-save hook.
ServerReceive ==
  /\ toServer # <<>>
  /\ IF Valid(Head(toServer))
     THEN /\ stamped' = stamped + 1
          /\ saving' = saving \cup {[n |-> stamped', speed |-> Head(toServer).speed]}
     ELSE UNCHANGED <<stamped, saving>>
  /\ toServer' = Tail(toServer)
  /\ UNCHANGED <<toNode, nodeVars, saved, history>>

\* Inserts of different handlers reach the database in any order.
saveData ==
  /\ \E r \in saving : saving' = saving \ {r} /\ saved' = saved \cup {r}
  /\ UNCHANGED <<toNode, toServer, nodeVars, stamped, history>>

\* The error is logged and swallowed.
SaveFails ==
  /\ \E r \in saving : saving' = saving \ {r}
  /\ breaks < MaxBreaks /\ breaks' = breaks + 1
  /\ lost' = TRUE
  /\ UNCHANGED <<toNode, toServer, nodeVars, saved, stamped, commands>>

-----------------------------------------------------------------------------
Node   == HandleAnswer \/ HandleCommand
Broker == ForwardAnswer \/ Connect
Server == ServerReceive \/ saveData

Next == Command \/ Break \/ SaveFails \/ Node \/ Broker \/ Server

\* Messages that are not lost are delivered and handled; nothing makes a
\* client publish or a connection break.
Fairness == WF_vars(Node) /\ WF_vars(Broker) /\ WF_vars(Server)

Spec == Init /\ [][Next]_vars /\ Fairness

-----------------------------------------------------------------------------
\* The variables keep their types; a record holds a speed between 0 and 100.
TypeOK ==
  /\ toNode \in Seq(Message) /\ toServer \in Seq(Message) /\ fromNode \in Seq(Message)
  /\ online \in BOOLEAN /\ lost \in BOOLEAN
  /\ speed \in Speeds \cup {0}
  /\ saving \cup saved \subseteq [n : 1 .. MaxCommands, speed : (Speeds \cup {0}) \cap (0 .. 100)]
  /\ stamped \in 0 .. MaxCommands
  /\ commands \in Seq(Message) /\ Len(commands) <= MaxCommands
  /\ breaks \in 0 .. MaxBreaks

NodeQuiet == toNode = <<>> /\ fromNode = <<>>
Quiet == NodeQuiet /\ toServer = <<>> /\ saving = {}

LastCommand == commands[Len(commands)]

\* The node's own answers come back to it between later commands and set the
\* motor again; still, if nothing was lost the motor ends up at the speed of
\* the last command.
FanSettles ==
  (NodeQuiet /\ ~lost /\ commands # <<>>) => speed = LastCommand.speed

Newest == CHOOSE r \in saved : \A other \in saved : other.n <= r.n

\* Node and server agree: when all is delivered and the last command was a
\* speed, the newest record of the server is the speed of the motor.
LogMatchesFan ==
  (Quiet /\ ~lost /\ commands # <<>>
     /\ LastCommand.form = "number" /\ LastCommand.speed \in 0 .. 100) =>
    saved # {} /\ Newest.speed = speed

\* The answers do not go round for ever: whatever is sent, the node comes to
\* rest.
EchoesEnd == []<>NodeQuiet
=============================================================================
