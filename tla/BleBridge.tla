----------------------------- MODULE BleBridge ------------------------------
(***************************************************************************)
(* The bridge from BLE to MQTT of NodeTwo.  The phone writes topics and    *)
(* messages into characteristics; the Bluetooth task puts each value into  *)
(* the queue of its characteristic (gatts_profile_event_handler); three    *)
(* tasks of main/main.c empty the queues.  The topic to publish under is a *)
(* global pointer that one task replaces while another one uses it.        *)
(*                                                                         *)
(* A value is the number of its write: topics to publish under and         *)
(* messages are counted separately.  Values to subscribe to are alike.     *)
(***************************************************************************)
EXTENDS Integers, Sequences, FiniteSets

CONSTANTS SubscribeSize, PublishSize, MessageSize,   \* 3, 3 and 6 in app_main
          MaxSubscriptions, MaxTopics, MaxMessages   \* bounds: writes of the phone

ASSUME BridgeAssumption ==
  /\ SubscribeSize \in Nat \ {0} /\ PublishSize \in Nat \ {0} /\ MessageSize \in Nat \ {0}
  /\ MaxSubscriptions \in Nat /\ MaxTopics \in Nat /\ MaxMessages \in Nat

VARIABLES queue,          \* contents of the three queues
          written,        \* values written so far, per characteristic
          bt,             \* the Bluetooth task: the value it is about to enqueue
          topicTask,      \* mqtt_publish_topic: the topic in rxBuffer, 0 if none
          publish_topic,  \* the buffer it points to, 0 for NULL
          filled,         \* the buffers whose memcpy is done
          subscribed,     \* topics the client was asked to subscribe to
          sender,         \* send_mqtt_mesage: its message and the pointer it passed
          published,      \* history: messages handed to the client, with the buffer
          chosen,         \* history: the topic in the queue last when a message was written
          accepted        \* history: the last topic that got into its queue

vars == <<queue, written, bt, topicTask, publish_topic, filled, subscribed, sender,
          published, chosen, accepted>>

Chars == {"subscribe", "publish", "message"}
Size(c) == CASE c = "subscribe" -> SubscribeSize
             [] c = "publish"   -> PublishSize
             [] c = "message"   -> MessageSize

MaxWrites(c) == CASE c = "subscribe" -> MaxSubscriptions
                  [] c = "publish"   -> MaxTopics
                  [] c = "message"   -> MaxMessages

NULL == 0
NoValue == 0
Idle == "idle"

-----------------------------------------------------------------------------
Init ==
  /\ queue = [c \in Chars |-> <<>>]
  /\ written = [c \in Chars |-> 0]
  /\ bt = Idle
  /\ topicTask = NoValue
  /\ publish_topic = NULL
  /\ filled = {}
  /\ subscribed = {}
  /\ sender = [pc |-> Idle, msg |-> NoValue, topic |-> NULL]
  /\ published = <<>>
  /\ chosen = <<>>
  /\ accepted = NULL

-----------------------------------------------------------------------------
(* The Bluetooth task: ESP_GATTS_WRITE_EVT.  A prepared (long) write and a  *)
(* write to another handle change nothing.                                  *)

Write(c) ==
  /\ bt = Idle
  /\ written[c] < MaxWrites(c)
  /\ written' = [written EXCEPT ![c] = @ + 1]
  /\ bt' = c
  /\ chosen' = IF c = "message" THEN Append(chosen, accepted) ELSE chosen
  /\ UNCHANGED <<queue, topicTask, publish_topic, filled, subscribed, sender, published, accepted>>

\* xQueueSend succeeds as soon as there is room, at once or within 10 ticks.
Enqueue(c) ==
  /\ bt = c
  /\ Len(queue[c]) < Size(c)
  /\ queue' = [queue EXCEPT ![c] = Append(@, written[c])]
  /\ accepted' = IF c = "publish" THEN written[c] ELSE accepted
  /\ bt' = Idle
  /\ UNCHANGED <<written, topicTask, publish_topic, filled, subscribed, sender, published, chosen>>

\* Mutant: a full queue takes one more.
DropLate(c) ==
  /\ bt = c
  /\ Len(queue[c]) = Size(c)
  /\ queue' = [queue EXCEPT ![c] = Append(@, written[c])]
  /\ bt' = Idle
  /\ UNCHANGED <<written, topicTask, publish_topic, filled, subscribed, sender,
                 published, chosen, accepted>>

\* The timeout expires on a full queue: the value is dropped and logged, and
\* the phone gets the same response.
Drop(c) ==
  /\ bt = c
  /\ Len(queue[c]) = Size(c)
  /\ bt' = Idle
  /\ UNCHANGED <<queue, written, topicTask, publish_topic, filled, subscribed, sender,
                 published, chosen, accepted>>

-----------------------------------------------------------------------------
(* mqtt_subcribe_topic: receive and subscribe. *)

Subscribe ==
  /\ queue["subscribe"] # <<>>
  /\ subscribed' = subscribed \cup {Head(queue["subscribe"])}
  /\ queue' = [queue EXCEPT !["subscribe"] = Tail(@)]
  /\ UNCHANGED <<written, bt, topicTask, publish_topic, filled, sender, published, chosen, accepted>>

-----------------------------------------------------------------------------
(* mqtt_publish_topic: receive, switch the pointer to a new buffer, fill it. *)
(* The old buffer is not freed.                                              *)

ReceiveTopic ==
  /\ topicTask = NoValue
  /\ queue["publish"] # <<>>
  /\ topicTask' = Head(queue["publish"])
  /\ queue' = [queue EXCEPT !["publish"] = Tail(@)]
  /\ UNCHANGED <<written, bt, publish_topic, filled, subscribed, sender, published, chosen, accepted>>

\* Mutant: a topic is taken over only if none is set.
SwitchTopicOnce ==
  /\ topicTask # NoValue
  /\ publish_topic # topicTask
  /\ IF publish_topic = NULL
     THEN publish_topic' = topicTask /\ topicTask' = topicTask
     ELSE publish_topic' = publish_topic /\ topicTask' = NoValue
  /\ UNCHANGED <<queue, written, bt, filled, subscribed, sender, published, chosen, accepted>>

SwitchTopic ==
  /\ topicTask # NoValue
  /\ publish_topic # topicTask
  /\ publish_topic' = topicTask
  /\ UNCHANGED <<queue, written, bt, topicTask, filled, subscribed, sender, published, chosen, accepted>>

FillTopic ==
  /\ topicTask # NoValue
  /\ publish_topic = topicTask
  /\ filled' = filled \cup {topicTask}
  /\ topicTask' = NoValue
  /\ UNCHANGED <<queue, written, bt, publish_topic, subscribed, sender, published, chosen, accepted>>

-----------------------------------------------------------------------------
(* send_mqtt_mesage: receive, read the pointer, publish.  The client copies *)
(* the topic only when it gets its lock, which the MQTT task holds while it *)
(* runs a handler, and refuses a NULL topic.                                *)

\* Mutant: the message is read again instead of removed from the queue.
ReceiveMessagePeeks ==
  /\ sender.pc = Idle
  /\ queue["message"] # <<>>
  /\ Len(published) < 2 * MaxMessages
  /\ sender' = [sender EXCEPT !.pc = "received", !.msg = Head(queue["message"])]
  /\ UNCHANGED <<queue, written, bt, topicTask, publish_topic, filled, subscribed, published,
                 chosen, accepted>>

ReceiveMessage ==
  /\ sender.pc = Idle
  /\ queue["message"] # <<>>
  /\ sender' = [sender EXCEPT !.pc = "received", !.msg = Head(queue["message"])]
  /\ queue' = [queue EXCEPT !["message"] = Tail(@)]
  /\ UNCHANGED <<written, bt, topicTask, publish_topic, filled, subscribed, published, chosen, accepted>>

ReadPointer ==
  /\ sender.pc = "received"
  /\ sender' = [sender EXCEPT !.pc = "publish", !.topic = publish_topic]
  /\ UNCHANGED <<queue, written, bt, topicTask, publish_topic, filled, subscribed, published,
                 chosen, accepted>>

Published(complete) ==
  [msg |-> sender.msg, topic |-> sender.topic, complete |-> complete]

\* Mutant: a message waits for a topic with the pointer it has read.
PublishWaits ==
  /\ sender.pc = "publish"
  /\ sender.topic # NULL
  /\ published' = Append(published, Published(sender.topic \in filled))
  /\ sender' = [pc |-> Idle, msg |-> NoValue, topic |-> NULL]
  /\ UNCHANGED <<queue, written, bt, topicTask, publish_topic, filled, subscribed, chosen, accepted>>

Publish ==
  /\ sender.pc = "publish"
  /\ published' = IF sender.topic = NULL THEN published
                  ELSE Append(published, Published(sender.topic \in filled))
  /\ sender' = [pc |-> Idle, msg |-> NoValue, topic |-> NULL]
  /\ UNCHANGED <<queue, written, bt, topicTask, publish_topic, filled, subscribed, chosen, accepted>>

-----------------------------------------------------------------------------
Bluetooth == \E c \in Chars : Enqueue(c) \/ Drop(c)
TopicTask == ReceiveTopic \/ SwitchTopic \/ FillTopic
Sender    == ReceiveMessage \/ ReadPointer \/ Publish

Next == (\E c \in Chars : Write(c)) \/ Bluetooth \/ Subscribe \/ TopicTask \/ Sender

\* FreeRTOS schedules every ready task: each of them blocks on its queue, so
\* that a lower priority is only a delay.  The phone need not write.
Fairness == WF_vars(Bluetooth) /\ WF_vars(Subscribe) /\ WF_vars(TopicTask) /\ WF_vars(Sender)

Spec == Init /\ [][Next]_vars /\ Fairness

-----------------------------------------------------------------------------
\* The variables keep their types; no queue holds more than it was created for.
TypeOK ==
  /\ \A c \in Chars : /\ queue[c] \in Seq(1 .. MaxWrites(c)) /\ Len(queue[c]) <= Size(c)
                      /\ written[c] \in 0 .. MaxWrites(c)
  /\ bt \in Chars \cup {Idle}
  /\ topicTask \in 0 .. MaxTopics
  /\ publish_topic \in 0 .. MaxTopics
  /\ filled \subseteq 1 .. MaxTopics
  /\ subscribed \subseteq 1 .. MaxSubscriptions
  /\ sender \in [pc : {Idle, "received", "publish"}, msg : 0 .. MaxMessages, topic : 0 .. MaxTopics]
  /\ published \in Seq([msg : 1 .. MaxMessages, topic : 1 .. MaxTopics, complete : BOOLEAN])
  /\ chosen \in Seq(0 .. MaxTopics) /\ Len(chosen) = written["message"]
  /\ accepted \in 0 .. MaxTopics

\* Whatever was dropped on the way, once the topic task has nothing to do the
\* pointer is the last topic that got into the queue, and its buffer is filled.
TopicSettles ==
  (queue["publish"] = <<>> /\ topicTask = NoValue) =>
    publish_topic = accepted /\ (accepted # NULL => accepted \in filled)

\* Where a message is between the characteristic and the client.
InTransit ==
  (IF sender.pc = Idle THEN <<>> ELSE <<sender.msg>>)
    \o queue["message"]
    \o (IF bt = "message" THEN <<written["message"]>> ELSE <<>>)

Channel == INSTANCE MessageChannel WITH
  Capacity <- MessageSize,
  Topics   <- 1 .. MaxTopics,
  sent     <- written["message"],
  transit  <- InTransit,
  out      <- [n \in DOMAIN published |-> [msg |-> published[n].msg, topic |-> published[n].topic]]

\* Three queues and tasks, and a topic that travels apart from the messages,
\* implement one bounded channel: messages leave once and in order, only the
\* newest is turned away, none is lost after the first, and the topics they
\* leave under never go back to an earlier one.
ImplementsChannel == Channel!Spec

InQueue(c, v) == \E n \in DOMAIN queue[c] : queue[c][n] = v

\* The Bluetooth task is never held up for ever by a full queue, and every
\* message in the queue is handed to the client in the end.
BridgeDrains ==
  /\ (bt # Idle) ~> (bt = Idle)
  /\ \A m \in 1 .. MaxMessages : InQueue("message", m) ~> ~InQueue("message", m)

\* "choose the topic to publish" (the name of the task), "publish data to the
\* topic" (BLE_GATTS_SERVER.h): a message goes out under the topic that was
\* chosen when it was written.
UnderChosenTopic ==
  \A n \in DOMAIN published :
    published[n].topic = chosen[published[n].msg] /\ published[n].complete
=============================================================================
