-------------------------- MODULE BleBridgeProofs --------------------------
(***************************************************************************)
(* What BleBridge promises for every size of its queues and every number   *)
(* of writes: its types, that the topic settles, and that queues, tasks    *)
(* and pointer implement one bounded channel.                              *)
(***************************************************************************)
EXTENDS BleBridge, SequenceTheorems, TLAPS

topics == queue["publish"]

\* One queue and one counter for each characteristic.
QueuePerChar ==
  queue \in [Chars -> Seq(Nat)] /\ written \in [Chars -> Nat]

\* A task that holds a value holds a written one.
HoldsValue ==
  /\ bt # Idle => written[bt] > 0
  /\ sender.pc # Idle => sender.msg > 0

\* The last topic accepted is at the end of the queue, then in the topic task,
\* then under the pointer.
LastAccepted ==
  accepted = IF topics # <<>> THEN topics[Len(topics)]
             ELSE IF topicTask # NoValue THEN topicTask ELSE publish_topic

\* Only the buffer that the topic task is about to fill is not filled.
FilledUnlessNew ==
  publish_topic \in filled \cup {NULL, topicTask}

\* From the client back to the phone topics never become older.
TopicsAge ==
  /\ publish_topic <= written["publish"] /\ topicTask <= written["publish"]
  /\ topicTask # NoValue => publish_topic <= topicTask
  /\ \A i \in 1 .. Len(topics) :
       /\ publish_topic <= topics[i] /\ topicTask <= topics[i]
       /\ topics[i] <= written["publish"]
       /\ \A j \in i .. Len(topics) : topics[i] <= topics[j]

\* Neither do those under which messages have left, nor the one in use.
SentUnderOlder ==
  /\ \A n \in 1 .. Len(published) : published[n].topic <= publish_topic
  /\ sender.pc = "publish" =>
       /\ sender.topic <= publish_topic
       /\ \A n \in 1 .. Len(published) : published[n].topic <= sender.topic

Inv ==
  /\ TypeOK /\ QueuePerChar /\ HoldsValue
  /\ LastAccepted /\ FilledUnlessNew /\ TopicsAge /\ SentUnderOlder

-----------------------------------------------------------------------------
(* Types *)

LEMMA SizesAreNumbers ==
  \A c \in Chars : Size(c) \in Nat /\ MaxWrites(c) \in Nat
BY BridgeAssumption DEF Chars, Size, MaxWrites

LEMMA InitInv == Init => Inv
<1> SUFFICES ASSUME Init PROVE Inv
  OBVIOUS
<1> USE BridgeAssumption DEF Init, NULL, NoValue
<1>1. topics = <<>> /\ Len(<<>>) = 0
  BY DEF topics, Chars
<1>2. QueuePerChar
  BY DEF QueuePerChar
<1>3. TypeOK
  BY <1>1, SizesAreNumbers DEF TypeOK, Chars, Idle
<1>4. HoldsValue /\ LastAccepted /\ FilledUnlessNew
  BY <1>1 DEF HoldsValue, LastAccepted, FilledUnlessNew
<1>5. TopicsAge /\ SentUnderOlder
  BY <1>1 DEF TopicsAge, SentUnderOlder, Chars, Idle
<1> QED
  BY <1>2, <1>3, <1>4, <1>5 DEF Inv

\* The actions, as cases of a step.
LEMMA StepCases ==
  ASSUME [Next]_vars
  PROVE  \/ \E c \in Chars : Write(c) \/ Enqueue(c) \/ Drop(c)
         \/ Subscribe \/ ReceiveTopic \/ SwitchTopic \/ FillTopic
         \/ ReceiveMessage \/ ReadPointer \/ Publish \/ UNCHANGED vars
BY DEF Next, Bluetooth, TopicTask, Sender

\* The first value of a sequence.
LEMMA FirstOf ==
  ASSUME NEW S, NEW s \in Seq(S), s # <<>>
  PROVE  Head(s) = s[1] /\ s[1] \in S /\ Len(s) \in Nat \ {0}
OBVIOUS

\* Taking the first value of a queue leaves the other queues alone and shifts
\* this one.
LEMMA Dequeue ==
  ASSUME TypeOK, QueuePerChar, NEW c \in Chars, queue[c] # <<>>,
         queue' = [queue EXCEPT ![c] = Tail(@)]
  PROVE  /\ queue' \in [Chars -> Seq(Nat)]
         /\ \A d \in Chars : d # c => queue'[d] = queue[d]
         /\ queue'[c] = Tail(queue[c]) /\ queue'[c] \in Seq(1 .. MaxWrites(c))
         /\ Head(queue[c]) = queue[c][1] /\ queue[c][1] \in 1 .. MaxWrites(c)
         /\ Len(queue[c]) \in Nat \ {0} /\ Len(queue'[c]) = Len(queue[c]) - 1
         /\ \A i \in 1 .. Len(queue'[c]) : queue'[c][i] = queue[c][i + 1]
         /\ \A d \in Chars : queue'[d] \in Seq(1 .. MaxWrites(d)) /\ Len(queue'[d]) <= Size(d)
<1>1. queue[c] \in Seq(1 .. MaxWrites(c)) /\ queue[c] \in Seq(Nat)
  BY DEF TypeOK, QueuePerChar
<1>2. queue'[c] = Tail(queue[c]) /\ \A d \in Chars : d # c => queue'[d] = queue[d]
  BY DEF QueuePerChar
<1>3. /\ Head(queue[c]) = queue[c][1] /\ queue[c][1] \in 1 .. MaxWrites(c)
      /\ Len(queue[c]) \in Nat \ {0}
  BY <1>1, FirstOf
<1>4. /\ Tail(queue[c]) \in Seq(1 .. MaxWrites(c)) /\ Tail(queue[c]) \in Seq(Nat)
      /\ Len(Tail(queue[c])) = Len(queue[c]) - 1
      /\ \A i \in 1 .. Len(Tail(queue[c])) : Tail(queue[c])[i] = queue[c][i + 1]
  BY <1>1, HeadTailProperties
<1>5. queue' \in [Chars -> Seq(Nat)]
  BY <1>4 DEF QueuePerChar
<1>6. ASSUME NEW d \in Chars
      PROVE  queue'[d] \in Seq(1 .. MaxWrites(d)) /\ Len(queue'[d]) <= Size(d)
  <2>1. CASE d = c
    <3>1. Len(queue[c]) <= Size(c) /\ Size(c) \in Nat
      BY SizesAreNumbers DEF TypeOK
    <3> QED BY <1>2, <1>3, <1>4, <2>1, <3>1
  <2>2. CASE d # c
    BY <1>2, <2>2 DEF TypeOK
  <2> QED BY <2>1, <2>2
<1> QED
  BY <1>2, <1>3, <1>4, <1>5, <1>6

\* An accepted value is the new last one of its queue.
LEMMA Enqueued ==
  ASSUME Inv, NEW c \in Chars, Enqueue(c)
  PROVE  /\ queue' \in [Chars -> Seq(Nat)]
         /\ \A d \in Chars : d # c => queue'[d] = queue[d]
         /\ queue'[c] = Append(queue[c], written[c]) /\ queue'[c] \in Seq(1 .. MaxWrites(c))
         /\ Len(queue[c]) \in Nat /\ Len(queue'[c]) = Len(queue[c]) + 1 /\ queue'[c] # <<>>
         /\ Len(queue[c]) < Size(c)
         /\ queue'[c][Len(queue[c]) + 1] = written[c]
         /\ \A i \in 1 .. Len(queue[c]) : queue'[c][i] = queue[c][i]
         /\ \A d \in Chars : queue'[d] \in Seq(1 .. MaxWrites(d)) /\ Len(queue'[d]) <= Size(d)
<1>1. queue[c] \in Seq(1 .. MaxWrites(c)) /\ queue[c] \in Seq(Nat)
  BY DEF Inv, TypeOK, QueuePerChar
<1>2. written[c] \in 1 .. MaxWrites(c) /\ written[c] \in Nat
  <2>1. bt = c /\ c # Idle
    BY DEF Enqueue, Chars, Idle
  <2>2. written[c] > 0
    BY <2>1 DEF Inv, HoldsValue
  <2>3. MaxWrites(c) \in Nat /\ written[c] \in 0 .. MaxWrites(c)
    BY SizesAreNumbers DEF Inv, TypeOK
  <2> QED BY <2>2, <2>3
<1>3. /\ queue'[c] = Append(queue[c], written[c])
      /\ \A d \in Chars : d # c => queue'[d] = queue[d]
      /\ Len(queue[c]) < Size(c)
  BY DEF Enqueue, Inv, QueuePerChar
<1>4. /\ Append(queue[c], written[c]) \in Seq(1 .. MaxWrites(c))
      /\ Append(queue[c], written[c]) \in Seq(Nat)
      /\ Append(queue[c], written[c]) # <<>>
      /\ Len(Append(queue[c], written[c])) = Len(queue[c]) + 1
      /\ \A i \in 1 .. Len(queue[c]) : Append(queue[c], written[c])[i] = queue[c][i]
      /\ Append(queue[c], written[c])[Len(queue[c]) + 1] = written[c]
  <2>1. Append(queue[c], written[c]) \in Seq(Nat)
    BY <1>1, <1>2, AppendProperties
  <2>2. /\ Append(queue[c], written[c]) \in Seq(1 .. MaxWrites(c))
        /\ Append(queue[c], written[c]) # <<>>
        /\ Len(Append(queue[c], written[c])) = Len(queue[c]) + 1
        /\ \A i \in 1 .. Len(queue[c]) : Append(queue[c], written[c])[i] = queue[c][i]
        /\ Append(queue[c], written[c])[Len(queue[c]) + 1] = written[c]
    BY <1>1, <1>2, AppendProperties
  <2> QED BY <2>1, <2>2
<1>5. Len(queue[c]) \in Nat
  BY <1>1, LenProperties
<1>6. queue' \in [Chars -> Seq(Nat)]
  BY <1>3, <1>4 DEF Enqueue, Inv, QueuePerChar
<1>7. ASSUME NEW d \in Chars
      PROVE  queue'[d] \in Seq(1 .. MaxWrites(d)) /\ Len(queue'[d]) <= Size(d)
  <2>1. CASE d = c
    <3>1. Size(c) \in Nat
      BY SizesAreNumbers
    <3>2. Len(queue'[c]) = Len(queue[c]) + 1
      BY <1>3, <1>4
    <3>3. Len(queue'[c]) <= Size(c)
      BY <1>3, <1>5, <3>1, <3>2
    <3> QED BY <1>3, <1>4, <2>1, <3>3
  <2>2. CASE d # c
    BY <1>3, <2>2 DEF Inv, TypeOK
  <2> QED BY <2>1, <2>2
<1> QED
  BY <1>3, <1>4, <1>5, <1>6, <1>7
-----------------------------------------------------------------------------
(* The steps *)

LEMMA WriteInv ==
  ASSUME Inv, NEW c \in Chars, Write(c)  PROVE Inv'
<1> USE DEF Inv
<1>1. /\ written' = [written EXCEPT ![c] = @ + 1] /\ bt' = c /\ bt = Idle
      /\ written[c] < MaxWrites(c)
      /\ UNCHANGED <<queue, topicTask, publish_topic, filled, subscribed, sender, published, accepted>>
      /\ chosen' = IF c = "message" THEN Append(chosen, accepted) ELSE chosen
  BY DEF Write
<1>2. /\ written' \in [Chars -> Nat] /\ written'[c] = written[c] + 1
      /\ \A d \in Chars : d # c => written'[d] = written[d]
      /\ written[c] \in Nat
  BY <1>1 DEF QueuePerChar
<1>3. \A d \in Chars : written'[d] \in 0 .. MaxWrites(d) /\ written[d] <= written'[d]
  <2> TAKE d \in Chars
  <2>1. MaxWrites(d) \in Nat /\ written[d] \in 0 .. MaxWrites(d)
    BY SizesAreNumbers DEF TypeOK
  <2>2. CASE d = c
    <3>1. written'[d] = written[d] + 1 /\ written[d] < MaxWrites(d)
      BY <1>1, <1>2, <2>2
    <3> QED BY <2>1, <3>1
  <2>3. CASE d # c
    <3>1. written'[d] = written[d]
      BY <1>2, <2>3
    <3> QED BY <2>1, <3>1
  <2> QED BY <2>2, <2>3
<1>4. chosen' \in Seq(0 .. MaxTopics) /\ Len(chosen') = written'["message"]
  <2>1. /\ chosen \in Seq(0 .. MaxTopics) /\ accepted \in 0 .. MaxTopics
        /\ Len(chosen) = written["message"]
    BY DEF TypeOK
  <2>2. CASE c = "message"
    BY <1>1, <1>2, <2>1, <2>2, AppendProperties
  <2>3. CASE c # "message"
    BY <1>1, <1>2, <2>1, <2>3 DEF Chars
  <2> QED BY <2>2, <2>3
<1>5. TypeOK'
  BY <1>1, <1>3, <1>4 DEF TypeOK
<1>6. QueuePerChar' /\ HoldsValue'
  BY <1>1, <1>2 DEF QueuePerChar, HoldsValue, Idle, Chars
<1>7. LastAccepted' /\ FilledUnlessNew' /\ SentUnderOlder'
  BY <1>1 DEF LastAccepted, FilledUnlessNew, SentUnderOlder, topics
<1>8. TopicsAge'
  <2>1. written["publish"] \in Nat /\ written'["publish"] \in Nat /\ written["publish"] <= written'["publish"]
    BY <1>2, <1>3 DEF QueuePerChar, Chars
  <2>2. topics \in Seq(Nat) /\ publish_topic \in Nat /\ topicTask \in Nat
    BY BridgeAssumption DEF topics, QueuePerChar, Chars, TypeOK
  <2>3. topics' = topics /\ \A i \in 1 .. Len(topics) : topics[i] \in Nat
    BY <1>1, <2>2 DEF topics
  <2> QED BY <1>1, <2>1, <2>2, <2>3 DEF TopicsAge
<1> QED
  BY <1>5, <1>6, <1>7, <1>8

LEMMA EnqueueInv ==
  ASSUME Inv, NEW c \in Chars, Enqueue(c)  PROVE Inv'
<1> USE DEF Inv
<1>1. /\ bt = c /\ bt' = Idle
      /\ accepted' = IF c = "publish" THEN written[c] ELSE accepted
      /\ UNCHANGED <<written, topicTask, publish_topic, filled, subscribed, sender, published, chosen>>
  BY DEF Enqueue
<1>2. TypeOK'
  <2>1. \A d \in Chars : queue'[d] \in Seq(1 .. MaxWrites(d)) /\ Len(queue'[d]) <= Size(d)
    BY Enqueued
  <2>2. accepted' \in 0 .. MaxTopics
    BY <1>1 DEF TypeOK, MaxWrites, Chars
  <2> QED BY <1>1, <2>1, <2>2 DEF TypeOK
<1>3. QueuePerChar' /\ HoldsValue'
  BY <1>1, Enqueued DEF QueuePerChar, HoldsValue
<1>4. CASE c # "publish"
  <2>1. topics' = topics /\ accepted' = accepted
    BY <1>1, <1>4, Enqueued DEF topics, Chars
  <2> QED BY <1>1, <1>2, <1>3, <2>1 DEF LastAccepted, FilledUnlessNew, TopicsAge, SentUnderOlder
<1>5. CASE c = "publish"
  <2>1. /\ Len(topics) \in Nat /\ Len(topics') = Len(topics) + 1 /\ topics' # <<>>
        /\ topics'[Len(topics')] = written["publish"]
        /\ \A i \in 1 .. Len(topics) : topics'[i] = topics[i]
        /\ accepted' = written["publish"] /\ written["publish"] \in Nat
    BY <1>1, <1>5, Enqueued DEF topics, QueuePerChar
  <2>2. LastAccepted' /\ FilledUnlessNew' /\ SentUnderOlder'
    BY <1>1, <2>1 DEF LastAccepted, FilledUnlessNew, SentUnderOlder
  <2>3. ASSUME NEW i \in 1 .. Len(topics')
        PROVE  /\ publish_topic <= topics'[i] /\ topicTask <= topics'[i]
               /\ topics'[i] <= written["publish"]
               /\ \A j \in i .. Len(topics') : topics'[i] <= topics'[j]
    <3>1. CASE i = Len(topics')
      BY <2>1, <3>1 DEF TopicsAge
    <3>2. CASE i # Len(topics')
      <4>1. i \in 1 .. Len(topics) /\ topics'[i] = topics[i]
        BY <2>1, <3>2
      <4> QED BY <2>1, <4>1 DEF TopicsAge
    <3> QED BY <3>1, <3>2
  <2>4. TopicsAge'
    BY <1>1, <2>3 DEF TopicsAge
  <2> QED BY <1>2, <1>3, <2>2, <2>4
<1> QED
  BY <1>4, <1>5

LEMMA DropInv ==
  ASSUME Inv, NEW c \in Chars, Drop(c)  PROVE Inv'
BY DEF Inv, Drop, TypeOK, QueuePerChar, HoldsValue, LastAccepted, FilledUnlessNew,
       TopicsAge, SentUnderOlder, topics

LEMMA SubscribeInv == Inv /\ Subscribe => Inv'
<1> SUFFICES ASSUME Inv, Subscribe PROVE Inv'
  OBVIOUS
<1> USE DEF Inv
<1>1. /\ queue["subscribe"] # <<>> /\ "subscribe" \in Chars
      /\ subscribed' = subscribed \cup {Head(queue["subscribe"])}
      /\ queue' = [queue EXCEPT !["subscribe"] = Tail(@)]
      /\ UNCHANGED <<written, bt, topicTask, publish_topic, filled, sender, published, chosen, accepted>>
  BY DEF Subscribe, Chars
<1>2. TypeOK'
  <2>1. \A d \in Chars : queue'[d] \in Seq(1 .. MaxWrites(d)) /\ Len(queue'[d]) <= Size(d)
    BY <1>1, Dequeue
  <2>2. Head(queue["subscribe"]) \in 1 .. MaxSubscriptions
    BY <1>1, Dequeue DEF MaxWrites
  <2>3. subscribed' \subseteq 1 .. MaxSubscriptions
    BY <1>1, <2>2 DEF TypeOK
  <2> QED BY <1>1, <2>1, <2>3 DEF TypeOK
<1>3. QueuePerChar' /\ HoldsValue'
  BY <1>1, Dequeue DEF QueuePerChar, HoldsValue
<1>4. topics' = topics
  BY <1>1, Dequeue DEF topics, Chars
<1> QED
  BY <1>1, <1>2, <1>3, <1>4 DEF LastAccepted, FilledUnlessNew, TopicsAge, SentUnderOlder

LEMMA ReceiveTopicInv == Inv /\ ReceiveTopic => Inv'
<1> SUFFICES ASSUME Inv, ReceiveTopic PROVE Inv'
  OBVIOUS
<1> USE DEF Inv
<1>1. /\ topics # <<>> /\ "publish" \in Chars /\ topicTask = NoValue
      /\ topicTask' = Head(queue["publish"])
      /\ queue' = [queue EXCEPT !["publish"] = Tail(@)]
      /\ UNCHANGED <<written, bt, publish_topic, filled, subscribed, sender, published, chosen, accepted>>
  BY DEF ReceiveTopic, Chars, topics
<1>2. /\ topicTask' = topics[1] /\ topics[1] \in 1 .. MaxTopics
      /\ Len(topics) \in Nat \ {0} /\ Len(topics') = Len(topics) - 1
      /\ \A i \in 1 .. Len(topics') : topics'[i] = topics[i + 1]
      /\ topics' \in Seq(Nat) /\ topics \in Seq(Nat)
  BY <1>1, Dequeue DEF topics, MaxWrites, QueuePerChar
<1>3. TypeOK'
  <2>1. \A d \in Chars : queue'[d] \in Seq(1 .. MaxWrites(d)) /\ Len(queue'[d]) <= Size(d)
    BY <1>1, Dequeue DEF topics
  <2>2. topicTask' \in 0 .. MaxTopics
    BY <1>2
  <2> QED BY <1>1, <2>1, <2>2 DEF TypeOK
<1>4. QueuePerChar' /\ HoldsValue'
  BY <1>1, Dequeue DEF QueuePerChar, HoldsValue, topics
<1>5. LastAccepted'
  <2>1. topics' = <<>> <=> Len(topics) = 1
    <3>1. topics' = <<>> <=> Len(topics') = 0
      BY <1>2, EmptySeq
    <3>2. Len(topics') = Len(topics) - 1 /\ Len(topics) \in Nat
      BY <1>2
    <3> QED BY <3>1, <3>2
  <2>2. topics' # <<>> => topics'[Len(topics')] = topics[Len(topics)]
    BY <1>2, <2>1
  <2> QED BY <1>1, <1>2, <2>1, <2>2 DEF LastAccepted, NoValue
<1>6. FilledUnlessNew' /\ SentUnderOlder'
  BY <1>1 DEF FilledUnlessNew, SentUnderOlder, NoValue, NULL
<1>7. TopicsAge'
  <2>2. topicTask' = topics[1] /\ topicTask' # NoValue /\ 1 \in 1 .. Len(topics)
    BY <1>2 DEF NoValue
  <2>3. /\ publish_topic' <= written'["publish"] /\ topicTask' <= written'["publish"]
        /\ publish_topic' <= topicTask'
    BY <1>1, <2>2 DEF TopicsAge
  <2>4. ASSUME NEW i \in 1 .. Len(topics')
        PROVE  /\ publish_topic' <= topics'[i] /\ topicTask' <= topics'[i]
               /\ topics'[i] <= written'["publish"]
               /\ \A j \in i .. Len(topics') : topics'[i] <= topics'[j]
    <3>1. topics'[i] = topics[i + 1] /\ i + 1 \in 1 .. Len(topics)
      BY <1>2
    <3>2. /\ publish_topic' <= topics'[i] /\ topicTask' <= topics'[i]
          /\ topics'[i] <= written'["publish"]
      BY <1>1, <2>2, <3>1 DEF TopicsAge
    <3>3. ASSUME NEW j \in i .. Len(topics') PROVE topics'[i] <= topics'[j]
      <4>1. j \in 1 .. Len(topics') /\ j + 1 \in i + 1 .. Len(topics)
        BY <1>2
      <4> QED BY <1>2, <3>1, <4>1 DEF TopicsAge
    <3> QED BY <3>2, <3>3
  <2> QED BY <2>3, <2>4 DEF TopicsAge
<1> QED
  BY <1>3, <1>4, <1>5, <1>6, <1>7

LEMMA SwitchTopicInv == Inv /\ SwitchTopic => Inv'
<1> SUFFICES ASSUME Inv, SwitchTopic PROVE Inv'
  OBVIOUS
<1> USE DEF Inv
<1>1. /\ topicTask # NoValue /\ publish_topic' = topicTask
      /\ UNCHANGED <<queue, written, bt, topicTask, filled, subscribed, sender, published, chosen, accepted>>
  BY DEF SwitchTopic
<1>2. TypeOK' /\ QueuePerChar' /\ HoldsValue'
  BY <1>1 DEF TypeOK, QueuePerChar, HoldsValue
<1>3. LastAccepted' /\ FilledUnlessNew'
  BY <1>1 DEF LastAccepted, FilledUnlessNew, topics
<1>4. TopicsAge'
  BY <1>1, BridgeAssumption DEF TopicsAge, topics, TypeOK
<1>5. publish_topic \in Nat /\ topicTask \in Nat /\ sender.topic \in Nat
  BY BridgeAssumption DEF TypeOK
<1>6. ASSUME NEW n \in 1 .. Len(published) PROVE published[n].topic \in Nat
  <2>1. published[n] \in [msg : 1 .. MaxMessages, topic : 1 .. MaxTopics, complete : BOOLEAN]
    BY ElementOfSeq DEF TypeOK
  <2> QED BY <2>1
<1>7. SentUnderOlder'
  BY <1>1, <1>5, <1>6 DEF SentUnderOlder, TopicsAge
<1> QED
  BY <1>2, <1>3, <1>4, <1>7

LEMMA FillTopicInv == Inv /\ FillTopic => Inv'
<1> SUFFICES ASSUME Inv, FillTopic PROVE Inv'
  OBVIOUS
<1> USE DEF Inv
<1>1. /\ topicTask # NoValue /\ publish_topic = topicTask
      /\ filled' = filled \cup {topicTask} /\ topicTask' = NoValue
      /\ UNCHANGED <<queue, written, bt, publish_topic, subscribed, sender, published, chosen, accepted>>
  BY DEF FillTopic
<1>2. TypeOK' /\ QueuePerChar' /\ HoldsValue'
  BY <1>1, BridgeAssumption DEF TypeOK, QueuePerChar, HoldsValue, NoValue
<1>3. LastAccepted' /\ FilledUnlessNew'
  BY <1>1 DEF LastAccepted, FilledUnlessNew, topics
<1>4. topics' = topics /\ topics \in Seq(Nat) /\ \A i \in 1 .. Len(topics) : topics[i] \in Nat
  BY <1>1 DEF topics, QueuePerChar, Chars
<1>5. TopicsAge' /\ SentUnderOlder'
  <2>1. written["publish"] \in Nat
    BY DEF QueuePerChar, Chars
  <2> QED BY <1>1, <1>4, <2>1 DEF TopicsAge, SentUnderOlder, NoValue
<1> QED
  BY <1>2, <1>3, <1>5
LEMMA ReceiveMessageInv == Inv /\ ReceiveMessage => Inv'
<1> SUFFICES ASSUME Inv, ReceiveMessage PROVE Inv'
  OBVIOUS
<1> USE DEF Inv
<1>1. /\ queue["message"] # <<>> /\ "message" \in Chars /\ sender.pc = Idle
      /\ sender' = [sender EXCEPT !.pc = "received", !.msg = Head(queue["message"])]
      /\ queue' = [queue EXCEPT !["message"] = Tail(@)]
      /\ UNCHANGED <<written, bt, topicTask, publish_topic, filled, subscribed, published, chosen, accepted>>
  BY DEF ReceiveMessage, Chars
<1>2. Head(queue["message"]) \in 1 .. MaxMessages
  <2>1. Head(queue["message"]) \in 1 .. MaxWrites("message")
    BY <1>1, Dequeue
  <2>2. MaxWrites("message") = MaxMessages
    BY DEF MaxWrites
  <2> QED BY <2>1, <2>2
<1>3. TypeOK'
  <2>1. \A d \in Chars : queue'[d] \in Seq(1 .. MaxWrites(d)) /\ Len(queue'[d]) <= Size(d)
    BY <1>1, Dequeue
  <2>2. sender' \in [pc : {Idle, "received", "publish"}, msg : 0 .. MaxMessages, topic : 0 .. MaxTopics]
    <3>1. Head(queue["message"]) \in 0 .. MaxMessages
      BY <1>2
    <3>2. sender \in [pc : {Idle, "received", "publish"}, msg : 0 .. MaxMessages, topic : 0 .. MaxTopics]
      BY DEF TypeOK
    <3> QED BY <1>1, <3>1, <3>2
  <2> QED BY <1>1, <2>1, <2>2 DEF TypeOK
<1>4. sender'.pc = "received" /\ sender'.msg > 0
  BY <1>1, <1>2 DEF TypeOK
<1>5. QueuePerChar' /\ HoldsValue'
  BY <1>1, <1>4, Dequeue DEF QueuePerChar, HoldsValue
<1>6. topics' = topics
  BY <1>1, Dequeue DEF topics, Chars
<1> QED
  BY <1>1, <1>3, <1>4, <1>5, <1>6 DEF LastAccepted, FilledUnlessNew, TopicsAge, SentUnderOlder

LEMMA ReadPointerInv == Inv /\ ReadPointer => Inv'
<1> SUFFICES ASSUME Inv, ReadPointer PROVE Inv'
  OBVIOUS
<1> USE DEF Inv
<1>1. /\ sender.pc = "received"
      /\ sender' = [sender EXCEPT !.pc = "publish", !.topic = publish_topic]
      /\ UNCHANGED <<queue, written, bt, topicTask, publish_topic, filled, subscribed, published, chosen, accepted>>
  BY DEF ReadPointer
<1>2. TypeOK' /\ QueuePerChar'
  BY <1>1 DEF TypeOK, QueuePerChar
<1>3. sender'.topic = publish_topic /\ sender'.msg = sender.msg /\ publish_topic \in Nat
  BY <1>1, BridgeAssumption DEF TypeOK
<1>4. HoldsValue' /\ SentUnderOlder'
  BY <1>1, <1>3 DEF HoldsValue, SentUnderOlder, Idle
<1>5. LastAccepted' /\ FilledUnlessNew' /\ TopicsAge'
  BY <1>1 DEF LastAccepted, FilledUnlessNew, TopicsAge, topics
<1> QED
  BY <1>2, <1>4, <1>5

LEMMA PublishInv == Inv /\ Publish => Inv'
<1> SUFFICES ASSUME Inv, Publish PROVE Inv'
  OBVIOUS
<1> USE DEF Inv
<1>1. /\ sender.pc = "publish"
      /\ published' = IF sender.topic = NULL THEN published
                      ELSE Append(published, Published(sender.topic \in filled))
      /\ sender' = [pc |-> Idle, msg |-> NoValue, topic |-> NULL]
      /\ UNCHANGED <<queue, written, bt, topicTask, publish_topic, filled, subscribed, chosen, accepted>>
  BY DEF Publish
<1> DEFINE Messages == [msg : 1 .. MaxMessages, topic : 1 .. MaxTopics, complete : BOOLEAN]
<1>2. published \in Seq(Messages)
  BY DEF TypeOK
<1>3. published' \in Seq(Messages) /\ \A n \in 1 .. Len(published') : published'[n].topic <= publish_topic
  <2>1. CASE sender.topic = NULL
    BY <1>1, <1>2, <2>1 DEF SentUnderOlder
  <2>2. CASE sender.topic # NULL
    <3> DEFINE e == Published(sender.topic \in filled)
    <3>1. e \in Messages /\ e.topic = sender.topic
      BY <1>1, <2>2 DEF Published, TypeOK, HoldsValue, NULL, Idle
    <3>2. published' = Append(published, e)
      BY <1>1, <2>2
    <3> HIDE DEF e, Messages
    <3>3. /\ published' \in Seq(Messages) /\ Len(published') = Len(published) + 1
          /\ Len(published) \in Nat
          /\ \A n \in 1 .. Len(published) : published'[n] = published[n]
          /\ published'[Len(published) + 1] = e
      BY <1>2, <3>1, <3>2, AppendProperties, LenProperties
    <3> QED BY <1>1, <3>1, <3>3 DEF SentUnderOlder
  <2> QED BY <2>1, <2>2
<1>4. TypeOK'
  <2>1. sender' \in [pc : {Idle, "received", "publish"}, msg : 0 .. MaxMessages, topic : 0 .. MaxTopics]
    BY <1>1, BridgeAssumption DEF NULL, NoValue
  <2> QED BY <1>1, <1>3, <2>1 DEF TypeOK
<1>5. QueuePerChar' /\ HoldsValue' /\ SentUnderOlder'
  BY <1>1, <1>3 DEF QueuePerChar, HoldsValue, SentUnderOlder, Idle
<1>6. LastAccepted' /\ FilledUnlessNew' /\ TopicsAge'
  BY <1>1 DEF LastAccepted, FilledUnlessNew, TopicsAge, topics
<1> QED
  BY <1>4, <1>5, <1>6

LEMMA NextInv == Inv /\ [Next]_vars => Inv'
<1> SUFFICES ASSUME Inv, [Next]_vars PROVE Inv'
  OBVIOUS
<1>1. CASE UNCHANGED vars
  BY <1>1 DEF vars, Inv, TypeOK, QueuePerChar, HoldsValue, LastAccepted, FilledUnlessNew,
              TopicsAge, SentUnderOlder, topics
<1> QED
  BY <1>1, StepCases, WriteInv, EnqueueInv, DropInv, SubscribeInv, ReceiveTopicInv,
     SwitchTopicInv, FillTopicInv, ReceiveMessageInv, ReadPointerInv, PublishInv

LEMMA SpecInv == Spec => []Inv
<1> QED BY InitInv, NextInv, PTL DEF Spec

-----------------------------------------------------------------------------
\* No queue overflows and every variable keeps its type, for every size of the
\* three queues.
THEOREM BridgeTypeCorrect == Spec => []TypeOK
<1>1. Inv => TypeOK
  BY DEF Inv
<1> QED BY <1>1, SpecInv, PTL

\* Whatever is dropped, the pointer ends at the last topic that was accepted,
\* and its buffer is filled: mqtt_publish_topic against the write event.
THEOREM BridgeTopicSettles == Spec => []TopicSettles
<1>1. Inv => TopicSettles
  BY DEF Inv, TopicSettles, LastAccepted, FilledUnlessNew, topics, NULL, NoValue
<1> QED BY <1>1, SpecInv, PTL
-----------------------------------------------------------------------------
(* The channel *)

messages == queue["message"]
Held     == IF sender.pc = Idle THEN <<>> ELSE <<sender.msg>>
Entering == IF bt = "message" THEN <<written["message"]>> ELSE <<>>
Out      == [n \in DOMAIN published |-> [msg |-> published[n].msg, topic |-> published[n].topic]]

\* Appending to the second of two sequences appends to both.
LEMMA AppendToJoin ==
  ASSUME NEW h \in Seq(Nat), NEW q \in Seq(Nat), NEW w \in Nat
  PROVE  /\ h \o q \in Seq(Nat) /\ Len(h \o q) = Len(h) + Len(q)
         /\ (h \o q) \o <<>> = h \o q
         /\ (h \o q) \o <<w>> = Append(h \o q, w)
         /\ h \o Append(q, w) = Append(h \o q, w)
<1>1. h \o q \in Seq(Nat) /\ Len(h \o q) = Len(h) + Len(q)
  BY ConcatProperties
<1>2. <<w>> \in Seq(Nat)
  OBVIOUS
<1>3. Append(q, w) = q \o <<w>> /\ Append(h \o q, w) = (h \o q) \o <<w>>
  BY <1>1, AppendIsConcat
<1>4. (h \o q) \o <<w>> = h \o (q \o <<w>>)
  BY <1>2, ConcatAssociative
<1>5. (h \o q) \o <<>> = h \o q
  BY <1>1, ConcatEmptySeq
<1> QED BY <1>1, <1>3, <1>4, <1>5

\* A value in front of a sequence is its head.
LEMMA HeadOfJoin ==
  ASSUME NEW m \in Nat, NEW q \in Seq(Nat)
  PROVE  <<m>> \o q # <<>> /\ Head(<<m>> \o q) = m /\ Tail(<<m>> \o q) = q
<1> DEFINE s == <<m>> \o q
<1>1. <<m>> \in Seq(Nat) /\ Len(<<m>>) = 1 /\ <<m>>[1] = m
  OBVIOUS
<1>2. /\ s \in Seq(Nat) /\ Len(s) = 1 + Len(q) /\ Len(q) \in Nat
      /\ \A i \in 1 .. 1 + Len(q) : s[i] = IF i <= 1 THEN <<m>>[i] ELSE q[i - 1]
  BY <1>1, ConcatProperties, LenProperties
<1> HIDE DEF s
<1>3. s # <<>> /\ s[1] = m
  BY <1>1, <1>2, EmptySeq
<1>4. Tail(s) \in Seq(Nat) /\ Len(Tail(s)) = Len(q) /\ \A i \in 1 .. Len(Tail(s)) : Tail(s)[i] = s[i + 1]
  BY <1>2, <1>3, HeadTailProperties
<1>5. ASSUME NEW i \in 1 .. Len(q) PROVE Tail(s)[i] = q[i]
  <2>1. Tail(s)[i] = s[i + 1]
    BY <1>4
  <2>2. i + 1 \in 1 .. 1 + Len(q) /\ ~(i + 1 <= 1) /\ (i + 1) - 1 = i
    BY <1>2
  <2> QED BY <1>2, <2>1, <2>2
<1>6. Tail(s) = q
  BY <1>4, <1>5, SeqEqual
<1>7. Head(s) = m
  BY <1>2, <1>3, FirstOf
<1> QED BY <1>3, <1>6, <1>7 DEF s

\* Its head in front of its tail is the sequence.
LEMMA HeadThenTail ==
  ASSUME NEW q \in Seq(Nat), q # <<>>
  PROVE  <<Head(q)>> \o Tail(q) = q /\ <<>> \o q = q
<1>1. /\ Head(q) = q[1] /\ q[1] \in Nat /\ Len(q) \in Nat \ {0}
      /\ Tail(q) \in Seq(Nat) /\ Len(Tail(q)) = Len(q) - 1
      /\ \A i \in 1 .. Len(Tail(q)) : Tail(q)[i] = q[i + 1]
  BY FirstOf, HeadTailProperties
<1> DEFINE s == <<Head(q)>> \o Tail(q)
<1>2. <<Head(q)>> \in Seq(Nat) /\ Len(<<Head(q)>>) = 1 /\ <<Head(q)>>[1] = q[1]
  BY <1>1
<1>3. /\ s \in Seq(Nat) /\ Len(s) = Len(q)
      /\ \A i \in 1 .. Len(q) : s[i] = IF i <= 1 THEN <<Head(q)>>[i] ELSE Tail(q)[i - 1]
  BY <1>1, <1>2, ConcatProperties
<1> HIDE DEF s
<1>4. \A i \in 1 .. Len(s) : s[i] = q[i]
  BY <1>1, <1>2, <1>3
<1>5. s = q
  BY <1>3, <1>4, SeqEqual
<1> QED BY <1>5, ConcatEmptySeq DEF s

\* Dropping the last of an appended value.
LEMMA DropAppended ==
  ASSUME NEW t \in Seq(Nat), NEW w \in Nat
  PROVE  SubSeq(Append(t, w), 1, Len(Append(t, w)) - 1) = t
<1> DEFINE s == Append(t, w)
<1>1. s \in Seq(Nat) /\ Len(s) = Len(t) + 1 /\ Len(t) \in Nat /\ \A i \in 1 .. Len(t) : s[i] = t[i]
  BY AppendProperties, LenProperties
<1> HIDE DEF s
<1>2. \A i \in 1 .. Len(t) : s[i] \in Nat
  BY <1>1, ElementOfSeq
<1>3. /\ SubSeq(s, 1, Len(t)) \in Seq(Nat) /\ Len(SubSeq(s, 1, Len(t))) = Len(t)
      /\ \A i \in 1 .. Len(t) : SubSeq(s, 1, Len(t))[i] = s[i]
  BY <1>1, <1>2, SubSeqProperties
<1>4. SubSeq(s, 1, Len(t)) = t
  BY <1>1, <1>3, SeqEqual
<1> QED BY <1>1, <1>4 DEF s

\* What is in transit, by its three parts.
LEMMA TransitParts ==
  ASSUME Inv
  PROVE  /\ InTransit = (Held \o messages) \o Entering
         /\ Held \in Seq(Nat) /\ Len(Held) \in 0 .. 1 /\ messages \in Seq(Nat)
         /\ Len(messages) \in Nat /\ Len(messages) <= MessageSize
         /\ written["message"] \in Nat
<1>1. InTransit = (Held \o messages) \o Entering
  BY DEF InTransit, Held, messages, Entering
<1>2. sender.msg \in Nat
  BY BridgeAssumption DEF Inv, TypeOK
<1>3. Held \in Seq(Nat) /\ Len(Held) \in 0 .. 1
  BY <1>2 DEF Held
<1>4. messages \in Seq(Nat) /\ written["message"] \in Nat /\ Len(messages) <= MessageSize
  BY DEF Inv, QueuePerChar, TypeOK, messages, Chars, Size
<1> QED BY <1>1, <1>3, <1>4, LenProperties

LEMMA ChannelInit == Init => Channel!Init
<1> SUFFICES ASSUME Init PROVE Channel!Init
  OBVIOUS
<1>1. InTransit = <<>>
  <2>1. InTransit = (<<>> \o <<>>) \o <<>>
    BY DEF Init, InTransit, Chars, Idle
  <2>2. <<>> \in Seq(Nat)
    OBVIOUS
  <2> QED BY <2>1, <2>2, ConcatEmptySeq
<1>2. written["message"] = 0 /\ DOMAIN published = {}
  BY DEF Init, Chars
<1>3. Out = <<>>
  BY <1>2 DEF Out, Init
<1> QED BY <1>1, <1>2, <1>3 DEF Channel!Init, Out
\* A step that leaves the messages, the sender and what was published alone is
\* not seen from outside.
ChannelUnchanged ==
  UNCHANGED <<written["message"], InTransit, Out>>

LEMMA Unseen ==
  ASSUME UNCHANGED <<written["message"], messages, sender, published>>,
         Entering' = Entering
  PROVE  ChannelUnchanged
BY DEF ChannelUnchanged, InTransit, Out, messages, Entering

\* A value that enters is accepted; the queue has room for one more.
LEMMA WriteAccepts ==
  ASSUME Inv, Write("message")
  PROVE  Channel!Accept
<1> DEFINE w == written["message"] + 1
<1>1. /\ bt = Idle /\ bt' = "message" /\ written'["message"] = w /\ w \in Nat
      /\ UNCHANGED <<queue, sender, published>>
  BY DEF Write, Inv, QueuePerChar, Chars
<1>2. Entering = <<>> /\ Entering' = <<w>>
  BY <1>1 DEF Entering, Idle
<1> HIDE DEF w
<1>3. InTransit = (Held \o messages) \o <<>> /\ InTransit' = (Held \o messages) \o <<w>>
  BY <1>1, <1>2, TransitParts DEF InTransit, Held, messages, Entering
<1>4. InTransit' = Append(InTransit, w) /\ InTransit = Held \o messages
  BY <1>1, <1>3, TransitParts, AppendToJoin
<1>5. Len(InTransit) < MessageSize + 2
  <2>1. Len(Held \o messages) = Len(Held) + Len(messages)
    BY TransitParts, AppendToJoin, <1>1
  <2>2. Len(Held) \in 0 .. 1 /\ Len(messages) \in Nat /\ Len(messages) <= MessageSize /\ MessageSize \in Nat
    BY TransitParts, BridgeAssumption
  <2>3. Len(Held) + Len(messages) < MessageSize + 2
    BY <2>2
  <2> QED BY <1>4, <2>1, <2>3
<1>6. Out' = Out
  BY <1>1 DEF Out
<1> QED BY <1>1, <1>4, <1>5, <1>6 DEF Channel!Accept, Out, w

\* A value that gets into the queue stays where it is in the channel.
LEMMA EnqueueUnseen ==
  ASSUME Inv, Enqueue("message")
  PROVE  ChannelUnchanged
<1> DEFINE w == written["message"]
<1>1. /\ bt = "message" /\ bt' = Idle /\ messages' = Append(messages, w)
      /\ UNCHANGED <<written, sender, published>>
  BY Enqueued DEF Enqueue, messages, Chars
<1>2. Entering = <<w>> /\ Entering' = <<>> /\ Held' = Held /\ w \in Nat
  BY <1>1, TransitParts DEF Entering, Idle, Held
<1> HIDE DEF w
<1>3. InTransit = (Held \o messages) \o <<w>>
  BY <1>2, TransitParts
<1>4. InTransit' = (Held' \o messages') \o Entering'
  BY DEF InTransit, Held, messages, Entering
<1>5. InTransit' = (Held \o Append(messages, w)) \o <<>>
  BY <1>1, <1>2, <1>4
<1>6. /\ Held \o Append(messages, w) = Append(Held \o messages, w)
      /\ (Held \o messages) \o <<w>> = Append(Held \o messages, w)
      /\ Append(Held \o messages, w) \in Seq(Nat)
  BY <1>2, TransitParts, AppendToJoin, AppendProperties
<1>7. InTransit' = InTransit
  BY <1>3, <1>5, <1>6, ConcatEmptySeq
<1> QED BY <1>1, <1>7 DEF ChannelUnchanged, Out

\* A value that finds the queue full is the newest in transit.
LEMMA DropTurnsAway ==
  ASSUME Inv, Drop("message")
  PROVE  Channel!TurnAway
<1> DEFINE w == written["message"]
           t == Held \o messages
<1>1. /\ bt = "message" /\ bt' = Idle /\ Len(messages) = MessageSize
      /\ UNCHANGED <<written, queue, sender, published>>
  BY DEF Drop, messages, Size
<1>2. Entering = <<w>> /\ Entering' = <<>> /\ w \in Nat
  BY <1>1, TransitParts DEF Entering, Idle
<1>3. InTransit' = t \o <<>>
  BY <1>1, <1>2 DEF InTransit, Held, messages, Entering
<1>4. /\ t \in Seq(Nat) /\ Len(t) = Len(Held) + MessageSize
      /\ InTransit = Append(t, w) /\ InTransit' = t
  BY <1>1, <1>2, <1>3, TransitParts, AppendToJoin
<1> HIDE DEF w, t
<1>5. Len(InTransit) > MessageSize
  BY <1>2, <1>4, AppendProperties, TransitParts, BridgeAssumption
<1>6. InTransit' = SubSeq(InTransit, 1, Len(InTransit) - 1)
  BY <1>2, <1>4, DropAppended
<1>7. written'["message"] = written["message"] /\ Out' = Out
  BY <1>1 DEF Out
<1> QED BY <1>5, <1>6, <1>7 DEF Channel!TurnAway, Out

\* Taking a message out of the queue leaves it in the channel.
LEMMA ReceiveUnseen ==
  ASSUME Inv, ReceiveMessage
  PROVE  ChannelUnchanged
<1> DEFINE m == Head(messages)
<1>1. /\ sender.pc = Idle /\ sender'.pc = "received" /\ sender'.msg = m
      /\ messages # <<>> /\ messages' = Tail(messages) /\ UNCHANGED <<written, bt, published>>
  <2>1. sender \in [pc : {Idle, "received", "publish"}, msg : 0 .. MaxMessages, topic : 0 .. MaxTopics]
    BY DEF Inv, TypeOK
  <2> QED BY <2>1, Dequeue DEF ReceiveMessage, messages, Chars, Inv
<1>2. Held = <<>> /\ Held' = <<m>> /\ Entering' = Entering
  BY <1>1 DEF Held, Idle, Entering
<1> HIDE DEF m
<1>3. Held \o messages = messages /\ Held' \o messages' = messages
  BY <1>1, <1>2, TransitParts, HeadThenTail DEF m
<1>4. InTransit' = (Held' \o messages') \o Entering'
  BY DEF InTransit, Held, messages, Entering
<1>5. InTransit' = InTransit
  BY <1>2, <1>3, <1>4, TransitParts
<1> QED BY <1>1, <1>5 DEF ChannelUnchanged, Out

LEMMA ReadPointerUnseen ==
  ASSUME Inv, ReadPointer
  PROVE  ChannelUnchanged
<1>1. /\ sender.pc = "received" /\ sender'.pc = "publish" /\ sender'.msg = sender.msg
      /\ UNCHANGED <<written, queue, bt, published>>
  BY DEF ReadPointer, Inv, TypeOK
<1>2. Held' = Held /\ Entering' = Entering
  BY <1>1 DEF Held, Entering, Idle
<1> QED BY <1>1, <1>2 DEF ChannelUnchanged, InTransit, Held, Entering, Out

\* The oldest message is delivered under the topic that was read, or is lost
\* if no topic was known and nothing has been delivered yet.
LEMMA PublishDelivers ==
  ASSUME Inv, Publish
  PROVE  Channel!LoseFirst \/ \E topic \in 1 .. MaxTopics : Channel!Deliver(topic)
<1> DEFINE m == sender.msg
           r == messages \o Entering
<1>1. /\ sender.pc = "publish" /\ sender'.pc = Idle /\ UNCHANGED <<written, queue, bt>>
      /\ published' = IF sender.topic = NULL THEN published
                      ELSE Append(published, Published(sender.topic \in filled))
  BY DEF Publish
<1>2. Held = <<m>> /\ Held' = <<>> /\ Entering' = Entering /\ messages' = messages
  BY <1>1 DEF Held, Idle, Entering, messages
<1>3. m \in Nat /\ Entering \in Seq(Nat) /\ r \in Seq(Nat)
  <2>1. Entering \in Seq(Nat)
    BY TransitParts DEF Entering
  <2> QED BY <2>1, TransitParts, ConcatProperties, BridgeAssumption DEF Inv, TypeOK
<1>4. InTransit = <<m>> \o r
  <2>1. <<m>> \in Seq(Nat) /\ messages \in Seq(Nat)
    BY <1>3, TransitParts
  <2>2. (<<m>> \o messages) \o Entering = <<m>> \o (messages \o Entering)
    BY <1>3, <2>1, ConcatAssociative
  <2>3. InTransit = (<<m>> \o messages) \o Entering
    BY <1>2, TransitParts
  <2> QED BY <2>2, <2>3
<1>5. InTransit' = r
  <2>1. InTransit' = (Held' \o messages') \o Entering'
    BY DEF InTransit, Held, messages, Entering
  <2> QED BY <1>2, <2>1, TransitParts, ConcatEmptySeq
<1> HIDE DEF r, m
<1>6. InTransit # <<>> /\ Head(InTransit) = m /\ InTransit' = Tail(InTransit)
  BY <1>3, <1>4, <1>5, HeadOfJoin
<1> DEFINE Messages == [msg : 1 .. MaxMessages, topic : 1 .. MaxTopics, complete : BOOLEAN]
<1>7. published \in Seq(Messages) /\ DOMAIN published = 1 .. Len(published) /\ Len(published) \in Nat
  BY LenProperties DEF Inv, TypeOK
<1>8. CASE sender.topic = NULL
  <2>1. published' = published
    BY <1>1, <1>8
  <2>2. ASSUME Out # <<>> PROVE FALSE
    <3>1. Len(published) # 0
      BY <2>2, <1>7 DEF Out
    <3>2. 1 \in 1 .. Len(published)
      BY <3>1, <1>7
    <3>3. published[1] \in Messages
      <4> HIDE DEF Messages
      <4> QED BY <1>7, <3>2, ElementOfSeq
    <3>4. published[1].topic \in 1 .. MaxTopics
      BY <3>3
    <3>5. published[1].topic <= sender.topic
      BY <1>1, <3>2 DEF Inv, SentUnderOlder
    <3> QED BY <1>8, <3>4, <3>5, BridgeAssumption DEF NULL
  <2>3. Out' = Out /\ Out = <<>>
    BY <2>1, <2>2 DEF Out
  <2> QED BY <1>1, <1>6, <2>3 DEF Channel!LoseFirst, Out
<1>9. CASE sender.topic # NULL
  <2> DEFINE e == Published(sender.topic \in filled)
             o == [msg |-> m, topic |-> sender.topic]
  <2>1. e \in Messages /\ e.topic = sender.topic /\ e.msg = m
    BY <1>1, <1>9 DEF Published, Inv, TypeOK, HoldsValue, NULL, Idle, m
  <2>2. published' = Append(published, e)
    BY <1>1, <1>9
  <2> HIDE DEF e, Messages
  <2>3. /\ published' \in Seq(Messages) /\ Len(published') = Len(published) + 1
        /\ \A n \in 1 .. Len(published) : published'[n] = published[n]
        /\ published'[Len(published) + 1] = e
        /\ DOMAIN published' = 1 .. Len(published')
    BY <1>7, <2>1, <2>2, AppendProperties, LenProperties
  <2>4. Out' = Append(Out, o)
    <3>1. Out' = [n \in 1 .. Len(published) + 1 |-> [msg |-> published'[n].msg, topic |-> published'[n].topic]]
      BY <2>3 DEF Out
    <3>2. Out = [n \in 1 .. Len(published) |-> [msg |-> published[n].msg, topic |-> published[n].topic]]
      BY <1>7 DEF Out
    <3>3. Len(Out) = Len(published)
      BY <1>7, <3>2
    <3>4. Append(Out, o) = [n \in 1 .. Len(Out) + 1 |-> IF n = Len(Out) + 1 THEN o ELSE Out[n]]
      BY <1>7, <3>2, <3>3
    <3> QED BY <1>7, <2>1, <2>3, <3>1, <3>2, <3>3, <3>4
  <2>5. Out # <<>> => Out[Len(Out)].topic <= sender.topic
    <3>1. Out = [n \in 1 .. Len(published) |-> [msg |-> published[n].msg, topic |-> published[n].topic]]
      BY <1>7 DEF Out
    <3>2. Len(Out) = Len(published)
      BY <1>7, <3>1
    <3>3. Out # <<>> => Len(published) \in 1 .. Len(published)
      BY <1>7, <3>1
    <3>4. \A n \in 1 .. Len(published) : published[n].topic <= sender.topic
      BY <1>1 DEF Inv, SentUnderOlder
    <3> QED BY <3>1, <3>2, <3>3, <3>4
  <2>6. sender.topic \in 1 .. MaxTopics
    BY <1>9 DEF Inv, TypeOK, NULL
  <2> QED BY <1>1, <1>6, <2>4, <2>5, <2>6 DEF Channel!Deliver, Out
<1> QED BY <1>8, <1>9

\* Every step of the bridge is a step of the channel or is not seen.
LEMMA ChannelNext ==
  Inv /\ [Next]_vars => [Channel!Next]_<<written["message"], InTransit, Out>>
<1> SUFFICES ASSUME Inv, [Next]_vars
             PROVE  Channel!Next \/ ChannelUnchanged
  BY DEF ChannelUnchanged
<1>1. ASSUME NEW c \in Chars, Write(c) \/ Enqueue(c) \/ Drop(c)
      PROVE  Channel!Next \/ ChannelUnchanged
  <2>1. CASE c = "message"
    BY <1>1, <2>1, WriteAccepts, EnqueueUnseen, DropTurnsAway DEF Channel!Next
  <2>2. CASE c # "message"
    <3>1. messages' = messages /\ written'["message"] = written["message"]
      BY <1>1, <2>2 DEF Write, Enqueue, Drop, messages, Inv, QueuePerChar, Chars
    <3>2. UNCHANGED <<sender, published>> /\ bt # "message" /\ bt' # "message"
      BY <1>1, <2>2 DEF Write, Enqueue, Drop, Idle
    <3> QED BY <3>1, <3>2, Unseen DEF Entering
  <2> QED BY <2>1, <2>2
<1>2. CASE Subscribe \/ ReceiveTopic \/ SwitchTopic \/ FillTopic
  <2>1. messages' = messages
    BY <1>2 DEF Subscribe, ReceiveTopic, SwitchTopic, FillTopic, messages, Inv, QueuePerChar, Chars
  <2>2. UNCHANGED <<written, bt, sender, published>>
    BY <1>2 DEF Subscribe, ReceiveTopic, SwitchTopic, FillTopic
  <2> QED BY <2>1, <2>2, Unseen DEF Entering
<1>3. CASE Publish
  BY <1>3, PublishDelivers DEF Channel!Next
<1>4. CASE UNCHANGED vars
  BY <1>4, Unseen DEF vars, messages, Entering
<1> QED
  BY <1>1, <1>2, <1>3, <1>4, ReceiveUnseen, ReadPointerUnseen, StepCases

\* Queues, tasks and the topic pointer implement one bounded channel, for every
\* size of the queues: the write event, mqtt_publish_topic and send_mqtt_mesage
\* against MessageChannel.
THEOREM BridgeImplementsChannel == Spec => ImplementsChannel
<1>1. Out = [n \in DOMAIN published |-> [msg |-> published[n].msg, topic |-> published[n].topic]]
  BY DEF Out
<1> QED BY ChannelInit, ChannelNext, SpecInv, PTL DEF Spec, ImplementsChannel, Channel!Spec, Out
=============================================================================
