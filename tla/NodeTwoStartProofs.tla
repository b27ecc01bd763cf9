------------------------ MODULE NodeTwoStartProofs -------------------------
(***************************************************************************)
(* Proofs about the Wi-Fi station of NodeTwo by itself, for every retry    *)
(* limit and queue size, and about the start-up of the chip around it.     *)
(* The station keeps its promises while the chip starts and resets.  For   *)
(* Bluetooth the one thing that travels is the start of advertising: it    *)
(* waits for two payloads, is asked for, is on the air or comes back as a  *)
(* disconnection, and is in one place at most, until the stack fails it.   *)
(***************************************************************************)
EXTENDS NodeTwoStart, SequenceTheorems, FiniteSetTheorems, TLAPS

-----------------------------------------------------------------------------
(* The Wi-Fi station *)

\* The events that make the handler act on an idle driver.
Wakes(e) == e \in {"STA_START", "STA_DISCONNECTED"}

\* The driver posts such an event when it becomes idle and stays idle until
\* the handler has taken it: it is the last one of the queue.
WakeIsLast ==
  \A k \in 1 .. Len(events) : Wakes(events[k]) => k = Len(events) /\ driver = "idle"

\* An idle driver has its event under way, or the handler has given up.
IdleIsAccounted ==
  (main # "starting" /\ driver = "idle") =>
    IF events = <<>> THEN "FAIL" \in bits ELSE Wakes(events[Len(events)])

\* Before esp_wifi_start nothing has happened.
StartIsClean == main = "starting" => driver = "idle" /\ events = <<>>

\* The counter of the code is the number of failures since the last address,
\* up to its limit.
RetryCounts ==
  s_retry_num = IF failures > EXAMPLE_ESP_MAXIMUM_RETRY
                THEN EXAMPLE_ESP_MAXIMUM_RETRY ELSE failures

Inv == TypeOK /\ WakeIsLast /\ IdleIsAccounted /\ StartIsClean /\ RetryCounts

\* A post adds one event at the end.
LEMMA PostAppends ==
  ASSUME NEW e \in Events, events \in Seq(Events), Post(e)
  PROVE  /\ events' \in Seq(Events)
         /\ events' # <<>>
         /\ Len(events') = Len(events) + 1
         /\ events'[Len(events')] = e
         /\ \A k \in 1 .. Len(events) : events'[k] = events[k]
BY DEF Post

\* Taking an event shifts the others.
LEMMA TakeShifts ==
  ASSUME NEW e \in Events, events \in Seq(Events), Take(e)
  PROVE  /\ events' \in Seq(Events)
         /\ events # <<>> /\ events[1] = e
         /\ Len(events') = Len(events) - 1
         /\ \A k \in 1 .. Len(events') : events'[k] = events[k + 1]
         /\ events' = <<>> <=> Len(events) = 1
<1>1. events # <<>> /\ Head(events) = e /\ events' = Tail(events)
  BY DEF Take
<1>2. Len(events) \in Nat /\ Len(events) > 0 /\ events[1] = e
  BY <1>1
<1>3. /\ events' \in Seq(Events) /\ Len(events') = Len(events) - 1
      /\ \A k \in 1 .. Len(events') : events'[k] = events[k + 1]
  BY <1>1, <1>2
<1>4. events' = <<>> <=> Len(events') = 0
  BY <1>3
<1> QED
  BY <1>1, <1>2, <1>3, <1>4

\* The program starts in the invariant.
LEMMA InitInv == Init => Inv
<1> SUFFICES ASSUME Init PROVE Inv
  OBVIOUS
<1>1. TypeOK
  BY RetryAssumption DEF Init, TypeOK, Bits
<1>2. WakeIsLast /\ IdleIsAccounted /\ StartIsClean /\ RetryCounts
  BY RetryAssumption DEF Init, WakeIsLast, IdleIsAccounted, StartIsClean, RetryCounts
<1> QED
  BY <1>1, <1>2 DEF Inv

\* A driver at work has no event under way that would act on an idle one, and
\* taking one from an idle driver empties the queue.
LEMMA TakeWake ==
  ASSUME Inv, NEW e \in Events, Wakes(e), Take(e)
  PROVE  driver = "idle" /\ events' = <<>>
<1>1. events[1] = e /\ events # <<>> /\ events \in Seq(Events)
  BY TakeShifts DEF Inv, TypeOK
<1>2. Len(events) \in Nat /\ 1 \in 1 .. Len(events)
  BY <1>1
<1>3. Len(events) = 1 /\ driver = "idle"
  BY <1>1, <1>2 DEF Inv, WakeIsLast
<1> QED
  BY <1>3, TakeShifts DEF Inv, TypeOK

\* No step leaves the invariant.
LEMMA NextInv == Inv /\ [Next]_vars => Inv'
<1> SUFFICES ASSUME Inv, [Next]_vars PROVE Inv'
  OBVIOUS
<1> USE RetryAssumption DEF Inv
<1>1. CASE wifi_start
  <2>1. events = <<>> /\ driver = "idle" /\ driver' = driver
    BY <1>1 DEF wifi_start, StartIsClean
  <2>2. events' = <<"STA_START">>
    BY <1>1, <2>1 DEF wifi_start, Post
  <2>3. TypeOK'
    BY <1>1, <2>2 DEF wifi_start, TypeOK, Events
  <2>4. WakeIsLast' /\ IdleIsAccounted'
    BY <2>1, <2>2 DEF WakeIsLast, IdleIsAccounted, Wakes
  <2>5. StartIsClean' /\ RetryCounts'
    BY <1>1 DEF wifi_start, StartIsClean, RetryCounts
  <2> QED
    BY <2>3, <2>4, <2>5
<1>2. CASE WaitBits
  BY <1>2 DEF WaitBits, TypeOK, WakeIsLast, IdleIsAccounted, StartIsClean, RetryCounts
<1>3. CASE Associate
  BY <1>3 DEF Associate, TypeOK, WakeIsLast, IdleIsAccounted, StartIsClean, RetryCounts
<1>4. CASE ObtainIp
  <2> DEFINE e == "STA_GOT_IP"
  <2>1. Post(e) /\ e \in Events /\ events \in Seq(Events)
    BY <1>4 DEF ObtainIp, Events, TypeOK
  <2> HIDE DEF e
  <2>2. /\ events' \in Seq(Events) /\ events' # <<>>
        /\ Len(events') = Len(events) + 1 /\ events'[Len(events')] = e
        /\ \A k \in 1 .. Len(events) : events'[k] = events[k]
    BY <2>1, PostAppends
  <2>3. ~Wakes(e)
    BY DEF e, Wakes
  <2>4. driver = "associated" /\ driver' = "up" /\ UNCHANGED <<main, s_retry_num, bits, failures>>
    BY <1>4 DEF ObtainIp
  <2>5. TypeOK'
    BY <2>2, <2>4 DEF TypeOK
  <2>6. WakeIsLast'
    BY <2>2, <2>3, <2>4 DEF WakeIsLast, TypeOK
  <2>7. IdleIsAccounted' /\ StartIsClean' /\ RetryCounts'
    BY <2>4 DEF IdleIsAccounted, StartIsClean, RetryCounts
  <2> QED
    BY <2>5, <2>6, <2>7
<1>5. CASE Disconnect
  <2> DEFINE e == "STA_DISCONNECTED"
  <2>1. Post(e) /\ e \in Events /\ events \in Seq(Events)
    BY <1>5 DEF Disconnect, Events, TypeOK
  <2> HIDE DEF e
  <2>2. /\ events' \in Seq(Events) /\ events' # <<>>
        /\ Len(events') = Len(events) + 1 /\ events'[Len(events')] = e
        /\ \A k \in 1 .. Len(events) : events'[k] = events[k]
    BY <2>1, PostAppends
  <2>3. Wakes(e)
    BY DEF e, Wakes
  <2>4. driver # "idle" /\ driver' = "idle" /\ UNCHANGED <<main, s_retry_num, bits, failures>>
    BY <1>5 DEF Disconnect
  <2>5. TypeOK'
    BY <2>2, <2>4 DEF TypeOK
  <2>6. WakeIsLast'
    BY <2>2, <2>4 DEF WakeIsLast, TypeOK
  <2>7. IdleIsAccounted' /\ StartIsClean' /\ RetryCounts'
    BY <2>2, <2>3, <2>4 DEF IdleIsAccounted, StartIsClean, RetryCounts
  <2> QED
    BY <2>5, <2>6, <2>7
<1>6. CASE LoseIp
  BY <1>6 DEF LoseIp, TypeOK, WakeIsLast, IdleIsAccounted, StartIsClean, RetryCounts
<1>7. CASE OnStart
  <2>1. driver = "idle" /\ events' = <<>>
    BY <1>7, TakeWake DEF OnStart, Events, Wakes
  <2>2. driver' = "connecting" /\ main # "starting" /\ UNCHANGED <<main, s_retry_num, bits, failures>>
    BY <1>7, <2>1 DEF OnStart, Take, esp_wifi_connect, StartIsClean
  <2> QED
    BY <2>1, <2>2 DEF TypeOK, WakeIsLast, IdleIsAccounted, StartIsClean, RetryCounts
<1>8. CASE Retry
  <2>1. driver = "idle" /\ events' = <<>>
    BY <1>8, TakeWake DEF Retry, Events, Wakes
  <2>2. driver' = "connecting" /\ main # "starting" /\ UNCHANGED <<main, bits>>
    BY <1>8, <2>1 DEF Retry, Take, esp_wifi_connect, StartIsClean
  <2>3. /\ s_retry_num < EXAMPLE_ESP_MAXIMUM_RETRY /\ s_retry_num' = s_retry_num + 1
        /\ failures' = failures + 1
    BY <1>8 DEF Retry, CountFailure, RetryCounts, TypeOK
  <2>4. TypeOK' /\ RetryCounts'
    BY <2>1, <2>2, <2>3 DEF TypeOK, RetryCounts
  <2> QED
    BY <2>1, <2>2, <2>4 DEF WakeIsLast, IdleIsAccounted, StartIsClean
<1>9. CASE GiveUp
  <2>1. driver = "idle" /\ events' = <<>>
    BY <1>9, TakeWake DEF GiveUp, Events, Wakes
  <2>2. /\ driver' = driver /\ main # "starting" /\ UNCHANGED <<main, s_retry_num>>
        /\ bits' = bits \cup {"FAIL"}
    BY <1>9 DEF GiveUp, Take, StartIsClean
  <2>3. failures' = EXAMPLE_ESP_MAXIMUM_RETRY + 1 /\ s_retry_num = EXAMPLE_ESP_MAXIMUM_RETRY
    BY <1>9 DEF GiveUp, CountFailure, RetryCounts, TypeOK
  <2>4. TypeOK' /\ RetryCounts'
    BY <2>1, <2>2, <2>3 DEF TypeOK, RetryCounts, Bits
  <2> QED
    BY <2>1, <2>2, <2>4 DEF WakeIsLast, IdleIsAccounted, StartIsClean
<1>10. CASE OnGotIp
  <2> DEFINE e == "STA_GOT_IP"
  <2>1. Take(e) /\ e \in Events /\ events \in Seq(Events)
    BY <1>10 DEF OnGotIp, Events, TypeOK
  <2>0. ~Wakes(e)
    BY DEF Wakes
  <2> HIDE DEF e
  <2>2. /\ events' \in Seq(Events) /\ events # <<>> /\ events[1] = e
        /\ Len(events') = Len(events) - 1
        /\ \A k \in 1 .. Len(events') : events'[k] = events[k + 1]
        /\ events' = <<>> <=> Len(events) = 1
    BY <2>1, TakeShifts
  <2>3. /\ driver' = driver /\ main' = main /\ main # "starting"
        /\ s_retry_num' = 0 /\ failures' = 0 /\ bits' = bits \cup {"CONNECTED"}
    BY <1>10, <2>2 DEF OnGotIp, Take, StartIsClean
  <2>4. TypeOK' /\ RetryCounts'
    BY <2>2, <2>3 DEF TypeOK, RetryCounts, Bits
  <2>5. WakeIsLast'
    BY <2>2, <2>3 DEF WakeIsLast, TypeOK
  <2>6. IdleIsAccounted'
    <3>1. CASE driver # "idle"
      BY <2>3, <3>1 DEF IdleIsAccounted
    <3>2. CASE driver = "idle"
      <4>1. Wakes(events[Len(events)]) /\ Len(events) \in Nat
        BY <2>1, <2>2, <2>3, <3>2 DEF IdleIsAccounted
      <4>2. Len(events) # 1
        BY <2>0, <2>2, <4>1
      <4>3. events' # <<>> /\ events'[Len(events')] = events[Len(events)]
        BY <2>2, <4>1, <4>2
      <4> QED
        BY <4>1, <4>3 DEF IdleIsAccounted
    <3> QED
      BY <3>1, <3>2
  <2>7. StartIsClean'
    BY <2>3 DEF StartIsClean
  <2> QED
    BY <2>4, <2>5, <2>6, <2>7
<1>11. CASE UNCHANGED vars
  BY <1>11 DEF vars, TypeOK, WakeIsLast, IdleIsAccounted, StartIsClean, RetryCounts
<1> QED
  BY <1>1, <1>2, <1>3, <1>4, <1>5, <1>6, <1>7, <1>8, <1>9, <1>10, <1>11
     DEF Next, event_handler

LEMMA SpecInv == Spec => []Inv
BY InitInv, NextInv, PTL DEF Spec

\* Type correctness, in particular the bound on the retry counter.
THEOREM WifiTypeCorrect == Spec => []TypeOK
<1>1. Inv => TypeOK
  BY DEF Inv
<1> QED
  BY <1>1, SpecInv, PTL

\* The handler never leaves the station offline in silence.
THEOREM WifiNeverStranded == Spec => []NeverStranded
<1>1. Inv => NeverStranded
  BY DEF Inv, IdleIsAccounted, NeverStranded, Offline
<1> QED
  BY <1>1, SpecInv, PTL

\* What a step that sets WIFI_FAIL_BIT has seen.
Earned ==
  ("FAIL" \notin bits /\ "FAIL" \in bits') => failures' = EXAMPLE_ESP_MAXIMUM_RETRY + 1

LEMMA FailIsEarnedStep == Inv /\ [Next]_vars => [Earned]_vars
<1> SUFFICES ASSUME Inv, Next PROVE Earned
  BY DEF vars
<1> USE DEF Earned
<1>1. CASE GiveUp
  BY <1>1, RetryAssumption DEF GiveUp, CountFailure, Inv, RetryCounts, TypeOK
<1>2. CASE OnGotIp
  BY <1>2 DEF OnGotIp
<1>3. CASE bits' = bits
  BY <1>3
<1> QED
  BY <1>1, <1>2, <1>3 DEF Next, event_handler, wifi_start, WaitBits, Associate,
     ObtainIp, Disconnect, LoseIp, OnStart, Retry

\* WIFI_FAIL_BIT is set only after the whole budget of attempts has failed.
THEOREM WifiFailIsEarned == Spec => FailIsEarned
<1>1. Inv /\ [Next]_vars => [Earned]_vars
  BY FailIsEarnedStep
<1> QED
  BY <1>1, SpecInv, PTL DEF Spec, FailIsEarned, Earned

-----------------------------------------------------------------------------
(* The invariants of the start-up *)

Requests == {"REG", "ATTR_TAB", "ADV_START", "SERVICE"} \cup Payloads
EventType == [kind : Kinds, ok : BOOLEAN]

Asked(r) == \E n \in DOMAIN requests : requests[n] = r
Told(k)  == \E n \in DOMAIN btc : btc[n].kind = k
Pending(r) == Asked(r) \/ Told(r)

\* The types, without what is said of starts of advertising.
NodeTypes ==
  /\ boot \in 0 .. Len(Calls)
  /\ made \subseteq {Calls[n] : n \in 1 .. boot}
  /\ requests \in Seq(Requests)
  /\ btc \in Seq(EventType)
  /\ adv_config_done \subseteq Payloads
  /\ payload \subseteq Payloads
  /\ radio \in {"off", "advertising", "connected"}
  /\ served \in BOOLEAN
  /\ logged \in BOOLEAN
  /\ ignored \subseteq Unread \cup {"ADV_START"}
  /\ resets \in 0 .. MaxResets

\* Requests and events that occur once at most.
SingleRequests ==
  \A i, j \in DOMAIN requests :
    requests[i] = requests[j] /\ requests[i] \in Payloads \cup {"ADV_START"} => i = j
SingleEvents ==
  \A i, j \in DOMAIN btc :
    btc[i].kind = btc[j].kind /\ btc[i].kind \in Payloads \cup {"DISCONNECT"} => i = j
NotBoth == \A p \in Payloads : ~(Asked(p) /\ Told(p))

\* Before ble_gatt_init there is no Bluetooth, and until the registration has
\* been handled there is nothing else.
BeforeBle ==
  <<"ble">> \notin made =>
    requests = <<>> /\ btc = <<>> /\ adv_config_done = {} /\ radio = "off" /\ ~served
Registering ==
  Pending("REG") =>
    /\ Len(requests) + Len(btc) = 1 /\ \A k \in Kinds : Pending(k) => k = "REG"
    /\ adv_config_done = {} /\ radio = "off" /\ ~served

\* A payload under way has its flag, and one that was answered is with the
\* stack or was not looked at.
FlagsKept ==
  \A p \in Payloads :
    /\ Pending(p) => p \in adv_config_done
    /\ Told(p) => p \in payload \cup ignored
    /\ adv_config_done # {} /\ p \notin adv_config_done => p \in payload \cup ignored
    /\ p \in adv_config_done => logged \/ Pending(p)

\* A start of advertising that was asked for, has succeeded or has ended.
Started == Asked("ADV_START") \/ Told("DISCONNECT") \/ radio # "off"

StartedWhole == Started => adv_config_done = {} /\ Payloads \subseteq payload \cup ignored

\* A start refused unseen is the last one.
RefusalFinal ==
  "ADV_START" \in ignored =>
    ~Started /\ adv_config_done = {} /\ ~Pending("REG") /\ <<"ble">> \in made
OneStart ==
  /\ ~(Asked("ADV_START") /\ Told("DISCONNECT"))
  /\ radio # "off" => ~Asked("ADV_START") /\ ~Told("DISCONNECT")

Failed(k) == \E n \in DOMAIN btc : btc[n].kind = k /\ ~btc[n].ok

\* The start of advertising and the service are somewhere, or have failed.
StartAccounted ==
  <<"ble">> \in made =>
    logged \/ Pending("REG") \/ adv_config_done # {} \/ Started \/ Failed("ADV_START")
    \/ "ADV_START" \in ignored
ServiceAccounted ==
  <<"ble">> \in made =>
    logged \/ served \/ Pending("REG") \/ Pending("ATTR_TAB") \/ Asked("SERVICE")
    \/ "SERVICE" \in ignored

\* A call that failed was logged, and a write to a missing queue is possible
\* only before the last reset (the bounds of Fail and Phone).
FailuresLogged ==
  \A n \in 1 .. boot : Calls[n] \notin made => logged /\ resets < MaxResets
WritesBounded ==
  \A c \in Chars : Told(c) => Queue(c) \in made \/ resets < MaxResets

NodeInv ==
  /\ NodeTypes /\ SingleRequests /\ SingleEvents /\ NotBoth
  /\ BeforeBle /\ Registering /\ FlagsKept /\ StartedWhole /\ OneStart
  /\ RefusalFinal /\ StartAccounted /\ ServiceAccounted /\ FailuresLogged /\ WritesBounded

-----------------------------------------------------------------------------
(* Requests and events *)

LEMMA Appending ==
  ASSUME NEW S, NEW s \in Seq(S), NEW e \in S
  PROVE  /\ Append(s, e) \in Seq(S) /\ Len(Append(s, e)) = Len(s) + 1 /\ Len(s) \in Nat
         /\ DOMAIN Append(s, e) = DOMAIN s \cup {Len(s) + 1} /\ Len(s) + 1 \notin DOMAIN s
         /\ \A n \in DOMAIN s : Append(s, e)[n] = s[n]
         /\ Append(s, e)[Len(s) + 1] = e
<1>1. /\ Append(s, e) \in Seq(S) /\ Len(Append(s, e)) = Len(s) + 1
      /\ \A n \in 1 .. Len(s) : Append(s, e)[n] = s[n]
      /\ Append(s, e)[Len(s) + 1] = e
  BY AppendProperties
<1>2. DOMAIN s = 1 .. Len(s) /\ Len(s) \in Nat
  BY LenProperties
<1>3. DOMAIN Append(s, e) = 1 .. Len(s) + 1
  BY <1>1, LenProperties
<1> QED BY <1>1, <1>2, <1>3

LEMMA Shifting ==
  ASSUME NEW S, NEW s \in Seq(S), s # <<>>
  PROVE  /\ Tail(s) \in Seq(S) /\ Len(Tail(s)) = Len(s) - 1 /\ Len(s) \in Nat \ {0}
         /\ 1 \in DOMAIN s /\ Head(s) = s[1] /\ s[1] \in S
         /\ \A n \in DOMAIN Tail(s) : n \in Nat /\ n + 1 \in DOMAIN s /\ Tail(s)[n] = s[n + 1] /\ n + 1 # 1
         /\ \A n \in DOMAIN s : n # 1 => n - 1 \in DOMAIN Tail(s) /\ Tail(s)[n - 1] = s[n]
<1>1. /\ Tail(s) \in Seq(S) /\ Len(Tail(s)) = Len(s) - 1
      /\ Head(s) = s[1] /\ \A n \in 1 .. Len(Tail(s)) : Tail(s)[n] = s[n + 1]
  BY HeadTailProperties
<1>2. DOMAIN s = 1 .. Len(s) /\ Len(s) \in Nat /\ Len(s) # 0
  BY LenProperties, EmptySeq
<1>3. DOMAIN Tail(s) = 1 .. Len(s) - 1
  BY <1>1, LenProperties
<1>4. s[1] \in S
  BY <1>2, ElementOfSeq
<1> QED BY <1>1, <1>2, <1>3, <1>4

LEMMA AskedOne ==
  ASSUME requests \in Seq(Requests), NEW r \in Requests, requests' = Append(requests, r)
  PROVE  /\ requests' \in Seq(Requests) /\ Len(requests') = Len(requests) + 1
         /\ \A q : Asked(q)' <=> Asked(q) \/ q = r
         /\ (SingleRequests /\ (~Asked(r) \/ r \notin Payloads \cup {"ADV_START"})) => SingleRequests'
<1>1. /\ requests' \in Seq(Requests) /\ Len(requests') = Len(requests) + 1
      /\ DOMAIN requests' = DOMAIN requests \cup {Len(requests) + 1}
      /\ \A n \in DOMAIN requests : requests'[n] = requests[n]
      /\ requests'[Len(requests) + 1] = r /\ Len(requests) + 1 \notin DOMAIN requests
  BY Appending
<1>2. \A q : Asked(q)' <=> Asked(q) \/ q = r
  BY <1>1 DEF Asked
<1>3. (SingleRequests /\ (~Asked(r) \/ r \notin Payloads \cup {"ADV_START"})) => SingleRequests'
  <2> SUFFICES ASSUME SingleRequests, ~Asked(r) \/ r \notin Payloads \cup {"ADV_START"},
                      NEW i \in DOMAIN requests', NEW j \in DOMAIN requests',
                      requests'[i] = requests'[j], requests'[i] \in Payloads \cup {"ADV_START"}
               PROVE  i = j
    BY DEF SingleRequests
  <2>1. ASSUME NEW k \in DOMAIN requests, requests[k] = r, r \in Payloads \cup {"ADV_START"} PROVE FALSE
    BY <2>1 DEF Asked
  <2>2. CASE i \in DOMAIN requests /\ j \in DOMAIN requests
    BY <1>1, <2>2 DEF SingleRequests
  <2>3. CASE i \notin DOMAIN requests \/ j \notin DOMAIN requests
    BY <1>1, <2>1, <2>3
  <2> QED BY <2>2, <2>3
<1> QED BY <1>1, <1>2, <1>3

\* A request whose result is not looked at is taken, or refused unseen.
LEMMA AskedOrRefused ==
  ASSUME requests \in Seq(Requests), NEW r \in Requests, AskUnchecked(r)
  PROVE  \/ requests' = Append(requests, r) /\ ignored' = ignored
         \/ requests' = requests /\ ignored' = ignored \cup {r}
<1>1. Len(Append(requests, r)) = Len(requests) + 1 /\ Len(requests) \in Nat
  BY Appending
<1>2. Append(requests, r) # requests
  BY <1>1
<1> QED BY <1>2 DEF AskUnchecked, Ask

LEMMA AnsweredOne ==
  ASSUME requests \in Seq(Requests), requests # <<>>, requests' = Tail(requests),
         NEW r, r = Head(requests)
  PROVE  /\ requests' \in Seq(Requests) /\ Len(requests') = Len(requests) - 1
         /\ Len(requests) \in Nat \ {0}
         /\ r \in Requests /\ Asked(r)
         /\ \A q : /\ Asked(q)' => Asked(q)
                   /\ Asked(q) => Asked(q)' \/ q = r
         /\ SingleRequests => SingleRequests'
         /\ SingleRequests /\ r \in Payloads \cup {"ADV_START"} => ~Asked(r)'
<1>1. /\ requests' \in Seq(Requests) /\ Len(requests') = Len(requests) - 1 /\ Len(requests) \in Nat \ {0}
      /\ 1 \in DOMAIN requests /\ Head(requests) = requests[1] /\ requests[1] \in Requests
      /\ \A n \in DOMAIN requests' : /\ n \in Nat /\ n + 1 \in DOMAIN requests
                                     /\ requests'[n] = requests[n + 1] /\ n + 1 # 1
      /\ \A n \in DOMAIN requests : n # 1 => n - 1 \in DOMAIN requests' /\ requests'[n - 1] = requests[n]
  BY Shifting
<1>2. \A q : (Asked(q)' => Asked(q)) /\ (Asked(q) => Asked(q)' \/ q = r)
  <2>1. r = requests[1]
    BY <1>1
  <2>2. ASSUME NEW q, Asked(q)' PROVE Asked(q)
    BY <1>1, <2>2 DEF Asked
  <2>3. ASSUME NEW q, Asked(q), q # r PROVE Asked(q)'
    <3>1. PICK n \in DOMAIN requests : requests[n] = q
      BY <2>3 DEF Asked
    <3>2. n # 1
      BY <2>1, <2>3, <3>1
    <3>3. n - 1 \in DOMAIN requests' /\ requests'[n - 1] = q
      BY <1>1, <3>1, <3>2
    <3> QED BY <3>3 DEF Asked
  <2> QED BY <2>2, <2>3
<1>3. SingleRequests => SingleRequests'
  <2> SUFFICES ASSUME SingleRequests, NEW i \in DOMAIN requests', NEW j \in DOMAIN requests',
                      requests'[i] = requests'[j], requests'[i] \in Payloads \cup {"ADV_START"}
               PROVE  i = j
    BY DEF SingleRequests
  <2>1. i \in Nat /\ j \in Nat /\ i + 1 = j + 1
    BY <1>1 DEF SingleRequests
  <2> QED BY <2>1
<1>4. SingleRequests /\ r \in Payloads \cup {"ADV_START"} => ~Asked(r)'
  BY <1>1 DEF SingleRequests, Asked
<1>5. Asked(r) /\ r \in Requests
  BY <1>1 DEF Asked
<1> QED BY <1>1, <1>2, <1>3, <1>4, <1>5

\* The same for events.
LEMMA ToldOne ==
  ASSUME btc \in Seq(EventType), NEW e \in EventType, Deliver(e)
  PROVE  /\ btc' \in Seq(EventType) /\ Len(btc') = Len(btc) + 1
         /\ \A k : Told(k)' <=> Told(k) \/ k = e.kind
         /\ \A k : Failed(k)' <=> Failed(k) \/ (k = e.kind /\ ~e.ok)
         /\ (SingleEvents /\ (~Told(e.kind) \/ e.kind \notin Payloads \cup {"DISCONNECT"})) => SingleEvents'
<1>1. /\ btc' \in Seq(EventType) /\ Len(btc') = Len(btc) + 1
      /\ DOMAIN btc' = DOMAIN btc \cup {Len(btc) + 1}
      /\ \A n \in DOMAIN btc : btc'[n] = btc[n]
      /\ btc'[Len(btc) + 1] = e /\ Len(btc) + 1 \notin DOMAIN btc
  BY Appending DEF Deliver
<1>2. \A k : Told(k)' <=> Told(k) \/ k = e.kind
  BY <1>1 DEF Told
<1>3. \A k : Failed(k)' <=> Failed(k) \/ (k = e.kind /\ ~e.ok)
  BY <1>1 DEF Failed
<1>4. (SingleEvents /\ (~Told(e.kind) \/ e.kind \notin Payloads \cup {"DISCONNECT"})) => SingleEvents'
  <2> SUFFICES ASSUME SingleEvents, ~Told(e.kind) \/ e.kind \notin Payloads \cup {"DISCONNECT"},
                      NEW i \in DOMAIN btc', NEW j \in DOMAIN btc',
                      btc'[i].kind = btc'[j].kind, btc'[i].kind \in Payloads \cup {"DISCONNECT"}
               PROVE  i = j
    BY DEF SingleEvents
  <2>1. ASSUME NEW k \in DOMAIN btc, btc[k].kind = e.kind, e.kind \in Payloads \cup {"DISCONNECT"} PROVE FALSE
    BY <2>1 DEF Told
  <2>2. CASE i \in DOMAIN btc /\ j \in DOMAIN btc
    BY <1>1, <2>2 DEF SingleEvents
  <2>3. CASE i \notin DOMAIN btc \/ j \notin DOMAIN btc
    BY <1>1, <2>1, <2>3
  <2> QED BY <2>2, <2>3
<1> QED BY <1>1, <1>2, <1>3, <1>4

LEMMA HandledOne ==
  ASSUME btc \in Seq(EventType), NEW k, On(k)
  PROVE  /\ btc' \in Seq(EventType) /\ Len(btc') = Len(btc) - 1 /\ Len(btc) \in Nat \ {0}
         /\ Told(k) /\ Head(btc) \in EventType /\ Head(btc).kind = k
         /\ \A q : /\ Told(q)' => Told(q)
                   /\ Told(q) => Told(q)' \/ q = k
         /\ \A q : Failed(q) => Failed(q)' \/ (q = k /\ ~Head(btc).ok)
         /\ SingleEvents => SingleEvents'
         /\ SingleEvents /\ k \in Payloads \cup {"DISCONNECT"} => ~Told(k)'
<1>1. /\ btc' \in Seq(EventType) /\ Len(btc') = Len(btc) - 1 /\ Len(btc) \in Nat \ {0}
      /\ 1 \in DOMAIN btc /\ Head(btc) = btc[1] /\ btc[1] \in EventType /\ btc[1].kind = k
      /\ \A n \in DOMAIN btc' : n \in Nat /\ n + 1 \in DOMAIN btc /\ btc'[n] = btc[n + 1] /\ n + 1 # 1
      /\ \A n \in DOMAIN btc : n # 1 => n - 1 \in DOMAIN btc' /\ btc'[n - 1] = btc[n]
  BY Shifting DEF On
<1>2. \A q : (Told(q)' => Told(q)) /\ (Told(q) => Told(q)' \/ q = k)
  <2>1. ASSUME NEW q, Told(q)' PROVE Told(q)
    BY <1>1, <2>1 DEF Told
  <2>2. ASSUME NEW q, Told(q), q # k PROVE Told(q)'
    <3>1. PICK n \in DOMAIN btc : btc[n].kind = q
      BY <2>2 DEF Told
    <3>2. n # 1
      BY <1>1, <2>2, <3>1
    <3>3. n - 1 \in DOMAIN btc' /\ btc'[n - 1].kind = q
      BY <1>1, <3>1, <3>2
    <3> QED BY <3>3 DEF Told
  <2> QED BY <2>1, <2>2
<1>3. \A q : Failed(q) => Failed(q)' \/ (q = k /\ ~Head(btc).ok)
  BY <1>1 DEF Failed
<1>4. SingleEvents => SingleEvents'
  <2> SUFFICES ASSUME SingleEvents, NEW i \in DOMAIN btc', NEW j \in DOMAIN btc',
                      btc'[i].kind = btc'[j].kind, btc'[i].kind \in Payloads \cup {"DISCONNECT"}
               PROVE  i = j
    BY DEF SingleEvents
  <2>1. i \in Nat /\ j \in Nat /\ i + 1 = j + 1
    BY <1>1 DEF SingleEvents
  <2> QED BY <2>1
<1>5. SingleEvents /\ k \in Payloads \cup {"DISCONNECT"} => ~Told(k)'
  BY <1>1 DEF SingleEvents, Told
<1>6. Told(k)
  BY <1>1 DEF Told
<1> QED BY <1>1, <1>2, <1>3, <1>4, <1>5, <1>6

\* Nothing asked and nothing told changes with the sequences.
LEMMA NothingAsked ==
  ASSUME requests' = requests
  PROVE  (\A q : Asked(q)' <=> Asked(q)) /\ (SingleRequests => SingleRequests')
BY DEF Asked, SingleRequests

LEMMA NothingTold ==
  ASSUME btc' = btc
  PROVE  /\ \A q : Told(q)' <=> Told(q)
         /\ \A q : Failed(q)' <=> Failed(q)
         /\ SingleEvents => SingleEvents'
BY DEF Told, Failed, SingleEvents

LEMMA Silence ==
  /\ requests = <<>> => (\A q : ~Asked(q)) /\ SingleRequests /\ Len(requests) = 0
  /\ btc = <<>> => (\A q : ~Told(q) /\ ~Failed(q)) /\ SingleEvents /\ Len(btc) = 0
BY EmptySeq DEF Asked, Told, Failed, SingleRequests, SingleEvents

-----------------------------------------------------------------------------
(* The calls of app_main *)

LEMMA CallsAre ==
  /\ Len(Calls) = 11
  /\ Calls[1] = <<"mqtt">> /\ Calls[2] = <<"ble">> /\ Calls[3] = <<"led">> /\ Calls[4] = <<"servo">>
  /\ Calls[5] = Queue("subscribe") /\ Calls[6] = Task("subscribe")
  /\ Calls[7] = Queue("publish") /\ Calls[8] = Task("publish")
  /\ Calls[9] = Queue("message") /\ Calls[10] = Task("message") /\ Calls[11] = Task("door")
BY DEF Calls

\* ble_gatt_init is the second call, and a task is created after its queue.
LEMMA CallOrder ==
  /\ \A n \in 1 .. 11 : Calls[n] = <<"ble">> => n = 2
  /\ \A n \in 1 .. 11, c \in Chars : Calls[n] = Task(c) => n - 1 \in 1 .. 11 /\ Calls[n - 1] = Queue(c)
  /\ \A c \in Chars : \E n \in 1 .. 11 : Calls[n] = Queue(c)
<1> DEFINE kind(n) == CASE n = 1 -> "mqtt" [] n = 2 -> "ble" [] n = 3 -> "led" [] n = 4 -> "servo"
                        [] n \in {5, 7, 9} -> "queue" [] OTHER -> "task"
<1>1. \A n \in 1 .. 11 : Calls[n][1] = kind(n)
  BY CallsAre DEF Queue, Task
<1>2. \A n \in 1 .. 11 : Calls[n] = <<"ble">> => n = 2
  BY <1>1
<1>3. ASSUME NEW n \in 1 .. 11, NEW c \in Chars, Calls[n] = Task(c)
      PROVE  n - 1 \in 1 .. 11 /\ Calls[n - 1] = Queue(c)
  <2>1. n \in {6, 8, 10, 11}
    BY <1>1, <1>3 DEF Task
  <2>2. Calls[n][2] = c
    BY <1>3 DEF Task
  <2> QED BY <2>1, <2>2, CallsAre DEF Chars, Task, Queue
<1>4. \A c \in Chars : \E n \in 1 .. 11 : Calls[n] = Queue(c)
  BY CallsAre DEF Chars
<1> QED BY <1>2, <1>3, <1>4

LEMMA NodeInitInv == StartInit => NodeInv
<1> SUFFICES ASSUME StartInit PROVE NodeInv
  OBVIOUS
<1>1. /\ boot = 0 /\ made = {} /\ requests = <<>> /\ btc = <<>> /\ adv_config_done = {} /\ payload = {}
      /\ radio = "off" /\ served = FALSE /\ logged = FALSE /\ ignored = {} /\ resets = 0
  BY DEF StartInit, NodeInit
<1>2. NodeTypes
  <2>1. boot \in 0 .. Len(Calls) /\ resets \in 0 .. MaxResets
    BY <1>1, StartAssumption, CallsAre
  <2>2. requests \in Seq(Requests) /\ btc \in Seq(EventType)
    BY <1>1
  <2> QED BY <1>1, <2>1, <2>2 DEF NodeTypes
<1>3. /\ SingleRequests /\ SingleEvents /\ \A q : ~Asked(q) /\ ~Told(q)
  BY <1>1, Silence
<1> QED BY <1>1, <1>2, <1>3 DEF NodeInv, NotBoth, BeforeBle, Registering, Pending, FlagsKept,
        StartedWhole, OneStart, RefusalFinal, Started, StartAccounted, ServiceAccounted, FailuresLogged, WritesBounded

-----------------------------------------------------------------------------
(* One lemma for each step *)

\* A reset brings everything back to the beginning.
LEMMA ResetInv ==
  ASSUME NodeInv, Reset, resets < MaxResets
  PROVE  NodeInv'
<1>1. /\ boot' = 0 /\ made' = {} /\ requests' = <<>> /\ btc' = <<>> /\ adv_config_done' = {} /\ payload' = {}
      /\ radio' = "off" /\ served' = FALSE /\ logged' = FALSE /\ ignored' = {} /\ resets' = resets + 1
  BY DEF Reset
<1>2. NodeTypes'
  <2>1. boot' \in 0 .. Len(Calls) /\ resets' \in 0 .. MaxResets
    BY <1>1, StartAssumption, CallsAre DEF NodeInv, NodeTypes
  <2>2. requests' \in Seq(Requests) /\ btc' \in Seq(EventType)
    BY <1>1
  <2> QED BY <1>1, <2>1, <2>2 DEF NodeTypes
<1>3. /\ SingleRequests' /\ SingleEvents' /\ \A q : ~Asked(q)' /\ ~Told(q)'
  BY <1>1, EmptySeq DEF Asked, Told, SingleRequests, SingleEvents
<1> QED BY <1>1, <1>2, <1>3 DEF NodeInv, NotBoth, BeforeBle, Registering, Pending, FlagsKept,
        StartedWhole, OneStart, RefusalFinal, Started, StartAccounted, ServiceAccounted, FailuresLogged, WritesBounded

\* An assertion is possible only if a creation failed, or a phone was faster
\* than app_main; neither happens after the last reset.
LEMMA TaskAssertsCause ==
  ASSUME NodeInv, NEW c \in Chars, TaskAsserts(c)
  PROVE  Reset /\ logged /\ resets < MaxResets
<1>1. Reset /\ Task(c) \in made /\ Queue(c) \notin made
  BY DEF TaskAsserts
<1>2. PICK n \in 1 .. boot : Calls[n] = Task(c)
  BY <1>1 DEF NodeInv, NodeTypes
<1>3. boot \in 0 .. 11
  BY CallsAre DEF NodeInv, NodeTypes
<1>4. n - 1 \in 1 .. boot /\ Calls[n - 1] = Queue(c)
  <2>1. n - 1 \in 1 .. 11 /\ Calls[n - 1] = Queue(c)
    BY <1>2, <1>3, CallOrder
  <2> QED BY <1>3, <2>1
<1> QED BY <1>1, <1>4 DEF NodeInv, FailuresLogged

LEMMA WriteAssertsCause ==
  ASSUME NodeInv, NEW c \in Chars, WriteAsserts(c)
  PROVE  Reset /\ (logged \/ ~Booted) /\ resets < MaxResets
<1>1. Reset /\ btc # <<>> /\ Head(btc).kind = c /\ Queue(c) \notin made
  BY DEF WriteAsserts
<1>2. Told(c)
  <2>1. 1 \in DOMAIN btc /\ Head(btc) = btc[1]
    BY <1>1, Shifting DEF NodeInv, NodeTypes
  <2> QED BY <1>1, <2>1 DEF Told
<1>3. resets < MaxResets
  BY <1>1, <1>2 DEF NodeInv, WritesBounded
<1>4. Booted => logged
  BY <1>1, CallOrder, CallsAre DEF Booted, NodeInv, FailuresLogged
<1> QED BY <1>1, <1>3, <1>4

\* What the calls, made and still to come, do not look at.
LEMMA CallsUnchanged ==
  ASSUME NodeInv, UNCHANGED <<boot, made, resets>>, logged => logged'
  PROVE  FailuresLogged'
BY DEF NodeInv, FailuresLogged

\* A call of app_main other than ble_gatt_init, or one that fails.
LEMMA OtherCallInv ==
  ASSUME NodeInv, NEW call, Call(call), requests' = requests,
         \/ call # <<"ble">> /\ made' = made \cup {call} /\ logged' = logged
         \/ resets < MaxResets /\ made' = made /\ logged' = TRUE
  PROVE  NodeInv'
<1> USE DEF NodeInv
<1>1. /\ boot # 11 /\ Calls[boot + 1] = call /\ boot' = boot + 1
      /\ UNCHANGED <<btc, adv_config_done, payload, radio, served, ignored, resets>>
  BY CallsAre DEF Call, Booted
<1>2. boot \in 0 .. 11 /\ boot' \in 0 .. 11 /\ 1 .. boot' = 1 .. boot \cup {boot + 1}
  BY <1>1, CallsAre DEF NodeTypes
<1>3. NodeTypes'
  <2>1. made' \subseteq {Calls[n] : n \in 1 .. boot'}
    BY <1>1, <1>2 DEF NodeTypes
  <2> QED BY <1>1, <1>2, <2>1, CallsAre DEF NodeTypes
<1>4. /\ \A q : (Asked(q)' <=> Asked(q)) /\ (Told(q)' <=> Told(q)) /\ (Failed(q)' <=> Failed(q))
      /\ SingleRequests' /\ SingleEvents'
  BY <1>1, NothingAsked, NothingTold
<1>5. <<"ble">> \in made' <=> <<"ble">> \in made
  OBVIOUS
<1>6. NotBoth' /\ BeforeBle' /\ Registering' /\ FlagsKept'
  BY <1>1, <1>4, <1>5 DEF NotBoth, BeforeBle, Registering, FlagsKept, Pending
<1>7. StartedWhole' /\ OneStart' /\ RefusalFinal' /\ StartAccounted' /\ ServiceAccounted'
  BY <1>1, <1>4, <1>5 DEF StartedWhole, OneStart, RefusalFinal, Started, StartAccounted, ServiceAccounted, Pending
<1>8. FailuresLogged'
  BY <1>1, <1>2 DEF FailuresLogged
<1>9. WritesBounded'
  BY <1>1, <1>4 DEF WritesBounded
<1> QED BY <1>3, <1>4, <1>6, <1>7, <1>8, <1>9

\* Bluetooth begins with a registration.
LEMMA BleInv ==
  ASSUME NodeInv, ble_gatt_init
  PROVE  NodeInv'
<1> USE DEF NodeInv
<1>1. /\ boot # 11 /\ Calls[boot + 1] = <<"ble">> /\ boot' = boot + 1
      /\ made' = made \cup {<<"ble">>} /\ requests' = Append(requests, "REG") /\ logged' = logged
      /\ UNCHANGED <<btc, adv_config_done, payload, radio, served, ignored, resets>>
  BY CallsAre DEF ble_gatt_init, Call, Booted
<1>2. boot \in 0 .. 11 /\ boot' \in 0 .. 11 /\ 1 .. boot' = 1 .. boot \cup {boot + 1} /\ boot = 1
  BY <1>1, CallsAre, CallOrder DEF NodeTypes
<1>3. <<"ble">> \notin made
  <2>1. made \subseteq {Calls[1]}
    BY <1>2 DEF NodeTypes
  <2> QED BY <2>1, CallOrder
<1>4. requests = <<>> /\ btc = <<>> /\ adv_config_done = {} /\ radio = "off" /\ ~served
  BY <1>3 DEF BeforeBle
<1>5. /\ requests' \in Seq(Requests) /\ Len(requests') = 1 /\ Len(btc') = 0
      /\ \A q : (Asked(q)' <=> q = "REG") /\ ~Told(q)'
      /\ SingleRequests' /\ SingleEvents'
  <2>1. "REG" \in Requests /\ "REG" \notin Payloads \cup {"ADV_START"} /\ requests \in Seq(Requests)
    BY DEF Requests, Payloads, NodeTypes
  <2> QED BY <1>1, <1>4, <2>1, AskedOne, NothingTold, Silence
<1>6. NodeTypes'
  <2>1. made' \subseteq {Calls[n] : n \in 1 .. boot'}
    BY <1>1, <1>2 DEF NodeTypes
  <2> QED BY <1>1, <1>2, <1>5, <2>1, CallsAre DEF NodeTypes
<1>7. NotBoth' /\ BeforeBle' /\ Registering' /\ FlagsKept'
  BY <1>1, <1>4, <1>5 DEF NotBoth, BeforeBle, Registering, FlagsKept, Pending, Payloads
<1>8. StartedWhole' /\ OneStart' /\ RefusalFinal' /\ StartAccounted' /\ ServiceAccounted'
  BY <1>1, <1>3, <1>4, <1>5 DEF StartedWhole, OneStart, RefusalFinal, Started, StartAccounted, ServiceAccounted, Pending
<1>9. FailuresLogged' /\ WritesBounded'
  BY <1>1, <1>2, <1>5 DEF FailuresLogged, WritesBounded
<1> QED BY <1>5, <1>6, <1>7, <1>8, <1>9

LEMMA NodeIdle ==
  ASSUME NodeInv, UNCHANGED nodeVars
  PROVE  NodeInv'
<1> USE DEF NodeInv
<1>1. UNCHANGED <<boot, made, requests, btc, adv_config_done, payload, radio, served, logged,
                 ignored, resets>>
  BY DEF nodeVars
<1>2. /\ \A q : (Asked(q)' <=> Asked(q)) /\ (Told(q)' <=> Told(q)) /\ (Failed(q)' <=> Failed(q))
      /\ SingleRequests' /\ SingleEvents'
  BY <1>1, NothingAsked, NothingTold
<1>3. NodeTypes' /\ FailuresLogged' /\ WritesBounded'
  BY <1>1, <1>2 DEF NodeTypes, FailuresLogged, WritesBounded
<1>4. NotBoth' /\ BeforeBle' /\ Registering' /\ FlagsKept'
  BY <1>1, <1>2 DEF NotBoth, BeforeBle, Registering, FlagsKept, Pending
<1>5. StartedWhole' /\ OneStart' /\ RefusalFinal' /\ StartAccounted' /\ ServiceAccounted'
  BY <1>1, <1>2 DEF StartedWhole, OneStart, RefusalFinal, Started, StartAccounted, ServiceAccounted, Pending
<1> QED BY <1>2, <1>3, <1>4, <1>5

\* The stack answers the oldest request; a start of advertising that succeeds
\* is on the air, one that fails is an event.
LEMMA AnswerInv ==
  ASSUME NodeInv, Answer
  PROVE  NodeInv'
<1> USE DEF NodeInv
<1>1. PICK r \in Requests, ok \in BOOLEAN :
        /\ r = Head(requests) /\ requests # <<>> /\ requests' = Tail(requests)
        /\ Deliver(Event(r, ok))
        /\ payload' = payload \cup (Payloads \cap (IF ok THEN {r} ELSE {}))
        /\ radio' = IF r = "ADV_START" /\ ok THEN "advertising" ELSE radio
        /\ served' = (served \/ (r = "SERVICE" /\ ok))
        /\ ignored' = ignored \cup ((Unread \cap {r}) \ (IF ok THEN {r} ELSE {}))
  <2>1. requests # <<>> /\ Head(requests) \in Requests
    BY Shifting DEF Answer, NodeTypes
  <2> QED BY <2>1 DEF Answer
<1>2. UNCHANGED <<boot, made, adv_config_done, logged, resets>>
  BY DEF Answer
<1> DEFINE e == Event(r, ok)
<1>3. e \in EventType /\ e.kind = r /\ e.ok = ok /\ r \in Kinds
  BY DEF Event, EventType, Requests, Kinds
<1> HIDE DEF e
<1>4. /\ requests' \in Seq(Requests) /\ Len(requests') = Len(requests) - 1 /\ Len(requests) \in Nat \ {0}
      /\ Asked(r) /\ \A q : (Asked(q)' => Asked(q)) /\ (Asked(q) => Asked(q)' \/ q = r)
      /\ SingleRequests'
      /\ r \in Payloads \cup {"ADV_START"} => ~Asked(r)'
  BY <1>1, AnsweredOne DEF NodeTypes
<1>5. /\ btc' \in Seq(EventType) /\ Len(btc') = Len(btc) + 1 /\ Len(btc) \in Nat
      /\ \A q : /\ Told(q)' <=> Told(q) \/ q = r
                /\ Failed(q)' <=> Failed(q) \/ (q = r /\ ~ok)
      /\ (~Told(r) \/ r \notin Payloads \cup {"DISCONNECT"}) => SingleEvents'
  BY <1>1, <1>3, ToldOne, LenProperties DEF e, NodeTypes
<1>6. SingleEvents' /\ NotBoth'
  <2>1. r # "DISCONNECT"
    BY DEF Requests, Payloads
  <2>2. r \in Payloads => ~Told(r)
    BY <1>4 DEF NotBoth
  <2>3. SingleEvents'
    BY <1>5, <2>1, <2>2
  <2>4. NotBoth'
    BY <1>4, <1>5 DEF NotBoth
  <2> QED BY <2>3, <2>4
<1>7. NodeTypes'
  <2>1. payload' \subseteq Payloads /\ ignored' \subseteq Unread \cup {"ADV_START"}
    BY <1>1 DEF NodeTypes
  <2>2. radio' \in {"off", "advertising", "connected"} /\ served' \in BOOLEAN
    BY <1>1 DEF NodeTypes
  <2> QED BY <1>2, <1>4, <1>5, <2>1, <2>2 DEF NodeTypes
<1>8. <<"ble">> \in made
  BY <1>1 DEF BeforeBle
<1>9. BeforeBle' /\ FailuresLogged'
  BY <1>2, <1>8 DEF BeforeBle, FailuresLogged
<1>10. Registering'
  <2> SUFFICES ASSUME Pending("REG")'
               PROVE  /\ Len(requests') + Len(btc') = 1 /\ \A k \in Kinds : Pending(k)' => k = "REG"
                      /\ adv_config_done' = {} /\ radio' = "off" /\ ~served'
    BY DEF Registering
  <2>1. Pending("REG")
    BY <1>4, <1>5 DEF Pending
  <2>2. r = "REG"
    BY <1>3, <1>4, <2>1 DEF Registering, Pending
  <2>3. Len(requests') + Len(btc') = 1
    BY <1>4, <1>5, <2>1 DEF Registering
  <2>4. \A k \in Kinds : Pending(k)' => k = "REG"
    BY <1>4, <1>5, <2>1, <2>2 DEF Registering, Pending
  <2> QED BY <1>1, <1>2, <2>1, <2>2, <2>3, <2>4 DEF Registering
<1>11. FlagsKept'
  <2> SUFFICES ASSUME NEW p \in Payloads
               PROVE  /\ Pending(p)' => p \in adv_config_done
                      /\ Told(p)' => p \in payload' \cup ignored'
                      /\ adv_config_done # {} /\ p \notin adv_config_done => p \in payload' \cup ignored'
                      /\ p \in adv_config_done => logged \/ Pending(p)'
    BY <1>2 DEF FlagsKept
  <2>1. Pending(p)' <=> Pending(p)
    BY <1>4, <1>5 DEF Pending
  <2>2. Told(p)' => Told(p) \/ p = r
    BY <1>5
  <2>3. p = r => p \in payload' \cup ignored'
    BY <1>1 DEF Unread
  <2>4. p \in payload \cup ignored => p \in payload' \cup ignored'
    BY <1>1
  <2> QED BY <2>1, <2>2, <2>3, <2>4 DEF FlagsKept
<1>12. "ADV_START" \notin Payloads /\ "DISCONNECT" # r
  BY DEF Payloads, Requests
<1>13. Started' => Started
  BY <1>1, <1>4, <1>5, <1>12 DEF Started
<1>14. StartedWhole' /\ OneStart' /\ RefusalFinal'
  <2>0. RefusalFinal'
    <3>1. "ADV_START" \in ignored' => "ADV_START" \in ignored
      BY <1>1 DEF Unread, Payloads
    <3>2. Pending("REG")' => Pending("REG")
      BY <1>4, <1>5 DEF Pending
    <3> QED BY <1>2, <1>13, <3>1, <3>2 DEF RefusalFinal
  <2>1. StartedWhole'
    <3>1. payload \cup ignored \subseteq payload' \cup ignored'
      BY <1>1
    <3> QED BY <1>2, <1>13, <3>1 DEF StartedWhole
  <2>2. /\ Asked("ADV_START")' => Asked("ADV_START")
        /\ Told("DISCONNECT")' => Told("DISCONNECT")
    BY <1>4, <1>5, <1>12
  <2>3. CASE r = "ADV_START" /\ ok
    <3>1. Asked("ADV_START") /\ ~Asked("ADV_START")'
      BY <1>4, <2>3
    <3> QED BY <2>0, <2>1, <2>2, <3>1 DEF OneStart
  <2>4. CASE ~(r = "ADV_START" /\ ok)
    <3>1. radio' = radio
      BY <1>1, <2>4
    <3> QED BY <2>0, <2>1, <2>2, <3>1 DEF OneStart
  <2> QED BY <2>3, <2>4
<1>15. StartAccounted'
  <2>1. Pending("REG") => Pending("REG")'
    BY <1>4, <1>5 DEF Pending
  <2>2. Started => Started' \/ Failed("ADV_START")'
    BY <1>1, <1>4, <1>5 DEF Started
  <2>3. Failed("ADV_START") => Failed("ADV_START")'
    BY <1>5
  <2>4. "ADV_START" \in ignored => "ADV_START" \in ignored'
    BY <1>1
  <2> QED BY <1>2, <2>1, <2>2, <2>3, <2>4 DEF StartAccounted
<1>16. ServiceAccounted'
  <2>1. r = "SERVICE" => served' \/ "SERVICE" \in ignored'
    BY <1>1 DEF Unread
  <2>2. (served => served') /\ ("SERVICE" \in ignored => "SERVICE" \in ignored')
    BY <1>1 DEF NodeTypes
  <2> QED BY <1>2, <1>4, <1>5, <2>1, <2>2 DEF ServiceAccounted, Pending
<1>17. WritesBounded'
  <2>1. \A c \in Chars : c # r
    BY DEF Chars, Requests, Payloads
  <2> QED BY <1>2, <1>5, <2>1 DEF WritesBounded
<1> QED BY <1>4, <1>6, <1>7, <1>9, <1>10, <1>11, <1>14, <1>15, <1>16, <1>17

\* A connection takes the device off the air, a disconnection asks to put it
\* on again; the writes are many.
LEMMA PhoneInv ==
  ASSUME NodeInv, Phone
  PROVE  NodeInv'
<1> USE DEF NodeInv
<1>1. PICK k \in {"CONNECT", "DISCONNECT"} \cup Chars :
        /\ Deliver(Event(k, TRUE))
        /\ radio # "off"
        /\ k = "DISCONNECT" => radio' = "off"
        /\ k # "DISCONNECT" => radio' \in {"connected"}
        /\ k \in Chars => Queue(k) \in made \/ resets < MaxResets
  <2>1. CASE radio = "advertising" /\ radio' = "connected" /\ Deliver(Event("CONNECT", TRUE))
    <3>1. "CONNECT" \notin Chars /\ "CONNECT" # "DISCONNECT" /\ radio # "off" /\ radio' \in {"connected"}
      BY <2>1 DEF Chars
    <3> QED BY <2>1, <3>1
  <2>2. CASE radio = "connected" /\ radio' = "off" /\ Deliver(Event("DISCONNECT", TRUE))
    <3>1. "DISCONNECT" \notin Chars /\ radio # "off"
      BY <2>2 DEF Chars
    <3> QED BY <2>2, <3>1
  <2>3. ASSUME radio = "connected", radio' = radio, NEW c \in Chars,
               Queue(c) \in made \/ resets < MaxResets, Deliver(Event(c, TRUE))
        PROVE  \E k \in {"CONNECT", "DISCONNECT"} \cup Chars :
                 /\ Deliver(Event(k, TRUE))
                 /\ radio # "off"
                 /\ k = "DISCONNECT" => radio' = "off"
                 /\ k # "DISCONNECT" => radio' \in {"connected"}
                 /\ k \in Chars => Queue(k) \in made \/ resets < MaxResets
    <3>1. c # "DISCONNECT"
      BY DEF Chars
    <3> QED BY <2>3, <3>1
  <2> QED BY <2>1, <2>2, <2>3 DEF Phone
<1>2. UNCHANGED <<boot, made, requests, adv_config_done, payload, served, logged, ignored, resets>>
  BY DEF Phone
<1> DEFINE e == Event(k, TRUE)
<1>3. e \in EventType /\ e.kind = k /\ e.ok = TRUE /\ k \in Kinds
      /\ k \notin Payloads \cup {"REG", "ADV_START", "ATTR_TAB", "SERVICE"}
  BY DEF Event, EventType, Kinds, Chars, Payloads
<1> HIDE DEF e
<1>4. /\ \A q : Asked(q)' <=> Asked(q)
      /\ SingleRequests'
  BY <1>2, NothingAsked
<1>5. /\ btc' \in Seq(EventType)
      /\ \A q : (Told(q)' <=> Told(q) \/ q = k) /\ (Failed(q)' <=> Failed(q))
      /\ (~Told(k) \/ k \notin Payloads \cup {"DISCONNECT"}) => SingleEvents'
  BY <1>1, <1>3, ToldOne DEF e, NodeTypes
<1>6. /\ ~Asked("ADV_START") /\ ~Told("DISCONNECT") /\ Started
      /\ adv_config_done = {} /\ Payloads \subseteq payload \cup ignored /\ "ADV_START" \notin ignored
  BY <1>1 DEF OneStart, StartedWhole, RefusalFinal, Started
<1>7. SingleEvents' /\ NotBoth'
  BY <1>3, <1>4, <1>5, <1>6 DEF NotBoth
<1>8. NodeTypes'
  BY <1>1, <1>2, <1>5 DEF NodeTypes
<1>9. <<"ble">> \in made /\ ~Pending("REG")
  BY <1>1 DEF BeforeBle, Registering
<1>10. BeforeBle' /\ FailuresLogged' /\ Registering'
  BY <1>2, <1>3, <1>4, <1>5, <1>9 DEF BeforeBle, FailuresLogged, Registering, Pending
<1>11. FlagsKept'
  BY <1>2, <1>3, <1>4, <1>5 DEF FlagsKept, Pending
<1>12. StartedWhole' /\ OneStart' /\ RefusalFinal'
  BY <1>1, <1>2, <1>4, <1>5, <1>6 DEF StartedWhole, OneStart, RefusalFinal
<1>13. StartAccounted'
  BY <1>1, <1>5 DEF StartAccounted, Started
<1>14. ServiceAccounted'
  BY <1>2, <1>3, <1>4, <1>5 DEF ServiceAccounted, Pending
<1>15. WritesBounded'
  BY <1>1, <1>2, <1>5 DEF WritesBounded
<1> QED BY <1>4, <1>7, <1>8, <1>10, <1>11, <1>12, <1>13, <1>14, <1>15

\* A callback that asks for nothing and whose event nobody waits for.
LEMMA HandledInv ==
  ASSUME NodeInv, NEW k, On(k), UNCHANGED <<stackOnly, requests, adv_config_done, ignored>>,
         logged' = logged \/ logged' = TRUE,
         k \notin Payloads \cup {"REG", "DISCONNECT", "ATTR_TAB"},
         k = "ADV_START" => Head(btc).ok \/ logged'
  PROVE  NodeInv'
<1> USE DEF NodeInv
<1>1. UNCHANGED <<boot, made, requests, adv_config_done, payload, radio, served, ignored, resets>>
  BY DEF stackOnly
<1>2. (\A q : Asked(q)' <=> Asked(q)) /\ SingleRequests'
  BY <1>1, NothingAsked
<1>3. /\ btc' \in Seq(EventType)
      /\ \A q : Told(q)' => Told(q)
      /\ \A q : q # k => (Told(q) => Told(q)')
      /\ \A q : Failed(q) => Failed(q)' \/ (q = k /\ ~Head(btc).ok)
      /\ SingleEvents'
      /\ Told(k)
  BY HandledOne DEF NodeTypes
<1>4. NodeTypes'
  BY <1>1, <1>3 DEF NodeTypes
<1>5. <<"ble">> \in made /\ ~Pending("REG")
  <2>1. btc # <<>> /\ Head(btc).kind = k /\ Head(btc) \in EventType
    BY Shifting DEF On, NodeTypes
  <2>2. k \in Kinds
    BY <2>1 DEF EventType
  <2>3. ~Pending("REG")
    BY <1>3, <2>2 DEF Registering, Pending
  <2> QED BY <2>1, <2>3 DEF BeforeBle
<1>6. NotBoth' /\ BeforeBle' /\ Registering'
  BY <1>1, <1>2, <1>3, <1>5 DEF NotBoth, BeforeBle, Registering, Pending
<1>7. FlagsKept'
  <2>1. \A p \in Payloads : Pending(p)' <=> Pending(p)
    BY <1>2, <1>3 DEF Pending
  <2> QED BY <1>1, <1>3, <2>1 DEF FlagsKept
<1>8. Started' <=> Started
  BY <1>1, <1>2, <1>3 DEF Started
<1>9. StartedWhole' /\ OneStart' /\ RefusalFinal'
  BY <1>1, <1>2, <1>3, <1>8 DEF StartedWhole, OneStart, RefusalFinal, Pending
<1>10. StartAccounted'
  BY <1>1, <1>3, <1>5, <1>8 DEF StartAccounted
<1>11. ServiceAccounted'
  BY <1>1, <1>2, <1>3, <1>5 DEF ServiceAccounted, Pending
<1>12. FailuresLogged' /\ WritesBounded'
  BY <1>1, <1>3 DEF FailuresLogged, WritesBounded
<1> QED BY <1>2, <1>3, <1>4, <1>6, <1>7, <1>9, <1>10, <1>11, <1>12

LEMMA OnAttrTabInv ==
  ASSUME NodeInv, OnAttrTab
  PROVE  NodeInv'
<1> USE DEF NodeInv
<1>1. /\ On("ATTR_TAB")
      /\ IF Head(btc).ok THEN AskUnchecked("SERVICE") ELSE UNCHANGED <<requests, ignored>>
      /\ logged' = (logged \/ ~Head(btc).ok)
      /\ UNCHANGED <<boot, made, adv_config_done, payload, radio, served, resets>>
  BY DEF OnAttrTab, stackOnly
<1>2. /\ btc' \in Seq(EventType) /\ Told("ATTR_TAB") /\ SingleEvents'
      /\ \A q : Told(q)' => Told(q)
      /\ \A q : q # "ATTR_TAB" => (Told(q) => Told(q)')
      /\ \A q : q # "ATTR_TAB" => (Failed(q) => Failed(q)')
      /\ Head(btc) \in EventType
  BY <1>1, HandledOne DEF NodeTypes
<1>3. /\ requests' \in Seq(Requests) /\ SingleRequests'
      /\ \A q : Asked(q) => Asked(q)'
      /\ \A q : q # "SERVICE" => (Asked(q)' => Asked(q))
      /\ Head(btc).ok => Asked("SERVICE")' \/ "SERVICE" \in ignored'
      /\ ignored \subseteq ignored' /\ ignored' \subseteq ignored \cup {"SERVICE"}
  <2>1. "SERVICE" \in Requests /\ "SERVICE" \notin Payloads \cup {"ADV_START"} /\ requests \in Seq(Requests)
    BY DEF Requests, Payloads, NodeTypes
  <2>2. CASE Head(btc).ok
    <3>1. AskUnchecked("SERVICE")
      BY <1>1, <2>2
    <3>2. CASE requests' = Append(requests, "SERVICE") /\ ignored' = ignored
      BY <2>1, <3>2, AskedOne
    <3>3. CASE requests' = requests /\ ignored' = ignored \cup {"SERVICE"}
      BY <2>1, <3>3, NothingAsked
    <3> QED BY <2>1, <3>1, <3>2, <3>3, AskedOrRefused
  <2>3. CASE ~Head(btc).ok
    BY <1>1, <2>1, <2>3, NothingAsked
  <2> QED BY <2>2, <2>3
<1>4. "ATTR_TAB" \notin Payloads /\ "SERVICE" \notin Payloads /\ "ATTR_TAB" \in Kinds
  BY DEF Payloads, Kinds
<1>5. NodeTypes'
  BY <1>1, <1>2, <1>3 DEF NodeTypes, Unread
<1>6. <<"ble">> \in made /\ ~Pending("REG")
  BY <1>1, <1>2, <1>4 DEF BeforeBle, Registering, Pending, On
<1>7. NotBoth' /\ BeforeBle' /\ Registering'
  BY <1>1, <1>2, <1>3, <1>4, <1>6 DEF NotBoth, BeforeBle, Registering, Pending
<1>8. FlagsKept'
  <2>1. \A p \in Payloads : (Pending(p)' <=> Pending(p)) /\ (Told(p)' => Told(p))
    BY <1>2, <1>3, <1>4 DEF Pending
  <2> QED BY <1>1, <1>3, <2>1 DEF FlagsKept
<1>9. Started' <=> Started
  BY <1>1, <1>2, <1>3 DEF Started
<1>10. StartedWhole' /\ OneStart' /\ RefusalFinal'
  BY <1>1, <1>2, <1>3, <1>9 DEF StartedWhole, OneStart, RefusalFinal, Pending
<1>11. StartAccounted' /\ ServiceAccounted'
  BY <1>1, <1>2, <1>3, <1>6, <1>9 DEF StartAccounted, ServiceAccounted, Pending
<1>12. FailuresLogged'
  BY <1>1 DEF FailuresLogged
<1>13. WritesBounded'
  BY <1>1, <1>2 DEF WritesBounded
<1> QED BY <1>2, <1>3, <1>5, <1>7, <1>8, <1>10, <1>11, <1>12, <1>13

\* The second payload asks for the start of advertising.
LEMMA OnPayloadInv ==
  ASSUME NodeInv, NEW p \in Payloads, OnPayload(p)
  PROVE  NodeInv'
<1> USE DEF NodeInv
<1>1. /\ On(p) /\ adv_config_done' = adv_config_done \ {p}
      /\ IF adv_config_done' = {} THEN AskUnchecked("ADV_START") ELSE UNCHANGED <<requests, ignored>>
      /\ UNCHANGED <<boot, made, payload, radio, served, resets, logged>>
  BY DEF OnPayload, stackOnly
<1>2. /\ btc' \in Seq(EventType) /\ Told(p) /\ SingleEvents' /\ ~Told(p)'
      /\ \A q : Told(q)' => Told(q)
      /\ \A q : q # p => (Told(q) => Told(q)')
      /\ \A q : q # p => (Failed(q) => Failed(q)')
  BY <1>1, HandledOne DEF NodeTypes
<1>3. "ADV_START" \notin Payloads /\ "REG" \notin Payloads /\ "DISCONNECT" \notin Payloads /\ p \in Kinds
      /\ "ATTR_TAB" \notin Payloads /\ "SERVICE" \notin Payloads
  BY DEF Payloads, Kinds
<1>4. /\ p \in adv_config_done /\ p \in payload \cup ignored /\ ~Asked(p) /\ ~Started
      /\ ~Pending("REG") /\ <<"ble">> \in made
  BY <1>1, <1>2, <1>3 DEF FlagsKept, Pending, NotBoth, StartedWhole, Registering, BeforeBle, On
<1>5. /\ requests' \in Seq(Requests) /\ SingleRequests'
      /\ \A q : Asked(q) => Asked(q)'
      /\ \A q : q # "ADV_START" => (Asked(q)' => Asked(q))
      /\ \/ Asked("ADV_START")' /\ ignored' = ignored /\ adv_config_done' = {}
         \/ ~Asked("ADV_START")' /\ ignored' = ignored \cup {"ADV_START"} /\ adv_config_done' = {}
         \/ ~Asked("ADV_START")' /\ ignored' = ignored /\ adv_config_done' # {}
  <2>1. "ADV_START" \in Requests /\ ~Asked("ADV_START") /\ requests \in Seq(Requests)
    BY <1>4 DEF Requests, Started, NodeTypes
  <2>2. CASE adv_config_done' = {}
    <3>1. AskUnchecked("ADV_START")
      BY <1>1, <2>2
    <3>2. CASE requests' = Append(requests, "ADV_START") /\ ignored' = ignored
      BY <2>1, <2>2, <3>2, AskedOne
    <3>3. CASE requests' = requests /\ ignored' = ignored \cup {"ADV_START"}
      BY <2>1, <2>2, <3>3, NothingAsked
    <3> QED BY <2>1, <3>1, <3>2, <3>3, AskedOrRefused
  <2>3. CASE adv_config_done' # {}
    BY <1>1, <2>1, <2>3, NothingAsked
  <2> QED BY <2>2, <2>3
<1>6. NodeTypes'
  BY <1>1, <1>2, <1>5 DEF NodeTypes
<1>15. ignored \subseteq ignored' /\ "ADV_START" \notin ignored
  BY <1>4, <1>5 DEF RefusalFinal
<1>7. NotBoth' /\ BeforeBle' /\ Registering'
  BY <1>1, <1>2, <1>3, <1>4, <1>5 DEF NotBoth, BeforeBle, Registering, Pending
<1>8. FlagsKept'
  <2> SUFFICES ASSUME NEW q \in Payloads
               PROVE  /\ Pending(q)' => q \in adv_config_done'
                      /\ Told(q)' => q \in payload \cup ignored'
                      /\ adv_config_done' # {} /\ q \notin adv_config_done' => q \in payload \cup ignored'
                      /\ q \in adv_config_done' => logged \/ Pending(q)'
    BY <1>1 DEF FlagsKept
  <2>1. CASE q = p
    BY <1>1, <1>2, <1>3, <1>4, <1>5, <1>15, <2>1 DEF Pending
  <2>2. CASE q # p
    <3>1. (Pending(q)' <=> Pending(q)) /\ (Told(q)' => Told(q))
      BY <1>2, <1>3, <1>5, <2>2 DEF Pending
    <3> QED BY <1>1, <1>4, <1>15, <2>2, <3>1 DEF FlagsKept
  <2> QED BY <2>1, <2>2
<1>9. adv_config_done' = {} => Payloads \subseteq payload \cup ignored'
  BY <1>1, <1>4, <1>15 DEF FlagsKept, NodeTypes
<1>10. radio = "off" /\ ~Told("DISCONNECT") /\ ~Told("DISCONNECT")'
  BY <1>2, <1>4 DEF Started
<1>11. StartedWhole' /\ OneStart' /\ RefusalFinal'
  <2>1. StartedWhole' /\ OneStart'
    BY <1>1, <1>5, <1>9, <1>10 DEF StartedWhole, OneStart, Started
  <2>2. ~Pending("REG")' /\ <<"ble">> \in made'
    BY <1>1, <1>2, <1>4, <1>5 DEF Pending
  <2>3. "ADV_START" \in ignored' => ~Started' /\ adv_config_done' = {}
    BY <1>1, <1>5, <1>10, <1>15 DEF Started
  <2> QED BY <2>1, <2>2, <2>3 DEF RefusalFinal
<1>12. StartAccounted'
  BY <1>5 DEF StartAccounted, Started
<1>13. ServiceAccounted'
  BY <1>1, <1>2, <1>3, <1>4, <1>5, <1>15 DEF ServiceAccounted, Pending
<1>14. FailuresLogged' /\ WritesBounded'
  BY <1>1, <1>2 DEF FailuresLogged, WritesBounded
<1> QED BY <1>2, <1>5, <1>6, <1>7, <1>8, <1>11, <1>12, <1>13, <1>14

\* A disconnection asks for the next start of advertising.
LEMMA OnDisconnectInv ==
  ASSUME NodeInv, OnDisconnect
  PROVE  NodeInv'
<1> USE DEF NodeInv
<1>1. /\ On("DISCONNECT") /\ AskUnchecked("ADV_START")
      /\ UNCHANGED <<boot, made, adv_config_done, payload, radio, served, resets, logged>>
  BY DEF OnDisconnect, stackOnly
<1>2. /\ btc' \in Seq(EventType) /\ Told("DISCONNECT") /\ SingleEvents' /\ ~Told("DISCONNECT")'
      /\ \A q : Told(q)' => Told(q)
      /\ \A q : q # "DISCONNECT" => (Told(q) => Told(q)') /\ (Failed(q) => Failed(q)')
  BY <1>1, HandledOne DEF NodeTypes
<1>3. /\ ~Asked("ADV_START") /\ radio = "off" /\ adv_config_done = {} /\ Started
      /\ Payloads \subseteq payload \cup ignored /\ "ADV_START" \notin ignored
      /\ ~Pending("REG") /\ <<"ble">> \in made
  <2>1. "DISCONNECT" \in Kinds
    BY DEF Kinds
  <2> QED BY <1>1, <1>2, <2>1
          DEF OneStart, StartedWhole, RefusalFinal, Started, Registering, BeforeBle, Pending, On
<1>4. /\ requests' \in Seq(Requests) /\ SingleRequests'
      /\ \A q : q # "ADV_START" => (Asked(q)' <=> Asked(q))
      /\ \/ Asked("ADV_START")' /\ ignored' = ignored
         \/ ~Asked("ADV_START")' /\ ignored' = ignored \cup {"ADV_START"}
  <2>1. "ADV_START" \in Requests /\ requests \in Seq(Requests)
    BY DEF Requests, NodeTypes
  <2>2. CASE requests' = Append(requests, "ADV_START") /\ ignored' = ignored
    BY <1>3, <2>1, <2>2, AskedOne
  <2>3. CASE requests' = requests /\ ignored' = ignored \cup {"ADV_START"}
    BY <1>3, <2>1, <2>3, NothingAsked
  <2> QED BY <1>1, <2>1, <2>2, <2>3, AskedOrRefused
<1>5. NodeTypes'
  BY <1>1, <1>2, <1>4 DEF NodeTypes
<1>6. "ADV_START" \notin Payloads /\ "DISCONNECT" \notin Payloads
  BY DEF Payloads
<1>7. NotBoth' /\ BeforeBle' /\ Registering'
  BY <1>1, <1>2, <1>3, <1>4, <1>6 DEF NotBoth, BeforeBle, Registering, Pending
<1>8. FlagsKept'
  BY <1>1, <1>2, <1>3, <1>4, <1>6 DEF FlagsKept, Pending
<1>9. StartedWhole' /\ OneStart' /\ StartAccounted' /\ RefusalFinal'
  <2>1. StartedWhole' /\ OneStart' /\ StartAccounted'
    BY <1>1, <1>2, <1>3, <1>4 DEF StartedWhole, OneStart, StartAccounted, Started
  <2>2. ~Pending("REG")' /\ <<"ble">> \in made' /\ adv_config_done' = {}
    BY <1>1, <1>2, <1>3, <1>4 DEF Pending
  <2>3. "ADV_START" \in ignored' => ~Started'
    BY <1>1, <1>2, <1>3, <1>4 DEF Started
  <2> QED BY <2>1, <2>2, <2>3 DEF RefusalFinal
<1>10. ServiceAccounted'
  BY <1>1, <1>2, <1>3, <1>4 DEF ServiceAccounted, Pending
<1>11. FailuresLogged' /\ WritesBounded'
  BY <1>1, <1>2 DEF FailuresLogged, WritesBounded
<1> QED BY <1>2, <1>4, <1>5, <1>7, <1>8, <1>9, <1>10, <1>11

\* What one request adds to those the stack has taken.
Holds(s, q) == \E n \in DOMAIN s : s[n] = q
Distinct(s) == \A i, j \in DOMAIN s : s[i] = s[j] => i = j

LEMMA AskOne ==
  ASSUME NEW s \in Seq(Requests), NEW r \in Requests, NEW t \in Ask(s, r), Distinct(s), ~Holds(s, r)
  PROVE  /\ t \in Seq(Requests) /\ Distinct(t) /\ Len(s) \in Nat
         /\ \A q : /\ Holds(t, q) => Holds(s, q) \/ q = r
                   /\ Holds(s, q) => Holds(t, q)
         /\ Len(t) = Len(s) \/ (Len(t) = Len(s) + 1 /\ Holds(t, r))
<1>1. CASE t = s
  BY <1>1, LenProperties
<1>2. CASE t = Append(s, r)
  <2>1. /\ t \in Seq(Requests) /\ Len(t) = Len(s) + 1 /\ Len(s) \in Nat
        /\ DOMAIN t = DOMAIN s \cup {Len(s) + 1} /\ Len(s) + 1 \notin DOMAIN s
        /\ \A n \in DOMAIN s : t[n] = s[n]
        /\ t[Len(s) + 1] = r
    BY <1>2, Appending
  <2>2. \A q : (Holds(t, q) => Holds(s, q) \/ q = r) /\ (Holds(s, q) => Holds(t, q))
    BY <2>1 DEF Holds
  <2>3. Holds(t, r)
    BY <2>1 DEF Holds
  <2>4. Distinct(t)
    BY <2>1 DEF Distinct, Holds
  <2> QED BY <2>1, <2>2, <2>3, <2>4
<1> QED BY <1>1, <1>2 DEF Ask

\* Up to three requests are asked of a stack that had none.
LEMMA ThreeAsked ==
  ASSUME requests = <<>>, NEW first \in Ask(requests, "ADV_CONFIG"),
         NEW second \in Ask(first, "SCAN_RSP_CONFIG"), requests' \in Ask(second, "ATTR_TAB")
  PROVE  /\ requests' \in Seq(Requests) /\ SingleRequests' /\ Len(requests) = 0
         /\ \A q : Asked(q)' => q \in Payloads \cup {"ATTR_TAB"}
         /\ Len(requests') < 3 \/ \A q \in Payloads \cup {"ATTR_TAB"} : Asked(q)'
<1>1. requests \in Seq(Requests) /\ Distinct(requests) /\ (\A q : ~Holds(requests, q)) /\ Len(requests) = 0
  BY EmptySeq DEF Distinct, Holds
<1>2. {"ADV_CONFIG", "SCAN_RSP_CONFIG", "ATTR_TAB"} \subseteq Requests
  BY DEF Requests, Payloads
<1>3. /\ first \in Seq(Requests) /\ Distinct(first)
      /\ \A q : Holds(first, q) => q = "ADV_CONFIG"
      /\ Len(first) = 0 \/ (Len(first) = 1 /\ Holds(first, "ADV_CONFIG"))
  <2>1. /\ first \in Seq(Requests) /\ Distinct(first)
        /\ \A q : Holds(first, q) => Holds(requests, q) \/ q = "ADV_CONFIG"
        /\ Len(first) = Len(requests) \/ (Len(first) = Len(requests) + 1 /\ Holds(first, "ADV_CONFIG"))
    BY <1>1, <1>2, AskOne
  <2> QED BY <1>1, <2>1
<1>4. /\ second \in Seq(Requests) /\ Distinct(second)
      /\ \A q : Holds(second, q) => q \in Payloads
      /\ Len(second) = 0 \/ Len(second) = 1 \/ (Len(second) = 2 /\ \A q \in Payloads : Holds(second, q))
  <2>1. /\ second \in Seq(Requests) /\ Distinct(second)
        /\ \A q : /\ Holds(second, q) => Holds(first, q) \/ q = "SCAN_RSP_CONFIG"
                  /\ Holds(first, q) => Holds(second, q)
        /\ Len(second) = Len(first) \/ (Len(second) = Len(first) + 1 /\ Holds(second, "SCAN_RSP_CONFIG"))
    <3>1. ~Holds(first, "SCAN_RSP_CONFIG")
      BY <1>3
    <3> QED BY <1>2, <1>3, <3>1, AskOne
  <2>2. \A q : Holds(second, q) => q \in Payloads
    BY <1>3, <2>1, Zenon DEF Payloads
  <2>3. CASE Len(first) = 0
    BY <2>1, <2>2, <2>3
  <2>4. CASE Len(first) = 1 /\ Holds(first, "ADV_CONFIG")
    <3>1. Holds(second, "ADV_CONFIG")
      BY <2>1, <2>4
    <3>2. CASE Len(second) = Len(first)
      BY <2>1, <2>2, <2>4, <3>2
    <3>3. CASE Len(second) = Len(first) + 1 /\ Holds(second, "SCAN_RSP_CONFIG")
      <4>1. Len(second) = 2
        BY <2>4, <3>3
      <4>2. \A q \in Payloads : Holds(second, q)
        BY <3>1, <3>3, Zenon DEF Payloads
      <4> QED BY <2>1, <2>2, <4>1, <4>2
    <3> QED BY <2>1, <3>2, <3>3
  <2> QED BY <1>3, <2>3, <2>4
<1> DEFINE third == requests'
<1>5. /\ third \in Seq(Requests) /\ Distinct(third)
      /\ \A q : Holds(third, q) => q \in Payloads \cup {"ATTR_TAB"}
      /\ Len(third) < 3 \/ \A q \in Payloads \cup {"ATTR_TAB"} : Holds(third, q)
  <2> HIDE DEF third
  <2>1. third \in Ask(second, "ATTR_TAB")
    BY DEF third
  <2>2. ~Holds(second, "ATTR_TAB")
    BY <1>4 DEF Payloads
  <2>3. /\ third \in Seq(Requests) /\ Distinct(third)
        /\ \A q : (Holds(third, q) => Holds(second, q) \/ q = "ATTR_TAB") /\ (Holds(second, q) => Holds(third, q))
        /\ Len(third) = Len(second) \/ (Len(third) = Len(second) + 1 /\ Holds(third, "ATTR_TAB"))
    BY <1>2, <1>4, <2>1, <2>2, AskOne
  <2>4. \A q : Holds(third, q) => q \in Payloads \cup {"ATTR_TAB"}
    BY <1>4, <2>3
  <2>5. CASE Len(second) = 2 /\ \A q \in Payloads : Holds(second, q)
    <3>1. \A q \in Payloads : Holds(third, q)
      BY <2>3, <2>5
    <3>2. CASE Len(third) = Len(second)
      <4>1. Len(third) < 3
        BY <2>5, <3>2
      <4> QED BY <2>3, <2>4, <4>1
    <3>3. CASE Holds(third, "ATTR_TAB")
      <4>1. \A q \in Payloads \cup {"ATTR_TAB"} : Holds(third, q)
        BY <3>1, <3>3, Zenon
      <4> QED BY <2>3, <2>4, <4>1
    <3> QED BY <2>3, <3>2, <3>3
  <2>6. CASE Len(second) = 0 \/ Len(second) = 1
    <3>1. Len(third) < 3
      <4>1. Len(third) = Len(second) \/ Len(third) = Len(second) + 1
        BY <2>3
      <4>2. CASE Len(second) = 0
        BY <4>1, <4>2
      <4>3. CASE Len(second) = 1
        <5>1. Len(third) = 1 \/ Len(third) = 1 + 1
          BY <4>1, <4>3
        <5>2. 1 < 3 /\ 1 + 1 < 3
          OBVIOUS
        <5> QED BY <5>1, <5>2
      <4> QED BY <2>6, <4>2, <4>3
    <3> QED BY <2>3, <2>4, <3>1
  <2> QED BY <1>4, <2>5, <2>6
<1>6. (\A q : Asked(q)' <=> Holds(third, q)) /\ (Distinct(third) => SingleRequests')
  BY DEF Asked, Holds, Distinct, SingleRequests
<1> QED BY <1>1, <1>5, <1>6

\* The registration asks for both payloads and the service, or logs an error.
LEMMA OnRegInv ==
  ASSUME NodeInv, OnReg
  PROVE  NodeInv'
<1> USE DEF NodeInv
<1>1. On("REG") /\ UNCHANGED <<boot, made, payload, radio, served, ignored, resets>>
  BY DEF OnReg, stackOnly
<1>2. /\ btc' \in Seq(EventType) /\ Told("REG") /\ Len(btc') = Len(btc) - 1 /\ Len(btc) \in Nat \ {0}
      /\ SingleEvents'
  BY <1>1, HandledOne DEF NodeTypes
<1>3. /\ Len(requests) + Len(btc) = 1 /\ adv_config_done = {} /\ radio = "off" /\ ~served
  BY <1>2 DEF Registering, Pending
<1>4. requests = <<>> /\ btc' = <<>> /\ <<"ble">> \in made
  <2>1. Len(requests) \in Nat /\ Len(requests) = 0 /\ Len(btc') = 0
    BY <1>2, <1>3, LenProperties DEF NodeTypes
  <2>2. requests = <<>> /\ btc' = <<>>
    BY <1>2, <2>1, EmptySeq DEF NodeTypes
  <2> QED BY <1>1, <2>2 DEF BeforeBle, On
<1>5. \A q : ~Told(q)' /\ ~Failed(q)'
  BY <1>4 DEF Told, Failed
<1>6. /\ requests' \in Seq(Requests) /\ SingleRequests'
      /\ \A q : Asked(q)' => q \in Payloads \cup {"ATTR_TAB"}
      /\ \/ adv_config_done' = Payloads /\ (logged' \/ \A q \in Payloads \cup {"ATTR_TAB"} : Asked(q)')
         \/ adv_config_done' = {} /\ logged' /\ requests' = <<>>
      /\ logged' \in BOOLEAN /\ (logged => logged')
  <2>1. CASE Head(btc).ok
    <3>0. PICK first \in Ask(requests, "ADV_CONFIG") : \E second \in Ask(first, "SCAN_RSP_CONFIG") :
            /\ requests' \in Ask(second, "ATTR_TAB")
            /\ adv_config_done' = adv_config_done \cup Payloads
            /\ logged' = (logged \/ Len(requests') < Len(requests) + 3)
      BY <2>1 DEF OnReg
    <3>1. PICK second \in Ask(first, "SCAN_RSP_CONFIG") :
            /\ requests' \in Ask(second, "ATTR_TAB")
            /\ adv_config_done' = adv_config_done \cup Payloads
            /\ logged' = (logged \/ Len(requests') < Len(requests) + 3)
      BY <3>0
    <3>2. /\ requests' \in Seq(Requests) /\ SingleRequests' /\ Len(requests) = 0
          /\ \A q : Asked(q)' => q \in Payloads \cup {"ATTR_TAB"}
          /\ Len(requests') < 3 \/ \A q \in Payloads \cup {"ATTR_TAB"} : Asked(q)'
      BY <1>4, <3>1, ThreeAsked
    <3>3. adv_config_done' = Payloads /\ logged \in BOOLEAN
      BY <1>3, <3>1 DEF NodeTypes
    <3>4. logged' = (logged \/ Len(requests') < 3)
      BY <3>1, <3>2
    <3> QED BY <3>2, <3>3, <3>4
  <2>2. CASE ~Head(btc).ok
    <3>1. logged' = TRUE /\ requests' = requests /\ adv_config_done' = adv_config_done
      BY <2>2 DEF OnReg
    <3>2. (\A q : ~Asked(q)') /\ SingleRequests' /\ requests' \in Seq(Requests)
      BY <1>4, <3>1 DEF Asked, SingleRequests, NodeTypes
    <3> QED BY <1>3, <1>4, <3>1, <3>2
  <2> QED BY <2>1, <2>2
<1>7. NodeTypes'
  BY <1>1, <1>2, <1>6 DEF NodeTypes
<1>8. "REG" \notin Payloads \cup {"ATTR_TAB"} /\ "ADV_START" \notin Payloads \cup {"ATTR_TAB"}
  BY DEF Payloads
<1>9. NotBoth' /\ BeforeBle' /\ Registering'
  BY <1>1, <1>4, <1>5, <1>6, <1>8 DEF NotBoth, BeforeBle, Registering, Pending
<1>10. FlagsKept'
  <2> SUFFICES ASSUME NEW p \in Payloads
               PROVE  /\ Pending(p)' => p \in adv_config_done'
                      /\ Told(p)' => p \in payload' \cup ignored'
                      /\ adv_config_done' # {} /\ p \notin adv_config_done' => p \in payload' \cup ignored'
                      /\ p \in adv_config_done' => logged' \/ Pending(p)'
    BY DEF FlagsKept
  <2>1. CASE adv_config_done' = Payloads
    BY <1>5, <1>6, <2>1 DEF Pending
  <2>2. CASE adv_config_done' = {} /\ logged' /\ requests' = <<>>
    BY <1>5, <2>2 DEF Pending, Asked
  <2> QED BY <1>6, <2>1, <2>2
<1>14. "ADV_START" \notin ignored'
  BY <1>1, <1>2 DEF RefusalFinal, Pending
<1>11. StartedWhole' /\ OneStart' /\ RefusalFinal'
  BY <1>1, <1>3, <1>5, <1>6, <1>8, <1>14 DEF StartedWhole, OneStart, RefusalFinal, Started
<1>12. StartAccounted' /\ ServiceAccounted'
  BY <1>6 DEF StartAccounted, ServiceAccounted, Pending, Payloads
<1>13. FailuresLogged' /\ WritesBounded'
  BY <1>1, <1>5, <1>6 DEF FailuresLogged, WritesBounded
<1> QED BY <1>2, <1>6, <1>7, <1>9, <1>10, <1>11, <1>12, <1>13

-----------------------------------------------------------------------------
(* The steps together *)

\* No step of the chip, of Wi-Fi or of the phone leaves the invariant.
LEMMA NodeNextInv == NodeInv /\ [StartNext]_startVars => NodeInv'
<1> SUFFICES ASSUME NodeInv, [StartNext]_startVars PROVE NodeInv'
  OBVIOUS
<1>1. CASE UNCHANGED nodeVars
  BY <1>1, NodeIdle
<1>2. CASE ble_gatt_init
  BY <1>2, BleInv
<1>3. ASSUME NEW n \in DOMAIN Calls, Succeed(Calls[n]) \/ Fail(Calls[n]) PROVE NodeInv'
  <2>1. CASE Succeed(Calls[n])
    BY <2>1, OtherCallInv DEF Succeed
  <2>2. CASE Fail(Calls[n])
    BY <2>2, OtherCallInv DEF Fail
  <2> QED BY <1>3, <2>1, <2>2
<1>4. ASSUME NEW c \in Chars, TaskAsserts(c) PROVE NodeInv'
  BY <1>4, TaskAssertsCause, ResetInv
<1>5. CASE Answer
  BY <1>5, AnswerInv
<1>6. CASE Phone
  BY <1>6, PhoneInv
<1>7. CASE OnReg
  BY <1>7, OnRegInv
<1>8. CASE OnAttrTab
  BY <1>8, OnAttrTabInv
<1>9. CASE OnAdvStart
  <2>1. On("ADV_START") /\ UNCHANGED <<stackOnly, requests, adv_config_done, ignored>>
        /\ logged' = (logged \/ ~Head(btc).ok)
    BY <1>9 DEF OnAdvStart
  <2>2. logged' = logged \/ logged' = TRUE
    BY <2>1 DEF NodeInv, NodeTypes
  <2>3. "ADV_START" \notin Payloads \cup {"REG", "DISCONNECT", "ATTR_TAB"}
    BY DEF Payloads
  <2>4. Head(btc).ok \/ logged'
    BY <2>1
  <2> QED BY <2>1, <2>2, <2>3, <2>4, HandledInv
<1>10. CASE OnOther
  <2>1. PICK k \in {"CONNECT", "SERVICE"} : On(k)
    BY <1>10 DEF OnOther
  <2>2. UNCHANGED <<stackOnly, requests, adv_config_done, logged, ignored>>
    BY <1>10 DEF OnOther, callbackVars
  <2>3. k \notin Payloads \cup {"REG", "DISCONNECT", "ATTR_TAB"} /\ k # "ADV_START"
    BY DEF Payloads
  <2> QED BY <2>1, <2>2, <2>3, HandledInv
<1>11. ASSUME NEW c \in Chars, OnWrite(c) PROVE NodeInv'
  <2>1. On(c) /\ UNCHANGED <<stackOnly, requests, adv_config_done, logged, ignored>>
    BY <1>11 DEF OnWrite, callbackVars
  <2>2. c \notin Payloads \cup {"REG", "DISCONNECT", "ATTR_TAB"} /\ c # "ADV_START"
    BY DEF Payloads, Chars
  <2> QED BY <2>1, <2>2, HandledInv
<1>12. ASSUME NEW c \in Chars, WriteAsserts(c) PROVE NodeInv'
  BY <1>12, WriteAssertsCause, ResetInv
<1>13. CASE OnDisconnect
  BY <1>13, OnDisconnectInv
<1>14. ASSUME NEW p \in Payloads, OnPayload(p) PROVE NodeInv'
  BY <1>14, OnPayloadInv
<1>15. CASE PowerCycle
  BY <1>15, ResetInv DEF PowerCycle
<1>16. CASE StartNext
  BY <1>1, <1>2, <1>3, <1>4, <1>5, <1>6, <1>7, <1>8, <1>9, <1>10, <1>11, <1>12, <1>13, <1>14, <1>15, <1>16
     DEF StartNext, app_main, Callbacks
<1>17. CASE UNCHANGED startVars
  BY <1>1, <1>17 DEF startVars
<1> QED BY <1>16, <1>17

LEMMA NodeSpecInv == StartSpec => []NodeInv
<1>1. StartInit => NodeInv
  BY NodeInitInv
<1> QED BY <1>1, NodeNextInv, PTL DEF StartSpec

\* What a step of the chip does to the Wi-Fi station: its own step, nothing,
\* or a new beginning.
LEMMA WifiStep ==
  ASSUME [StartNext]_startVars
  PROVE  [Next]_vars \/ Reset
<1>1. CASE Next /\ UNCHANGED nodeVars
  BY <1>1
<1>2. CASE UNCHANGED vars
  BY <1>2
<1>3. CASE Reset
  BY <1>3
<1>4. ble_gatt_init => UNCHANGED vars
  BY DEF ble_gatt_init, Call
<1>5. \A call : Succeed(call) \/ Fail(call) => UNCHANGED vars
  BY DEF Succeed, Fail, Call
<1>6. Answer \/ Phone => UNCHANGED vars
  BY DEF Answer, Phone
<1>7. UNCHANGED stackOnly => UNCHANGED vars
  BY DEF stackOnly
<1>8. OnReg \/ OnAttrTab \/ OnAdvStart \/ OnDisconnect \/ OnOther => UNCHANGED vars
  BY <1>7 DEF OnReg, OnAttrTab, OnAdvStart, OnDisconnect, OnOther, callbackVars
<1>9. /\ \A p \in Payloads : OnPayload(p) => UNCHANGED vars
      /\ \A c \in Chars : OnWrite(c) => UNCHANGED vars
  BY <1>7 DEF OnPayload, OnWrite, callbackVars
<1>10. /\ \A c \in Chars : TaskAsserts(c) \/ WriteAsserts(c) => Reset
       /\ PowerCycle => Reset
  BY DEF TaskAsserts, WriteAsserts, PowerCycle
<1>11. UNCHANGED startVars => UNCHANGED vars
  BY DEF startVars
<1> QED BY <1>1, <1>2, <1>3, <1>4, <1>5, <1>6, <1>8, <1>9, <1>10, <1>11
     DEF StartNext, app_main, Callbacks

LEMMA WifiInStart == StartSpec => []Inv
<1>1. StartInit => Inv
  BY InitInv DEF StartInit
<1>2. Inv /\ [StartNext]_startVars => Inv'
  <2> SUFFICES ASSUME Inv, [StartNext]_startVars PROVE Inv'
    OBVIOUS
  <2>1. CASE [Next]_vars
    BY <2>1, NextInv
  <2>2. CASE Reset
    <3>1. /\ main' = "starting" /\ driver' = "idle" /\ events' = <<>>
          /\ s_retry_num' = 0 /\ bits' = {} /\ failures' = 0
      BY <2>2 DEF Reset
    <3>2. TypeOK'
      BY <3>1, RetryAssumption DEF TypeOK
    <3>3. WakeIsLast' /\ IdleIsAccounted' /\ StartIsClean' /\ RetryCounts'
      BY <3>1, RetryAssumption DEF WakeIsLast, IdleIsAccounted, StartIsClean, RetryCounts
    <3> QED BY <3>2, <3>3 DEF Inv
  <2> QED BY <2>1, <2>2, WifiStep
<1> QED BY <1>1, <1>2, PTL DEF StartSpec

-----------------------------------------------------------------------------
(* What follows *)

\* Whatever is called and answered, the variables of app_main and of the
\* Bluetooth callbacks keep their types, and gap_event_handler never has two
\* starts of advertising under way.
THEOREM StartTypeCorrect == StartSpec => []StartTypeOK
<1>1. NodeInv => StartTypeOK
  <2> SUFFICES ASSUME NodeInv PROVE StartTypeOK
    OBVIOUS
  <2> DEFINE starts == {n \in DOMAIN requests : requests[n] = "ADV_START"}
  <2>1. Cardinality(starts) <= 1
    <3>1. CASE starts = {}
      BY <3>1, FS_EmptySet
    <3>2. CASE starts # {}
      <4>1. PICK n \in DOMAIN requests : requests[n] = "ADV_START"
        BY <3>2
      <4>2. starts = {n}
        BY <4>1 DEF NodeInv, SingleRequests
      <4> QED BY <4>2, FS_Singleton
    <3> QED BY <3>1, <3>2
  <2>2. NodeTypes
    BY DEF NodeInv
  <2> QED BY <2>1, <2>2 DEF NodeTypes, StartTypeOK, Requests, EventType
<1> QED BY <1>1, NodeSpecInv, PTL

\* When Bluetooth has nothing left to do, gap_event_handler has put the device
\* on the air or a phone is connected to it, and the service is there, unless
\* an error was logged or the stack failed a request unseen.
THEOREM StartQuietIsUsable == StartSpec => []QuietIsUsable
<1>1. NodeInv => QuietIsUsable
  <2> SUFFICES ASSUME NodeInv, Quiet
               PROVE  /\ logged \/ radio # "off" \/ "ADV_START" \in ignored
                      /\ logged \/ served \/ "SERVICE" \in ignored
    BY DEF QuietIsUsable
  <2>1. <<"ble">> \in made /\ \A q : ~Asked(q) /\ ~Told(q) /\ ~Failed(q)
    BY Silence DEF Quiet
  <2>2. logged \/ served \/ "SERVICE" \in ignored
    BY <2>1 DEF NodeInv, ServiceAccounted, Pending
  <2>3. logged \/ adv_config_done = {}
    BY <2>1 DEF NodeInv, FlagsKept, NodeTypes, Pending
  <2>4. logged \/ radio # "off" \/ "ADV_START" \in ignored
    BY <2>1, <2>3 DEF NodeInv, StartAccounted, Started, Pending
  <2> QED BY <2>2, <2>4
<1> QED BY <1>1, NodeSpecInv, PTL

\* The device goes on the air once both payloads have been answered, its start
\* is asked for only while the radio is free, and a start that was refused
\* unseen is the last one.
THEOREM StartAdvertisesWhole == StartSpec => []AdvertisesWhole
<1>1. NodeInv => AdvertisesWhole
  <2> SUFFICES ASSUME NodeInv PROVE AdvertisesWhole
    OBVIOUS
  <2>1. radio # "off" => adv_config_done = {} /\ Payloads \subseteq payload \cup ignored
    BY DEF NodeInv, StartedWhole, Started
  <2>2. "ADV_START" \in {requests[n] : n \in DOMAIN requests} => Asked("ADV_START")
    BY DEF Asked
  <2>3. "ADV_START" \in ignored => radio = "off" /\ ~Asked("ADV_START")
    BY DEF NodeInv, RefusalFinal, Started
  <2> QED BY <2>1, <2>2, <2>3 DEF NodeInv, OneStart, AdvertisesWhole
<1> QED BY <1>1, NodeSpecInv, PTL

\* An assertion of xQueueReceive or xQueueSend on a queue that is not there
\* has a logged failure, or a phone faster than app_main, as its cause.
THEOREM StartAssertIsExplained == StartSpec => AssertIsExplained
<1> DEFINE Explained == \A c \in Chars : /\ TaskAsserts(c) => logged
                                         /\ WriteAsserts(c) => (logged \/ ~Booted)
<1>1. NodeInv /\ [StartNext]_startVars => [Explained]_startVars
  BY TaskAssertsCause, WriteAssertsCause
<1> QED BY <1>1, NodeSpecInv, PTL DEF StartSpec, AssertIsExplained

\* The counter of event_handler and its event group keep their types when
\* the chip resets at any point of app_main.
THEOREM StartWifiTypeCorrect == StartSpec => []TypeOK
<1>1. Inv => TypeOK
  BY DEF Inv
<1> QED BY <1>1, WifiInStart, PTL

\* The promise of the Wi-Fi handler holds in the whole start-up,
\* across resets.
THEOREM StartNeverStranded == StartSpec => []NeverStranded
<1>1. Inv => NeverStranded
  BY DEF Inv, IdleIsAccounted, NeverStranded, Offline
<1> QED BY <1>1, WifiInStart, PTL

\* Neither a reset nor anything in app_main sets WIFI_FAIL_BIT before the
\* attempts of event_handler are used up.
THEOREM StartFailIsEarned == StartSpec => FailIsEarned
<1>1. Inv /\ [StartNext]_startVars => [Earned]_vars
  <2> SUFFICES ASSUME Inv, [StartNext]_startVars PROVE [Earned]_vars
    OBVIOUS
  <2>1. CASE [Next]_vars
    BY <2>1, FailIsEarnedStep
  <2>2. CASE Reset
    BY <2>2 DEF Reset, Earned
  <2> QED BY <2>1, <2>2, WifiStep
<1> QED BY <1>1, WifiInStart, PTL DEF StartSpec, FailIsEarned, Earned
=============================================================================
