---------------------------- MODULE NodeTwoStart ----------------------------
(***************************************************************************)
(* NodeTwo from its reset on: app_main waits for the Wi-Fi station, then   *)
(* starts MQTT and Bluetooth, and only then the drivers, the queues and    *)
(* the tasks.  Meanwhile Bluetooth works: the stack answers requests in    *)
(* order, its callbacks run one after the other in the Bluetooth task,     *)
(* advertising begins and a phone connects and writes.  A value for a      *)
(* queue that does not exist trips an assertion, which resets the chip.    *)
(* The stack may fail every request.  Some failures the code logs; the     *)
(* others it does not look at, and a history variable keeps those.         *)
(***************************************************************************)
EXTENDS WifiStation, FiniteSets

CONSTANTS MaxResets,    \* bound: resets; a call of app_main fails only before the last
          MaxEvents     \* bound: the phone acts while fewer events wait

ASSUME StartAssumption == MaxResets \in Nat /\ MaxEvents \in Nat

VARIABLES boot,             \* calls of app_main done since wifi_init
          made,             \* those of them that succeeded
          requests,         \* what the Bluetooth stack was asked for
          btc,              \* events waiting for the callbacks
          adv_config_done,  \* flags of the payloads that are not yet set
          payload,          \* payloads the stack has
          radio,
          served,           \* the service has been started
          logged,           \* an error was logged since the reset
          ignored,          \* history: requests that failed and whose result was not
                            \* looked at, since the reset
          resets

nodeVars == <<boot, made, requests, btc, adv_config_done, payload, radio, served, logged,
              ignored, resets>>
startVars == <<vars, nodeVars>>

Chars    == {"subscribe", "publish", "message"}
Payloads == {"ADV_CONFIG", "SCAN_RSP_CONFIG"}

Queue(c) == <<"queue", c>>
Task(c)  == <<"task", c>>

\* Mutant: each task is created before its queue.
CallsSwapped ==
  << <<"mqtt">>, <<"ble">>, <<"led">>, <<"servo">>,
     Task("subscribe"), Queue("subscribe"), Task("publish"), Queue("publish"),
     Task("message"), Queue("message"), Task("door") >>

Calls ==
  << <<"mqtt">>, <<"ble">>, <<"led">>, <<"servo">>,
     Queue("subscribe"), Task("subscribe"), Queue("publish"), Task("publish"),
     Queue("message"), Task("message"), Task("door") >>

Booted == boot = Len(Calls)

NodeInit ==
  /\ boot = 0 /\ made = {}
  /\ requests = <<>> /\ btc = <<>>
  /\ adv_config_done = {} /\ payload = {}
  /\ radio = "off" /\ served = FALSE
  /\ logged = FALSE /\ ignored = {}

StartInit == Init /\ NodeInit /\ resets = 0

\* Everything in RAM is lost; the Wi-Fi driver and the radio start again.
Reset ==
  /\ resets' = resets + 1
  /\ main' = "starting" /\ driver' = "idle" /\ events' = <<>>
  /\ s_retry_num' = 0 /\ bits' = {} /\ failures' = 0
  /\ boot' = 0 /\ made' = {}
  /\ requests' = <<>> /\ btc' = <<>>
  /\ adv_config_done' = {} /\ payload' = {}
  /\ radio' = "off" /\ served' = FALSE
  /\ logged' = FALSE /\ ignored' = {}

PowerCycle == resets < MaxResets /\ Reset

-----------------------------------------------------------------------------
(* app_main after wifi_init *)

Call(call) ==
  /\ main \in {"connected", "failed"}
  /\ ~Booted
  /\ Calls[boot + 1] = call
  /\ boot' = boot + 1
  /\ UNCHANGED <<vars, btc, adv_config_done, payload, radio, served, ignored, resets>>

\* Registers the callbacks and the application.
ble_gatt_init ==
  /\ Call(<<"ble">>)
  /\ made' = made \cup {<<"ble">>}
  /\ requests' = Append(requests, "REG")
  /\ UNCHANGED logged

Succeed(call) ==
  /\ call # <<"ble">>
  /\ Call(call)
  /\ made' = made \cup {call}
  /\ UNCHANGED <<requests, logged>>

\* ble_gatt_init returns at its first error; xQueueCreate or xTaskCreate finds
\* no memory.  In every case the error is logged and app_main goes on.  Bound:
\* one failure in a start.
Fail(call) ==
  /\ call[1] \in {"ble", "queue", "task"}
  /\ resets < MaxResets /\ Cardinality(made) = boot
  /\ Call(call)
  /\ logged' = TRUE
  /\ UNCHANGED <<made, requests>>

app_main == ble_gatt_init \/ \E n \in DOMAIN Calls : Succeed(Calls[n]) \/ Fail(Calls[n])

\* The task of a queue that could not be created: xQueueReceive asserts.
TaskAsserts(c) == Task(c) \in made /\ Queue(c) \notin made /\ Reset

-----------------------------------------------------------------------------
(* The Bluetooth stack and the phone *)

Event(kind, ok) == [kind |-> kind, ok |-> ok]

Deliver(e) == btc' = Append(btc, e)

\* The answers whose status no callback acts on.
Unread == Payloads \cup {"SERVICE"}

\* The stack answers requests in order; each may fail.
Answer ==
  /\ requests # <<>>
  /\ requests' = Tail(requests)
  /\ \E ok \in BOOLEAN : LET done == IF ok THEN {Head(requests)} ELSE {} IN
       /\ Deliver(Event(Head(requests), ok))
       /\ payload' = payload \cup (Payloads \cap done)
       /\ radio' = IF "ADV_START" \in done THEN "advertising" ELSE radio
       /\ served' = (served \/ "SERVICE" \in done)
       /\ ignored' = ignored \cup ((Unread \cap {Head(requests)}) \ done)
  /\ UNCHANGED <<vars, boot, made, adv_config_done, logged, resets>>

\* The link carries the phone's writes in order.  A connection ends advertising.
Phone ==
  /\ Len(btc) < MaxEvents
  /\ \/ radio = "advertising" /\ radio' = "connected" /\ Deliver(Event("CONNECT", TRUE))
     \/ radio = "connected" /\ radio' = "off" /\ Deliver(Event("DISCONNECT", TRUE))
     \/ /\ radio = "connected" /\ served
        /\ UNCHANGED radio
        /\ \E c \in Chars : (Queue(c) \in made \/ resets < MaxResets) /\ Deliver(Event(c, TRUE))
  /\ UNCHANGED <<vars, boot, made, requests, adv_config_done, payload, served, logged,
                 ignored, resets>>

-----------------------------------------------------------------------------
(* gap_event_handler and gatts_event_handler, in the Bluetooth task *)

On(kind) == btc # <<>> /\ Head(btc).kind = kind /\ btc' = Tail(btc)

stackOnly    == <<vars, boot, made, payload, radio, served, resets>>
callbackVars == <<stackOnly, requests, adv_config_done, logged, ignored>>

\* The stack takes a request or refuses it at once.
Ask(asked, request) == {asked, Append(asked, request)}

\* The same where the code does not look at what the call returns.
AskUnchecked(request) ==
  /\ requests' \in Ask(requests, request)
  /\ ignored' = IF requests' = requests THEN ignored \cup {request} ELSE ignored

\* Both flags are set, whether or not the stack took the payloads; an error is
\* logged.  A failed registration returns at once.
OnReg ==
  /\ On("REG")
  /\ IF Head(btc).ok
     THEN \E first \in Ask(requests, "ADV_CONFIG") : \E second \in Ask(first, "SCAN_RSP_CONFIG") :
            /\ requests' \in Ask(second, "ATTR_TAB")
            /\ adv_config_done' = adv_config_done \cup Payloads
            /\ logged' = (logged \/ Len(requests') < Len(requests) + 3)
     ELSE logged' = TRUE /\ UNCHANGED <<requests, adv_config_done>>
  /\ UNCHANGED <<stackOnly, ignored>>

\* Mutant: advertising starts with the first payload.
OnPayloadEach(p) ==
  /\ On(p)
  /\ adv_config_done' = adv_config_done \ {p}
  /\ AskUnchecked("ADV_START")
  /\ UNCHANGED <<stackOnly, logged>>

\* Whether the stack has taken the payload is not looked at.
OnPayload(p) ==
  /\ On(p)
  /\ adv_config_done' = adv_config_done \ {p}
  /\ IF adv_config_done' = {} THEN AskUnchecked("ADV_START") ELSE UNCHANGED <<requests, ignored>>
  /\ UNCHANGED <<stackOnly, logged>>

OnAttrTab ==
  /\ On("ATTR_TAB")
  /\ IF Head(btc).ok THEN AskUnchecked("SERVICE") ELSE UNCHANGED <<requests, ignored>>
  /\ logged' = (logged \/ ~Head(btc).ok)
  /\ UNCHANGED <<stackOnly, adv_config_done>>

\* A failed start is logged, not repeated.
OnAdvStart ==
  /\ On("ADV_START")
  /\ logged' = (logged \/ ~Head(btc).ok)
  /\ UNCHANGED <<stackOnly, requests, adv_config_done, ignored>>

\* Mutant: nobody can find the device after the first phone has left.
OnDisconnectStaysOff ==
  On("DISCONNECT") /\ UNCHANGED callbackVars

OnDisconnect ==
  /\ On("DISCONNECT")
  /\ AskUnchecked("ADV_START")
  /\ UNCHANGED <<stackOnly, adv_config_done, logged>>

\* xQueueSend to an existing queue is part of BleBridge.
OnWrite(c) ==
  On(c) /\ Queue(c) \in made /\ UNCHANGED callbackVars

\* xQueueSend to a queue that is still NULL asserts.
WriteAsserts(c) ==
  btc # <<>> /\ Head(btc).kind = c /\ Queue(c) \notin made /\ Reset

\* Logged only: the encryption is left to the stack.
OnOther ==
  /\ On("CONNECT") \/ On("SERVICE")
  /\ UNCHANGED callbackVars

Callbacks ==
  \/ OnReg \/ OnAttrTab \/ OnAdvStart \/ OnDisconnect \/ OnOther
  \/ \E p \in Payloads : OnPayload(p)
  \/ \E c \in Chars : OnWrite(c) \/ WriteAsserts(c)

-----------------------------------------------------------------------------
StartNext ==
  \/ Next /\ UNCHANGED nodeVars
  \/ app_main \/ (\E c \in Chars : TaskAsserts(c))
  \/ Answer \/ Phone \/ Callbacks
  \/ PowerCycle

\* app_main, the stack and its task are scheduled; the phone may do nothing.
StartFairness ==
  /\ Fairness
  /\ WF_startVars(app_main) /\ WF_startVars(Answer) /\ WF_startVars(Callbacks)
  /\ \A c \in Chars : WF_startVars(TaskAsserts(c))

StartSpec == StartInit /\ [][StartNext]_startVars /\ StartFairness

-----------------------------------------------------------------------------
Kinds == {"REG", "ATTR_TAB", "ADV_START", "SERVICE", "CONNECT", "DISCONNECT"} \cup Payloads \cup Chars

\* The variables keep their types; the stack never has two starts of
\* advertising to answer.
StartTypeOK ==
  /\ boot \in 0 .. Len(Calls)
  /\ made \subseteq {Calls[n] : n \in 1 .. boot}
  /\ requests \in Seq({"REG", "ATTR_TAB", "ADV_START", "SERVICE"} \cup Payloads)
  /\ Cardinality({n \in DOMAIN requests : requests[n] = "ADV_START"}) <= 1
  /\ btc \in Seq([kind : Kinds, ok : BOOLEAN])
  /\ adv_config_done \subseteq Payloads
  /\ payload \subseteq Payloads
  /\ radio \in {"off", "advertising", "connected"}
  /\ served \in BOOLEAN
  /\ logged \in BOOLEAN
  /\ ignored \subseteq Unread \cup {"ADV_START"}
  /\ resets \in 0 .. MaxResets

Quiet == <<"ble">> \in made /\ requests = <<>> /\ btc = <<>>

\* When Bluetooth has nothing left to do, a phone can find the device or is
\* connected to it, and finds the service, or an error has been logged, or the
\* stack failed the very request and its result was not looked at: no start of
\* advertising is lost between the three events that ask for one, and the
\* failures that go unseen are those two.
QuietIsUsable ==
  Quiet => /\ logged \/ radio # "off" \/ "ADV_START" \in ignored
           /\ logged \/ served \/ "SERVICE" \in ignored

\* The device is never on the air before both payloads have been answered; it
\* lacks one only if the stack could not set it, which the code does not look
\* at.  No start is asked for while the radio is in use, and once a start was
\* refused unseen there is no other and the device stays off the air.
AdvertisesWhole ==
  /\ radio # "off" => adv_config_done = {} /\ Payloads \subseteq payload \cup ignored
  /\ "ADV_START" \in {requests[n] : n \in DOMAIN requests} => radio = "off"
  /\ "ADV_START" \in ignored =>
       radio = "off" /\ "ADV_START" \notin {requests[n] : n \in DOMAIN requests}

\* An assertion on a missing queue resets the chip only if a creation failed
\* and said so, or if a phone was faster than app_main.
AssertIsExplained ==
  [][\A c \in Chars : /\ TaskAsserts(c) => logged
                      /\ WriteAsserts(c) => (logged \/ ~Booted)]_startVars

\* Whatever becomes of the Wi-Fi connection, start-up ends once the resets do,
\* and the device does not stay off the air unless an error was logged or its
\* start was refused, which the code does not look at.
NodeComesUp == <>[]Booted /\ []<>(radio # "off" \/ logged \/ "ADV_START" \in ignored)
=============================================================================
