---------------------------- MODULE WifiStation ----------------------------
(***************************************************************************)
(* The Wi-Fi station of NodeTwo (components/WIFI): app_main starts the     *)
(* driver and blocks on an event group; the handler, in the event-loop     *)
(* task, connects, retries and sets the bits.  The driver posts its events *)
(* to the queue of the default event loop, so the handler may run long     *)
(* after the link has changed again.                                       *)
(***************************************************************************)
EXTENDS Integers, Sequences

CONSTANTS EXAMPLE_ESP_MAXIMUM_RETRY,     \* 5 in WIFI_STATION.h
          EventQueueSize                 \* capacity of the default event loop

ASSUME RetryAssumption ==
  EXAMPLE_ESP_MAXIMUM_RETRY \in Nat /\ EventQueueSize \in Nat \ {0}

VARIABLES main,         \* app_main inside wifi_init_sta
          driver,       \* state of the link: the Wi-Fi driver and the network
          events,       \* queue of the default event loop
          s_retry_num,
          bits,         \* s_wifi_event_group
          failures      \* history: disconnects handled since the last address

vars == <<main, driver, events, s_retry_num, bits, failures>>

Events == {"STA_START", "STA_DISCONNECTED", "STA_GOT_IP"}
Bits   == {"CONNECTED", "FAIL"}

Init ==
  /\ main = "starting"
  /\ driver = "idle"
  /\ events = <<>>
  /\ s_retry_num = 0
  /\ bits = {}
  /\ failures = 0

-----------------------------------------------------------------------------
(* wifi_init_sta *)

\* A post to a full queue blocks its sender.
Post(e) == Len(events) < EventQueueSize /\ events' = Append(events, e)

\* The handlers are registered before esp_wifi_start, which posts STA_START.
wifi_start ==
  /\ main = "starting"
  /\ main' = "waiting"
  /\ Post("STA_START")
  /\ UNCHANGED <<driver, s_retry_num, bits, failures>>

\* xEventGroupWaitBits, any bit, not cleared on exit; CONNECTED is tested first.
WaitBits ==
  /\ main = "waiting"
  /\ bits # {}
  /\ main' = IF "CONNECTED" \in bits THEN "connected" ELSE "failed"
  /\ UNCHANGED <<driver, events, s_retry_num, bits, failures>>

-----------------------------------------------------------------------------
(* The driver: every attempt of esp_wifi_connect is answered. *)

Associate ==
  /\ driver = "connecting"
  /\ driver' = "associated"
  /\ UNCHANGED <<main, events, s_retry_num, bits, failures>>

ObtainIp ==
  /\ driver = "associated"
  /\ driver' = "up"
  /\ Post("STA_GOT_IP")
  /\ UNCHANGED <<main, s_retry_num, bits, failures>>

\* The attempt fails, the access point is lost before or after DHCP.
Disconnect ==
  /\ driver # "idle"
  /\ driver' = "idle"
  /\ Post("STA_DISCONNECTED")
  /\ UNCHANGED <<main, s_retry_num, bits, failures>>

\* The lease expires; a new address is announced as the first one was.  The
\* event of the loss (IP_EVENT_STA_LOST_IP) is not registered for.
LoseIp ==
  /\ driver = "up"
  /\ driver' = "associated"
  /\ UNCHANGED <<main, events, s_retry_num, bits, failures>>

-----------------------------------------------------------------------------
(* event_handler *)

\* A connect request to a driver that is already at work is refused.
esp_wifi_connect == driver' = IF driver = "idle" THEN "connecting" ELSE driver

Take(e) ==
  /\ events # <<>>
  /\ Head(events) = e
  /\ events' = Tail(events)
  /\ UNCHANGED main

OnStart ==
  /\ Take("STA_START")
  /\ esp_wifi_connect
  /\ UNCHANGED <<s_retry_num, bits, failures>>

\* History only: saturates one above the last retry.
CountFailure ==
  failures' = IF failures > EXAMPLE_ESP_MAXIMUM_RETRY THEN failures ELSE failures + 1

\* Mutants: the retry is counted but not requested; one retry too few.
OnDisconnectForgetsConnect ==
  /\ Take("STA_DISCONNECTED")
  /\ s_retry_num < EXAMPLE_ESP_MAXIMUM_RETRY
  /\ s_retry_num' = s_retry_num + 1
  /\ CountFailure
  /\ UNCHANGED <<driver, bits>>

RetryUnbounded ==
  /\ Take("STA_DISCONNECTED")
  /\ s_retry_num <= EXAMPLE_ESP_MAXIMUM_RETRY
  /\ esp_wifi_connect
  /\ s_retry_num' = s_retry_num + 1
  /\ CountFailure
  /\ UNCHANGED bits

Retry ==
  /\ Take("STA_DISCONNECTED")
  /\ s_retry_num < EXAMPLE_ESP_MAXIMUM_RETRY
  /\ esp_wifi_connect
  /\ s_retry_num' = s_retry_num + 1
  /\ CountFailure
  /\ UNCHANGED bits

\* Mutant: giving up is not announced.
GiveUpSilently ==
  /\ Take("STA_DISCONNECTED")
  /\ s_retry_num >= EXAMPLE_ESP_MAXIMUM_RETRY
  /\ CountFailure
  /\ UNCHANGED <<driver, s_retry_num, bits>>

GiveUp ==
  /\ Take("STA_DISCONNECTED")
  /\ s_retry_num >= EXAMPLE_ESP_MAXIMUM_RETRY
  /\ bits' = bits \cup {"FAIL"}
  /\ CountFailure
  /\ UNCHANGED <<driver, s_retry_num>>

\* Mutant: the count of the last outage is kept.
OnGotIpKeepsCount ==
  /\ Take("STA_GOT_IP")
  /\ bits' = bits \cup {"CONNECTED"}
  /\ failures' = 0
  /\ UNCHANGED <<driver, s_retry_num>>

OnGotIp ==
  /\ Take("STA_GOT_IP")
  /\ s_retry_num' = 0
  /\ bits' = bits \cup {"CONNECTED"}
  /\ failures' = 0
  /\ UNCHANGED driver

event_handler == OnStart \/ Retry \/ GiveUp \/ OnGotIp

-----------------------------------------------------------------------------
Next ==
  \/ wifi_start \/ WaitBits
  \/ Associate \/ ObtainIp \/ Disconnect \/ LoseIp
  \/ event_handler

\* app_main and the event loop are scheduled, and an attempt that has begun is
\* answered; an established link need not break.
Fairness ==
  /\ WF_vars(wifi_start) /\ WF_vars(WaitBits) /\ WF_vars(event_handler)
  /\ WF_vars((driver \in {"connecting", "associated"}) /\ (Associate \/ ObtainIp \/ Disconnect))

Spec == Init /\ [][Next]_vars /\ Fairness

-----------------------------------------------------------------------------
\* The variables keep their types; the retry counter stays within its bound.
TypeOK ==
  /\ main \in {"starting", "waiting", "connected", "failed"}
  /\ driver \in {"idle", "connecting", "associated", "up"}
  /\ events \in Seq(Events)
  /\ s_retry_num \in 0 .. EXAMPLE_ESP_MAXIMUM_RETRY
  /\ bits \subseteq Bits
  /\ failures \in 0 .. EXAMPLE_ESP_MAXIMUM_RETRY + 1

Offline == main # "starting" /\ driver = "idle" /\ events = <<>>

\* event_handler never leaves the station offline with nothing pending unless
\* it has said so: every disconnect, however late it is handled, either
\* starts a new attempt or is announced by WIFI_FAIL_BIT.
NeverStranded == Offline => "FAIL" \in bits

\* The retries of one outage are not charged to the next: WIFI_FAIL_BIT is set
\* only when the last EXAMPLE_ESP_MAXIMUM_RETRY + 1 attempts all failed.
FailIsEarned ==
  [][("FAIL" \notin bits /\ "FAIL" \in bits') => failures' = EXAMPLE_ESP_MAXIMUM_RETRY + 1]_vars
=============================================================================
