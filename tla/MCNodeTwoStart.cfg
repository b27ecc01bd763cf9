\* Fewer Wi-Fi retries than in the code; one reset, and two events at a time
\* from the phone.
CONSTANTS
  EXAMPLE_ESP_MAXIMUM_RETRY = 2
  EventQueueSize = 2
  MaxResets = 1
  MaxEvents = 2
SPECIFICATION StartSpec
INVARIANTS
  TypeOK
  NeverStranded
  StartTypeOK
  QuietIsUsable
  AdvertisesWhole
PROPERTIES
  FailIsEarned
  AssertIsExplained
  NodeComesUp
\* A station that has given up and a stack that could not be registered do
\* nothing more.
CHECK_DEADLOCK FALSE
