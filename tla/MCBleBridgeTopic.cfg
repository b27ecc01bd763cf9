\* The claim of the names in BLE_GATTS_SERVER.h, on the bounds of MCBleBridge.cfg.
CONSTANTS
  SubscribeSize = 1
  PublishSize = 1
  MessageSize = 2
  MaxSubscriptions = 1
  MaxTopics = 3
  MaxMessages = 3
SPECIFICATION Spec
INVARIANT UnderChosenTopic
\* The phone stops after MaxWrites.
CHECK_DEADLOCK FALSE
