\* Queues short enough to be full within the writes.
CONSTANTS
  SubscribeSize = 1
  PublishSize = 1
  MessageSize = 2
  MaxSubscriptions = 1
  MaxTopics = 3
  MaxMessages = 3
SPECIFICATION Spec
INVARIANTS
  TypeOK
  TopicSettles
PROPERTIES
  ImplementsChannel
  BridgeDrains
\* The phone stops after MaxWrites.
CHECK_DEADLOCK FALSE
