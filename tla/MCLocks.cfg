SPECIFICATION Spec
CONSTANTS
  poller = poller
  main = main
  other = other
  ch1 = ch1
  f1 = f1
  Goroutines = {poller, main, other}
  NoOne = NoOne
  May <- Everything
  MaxCalls <- Once
  QuotaModulus = 4
  PubIds = {1}
  BrokerIds = {1}
  HasStorage = TRUE
  QoSLevels = {2}
  PacketReceiveMaximum = 0
  ReceiveMaxima = {0, 1}
  Channels = {ch1}
  NoChannel = NoChannel
  Filters = {f1}
  TopicLists <- SameChannel
  Careful = FALSE
  DetectsMapRaces = TRUE
  EventCapacity = 1
  BrokerCodes = {0}
  ConnackCodes = {0}
  RefusesTopics = FALSE
  BrokerQoS = {2}
  MaxMessages = 1
  Unprompted = {"DISCONNECT"}
  MaxLosses = 1
  PingMayBeLate = TRUE
INVARIANTS TypeOK LockOwners PollingConnected NoSelfDeadlock
CHECK_DEADLOCK FALSE
