SPECIFICATION Spec
CONSTANTS
  poller = poller
  main = main
  other = other
  ch1 = ch1
  f1 = f1
  Goroutines = {poller, main}
  NoOne = NoOne
  May <- PollAndUse
  MaxCalls <- ConnectThenTwo
  QuotaModulus = 4
  PubIds = {1, 2}
  BrokerIds = {}
  HasStorage = TRUE
  QoSLevels = {1, 2}
  PacketReceiveMaximum = 2
  ReceiveMaxima = {3}
  Channels = {ch1}
  NoChannel = NoChannel
  Filters = {f1}
  TopicLists <- OneChannel
  Careful = TRUE
  DetectsMapRaces = FALSE
  EventCapacity = 1
  BrokerCodes = {0}
  ConnackCodes = {0}
  RefusesTopics = FALSE
  BrokerQoS = {0}
  MaxMessages = 1
  Unprompted = {}
  MaxLosses = 0
  PingMayBeLate = FALSE
INVARIANTS NoSignalAfterClose
CHECK_DEADLOCK FALSE
