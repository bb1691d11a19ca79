SPECIFICATION Spec
CONSTANTS
  poller = poller
  main = main
  other = other
  ch1 = ch1
  f1 = f1
  Goroutines = {poller, main}
  NoOne = NoOne
  May <- PollAndPublish
  MaxCalls <- ConnectThenFour
  QuotaModulus = 4
  PubIds = {1, 2, 3}
  BrokerIds = {4}
  HasStorage = TRUE
  QoSLevels = {0, 1, 2}
  PacketReceiveMaximum = 2
  ReceiveMaxima = {1, 2}
  Channels = {}
  NoChannel = NoChannel
  Filters = {}
  TopicLists = {}
  Careful = TRUE
  DetectsMapRaces = FALSE
  EventCapacity = 1
  BrokerCodes = {0, 128}
  ConnackCodes = {0}
  RefusesTopics = FALSE
  BrokerQoS = {2}
  MaxMessages = 2
  Unprompted = {}
  MaxLosses = 0
  PingMayBeLate = FALSE
INVARIANTS ReceiveMaximumRespected SendQuotaSound NoLockCycle MutexReleased
CHECK_DEADLOCK FALSE
