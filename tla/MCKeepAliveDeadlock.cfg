SPECIFICATION Spec
CONSTANTS
  poller = poller
  main = main
  other = other
  ch1 = ch1
  f1 = f1
  Goroutines = {poller, main}
  NoOne = NoOne
  May <- PollAndKeepAlive
  MaxCalls <- Twice
  QuotaModulus = 4
  PubIds = {1}
  BrokerIds = {}
  HasStorage = TRUE
  QoSLevels = {1}
  PacketReceiveMaximum = 2
  ReceiveMaxima = {2}
  Channels = {}
  NoChannel = NoChannel
  Filters = {}
  TopicLists = {}
  Careful = TRUE
  DetectsMapRaces = FALSE
  EventCapacity = 1
  BrokerCodes = {0}
  ConnackCodes = {0}
  RefusesTopics = FALSE
  BrokerQoS = {}
  MaxMessages = 0
  Unprompted = {}
  MaxLosses = 0
  PingMayBeLate = FALSE
INVARIANTS NoLockCycle
CHECK_DEADLOCK FALSE
