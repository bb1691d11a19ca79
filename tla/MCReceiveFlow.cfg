SPECIFICATION Spec
CONSTANTS
  poller = poller
  main = main
  other = other
  ch1 = ch1
  f1 = f1
  Goroutines = {poller}
  NoOne = NoOne
  May <- PollAndPublish
  MaxCalls <- Twice
  QuotaModulus = 4
  PubIds = {1, 2}
  BrokerIds = {3, 4, 5}
  HasStorage = TRUE
  QoSLevels = {1, 2}
  PacketReceiveMaximum = 2
  ReceiveMaxima = {2}
  Channels = {}
  NoChannel = NoChannel
  Filters = {}
  TopicLists = {}
  Careful = TRUE
  DetectsMapRaces = FALSE
  EventCapacity = 1
  BrokerCodes = {0}
  ConnackCodes = {0, 128}
  RefusesTopics = FALSE
  BrokerQoS = {1, 2}
  MaxMessages = 4
  Unprompted = {"AUTH", "PINGREQ"}
  MaxLosses = 2
  PingMayBeLate = FALSE
INVARIANTS ReceiveQuotaExact ConformingBrokerNotRejected
CHECK_DEADLOCK FALSE
