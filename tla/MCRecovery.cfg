SPECIFICATION Spec
CONSTANTS
  poller = poller
  main = main
  other = other
  ch1 = ch1
  f1 = f1
  Goroutines = {poller, main}
  NoOne = NoOne
  May <- PollAndUse
  MaxCalls <- Twice
  QuotaModulus = 4
  PubIds = {1}
  BrokerIds = {3}
  HasStorage = TRUE
  QoSLevels = {2}
  PacketReceiveMaximum = 1
  ReceiveMaxima = {2}
  Channels = {ch1}
  NoChannel = NoChannel
  Filters = {f1}
  TopicLists <- OneChannel
  Careful = TRUE
  DetectsMapRaces = FALSE
  EventCapacity = 1
  BrokerCodes = {0}
  ConnackCodes = {0}
  RefusesTopics = TRUE
  BrokerQoS = {2}
  MaxMessages = 1
  Unprompted = {}
  MaxLosses = 2
  PingMayBeLate = FALSE
INVARIANTS StoredUntilAcked KeptPubrecPending NoStaleBinding NoOtherPanic
PROPERTIES OwnTopicOnly
CHECK_DEADLOCK FALSE
