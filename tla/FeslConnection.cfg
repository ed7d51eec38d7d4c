SPECIFICATION FairSpec
CONSTANTS
  Streams <- AllStreams
  HeaderLen = 2
  Interval = 1
  MaxPackets = 3
  Window = 1
CHECK_DEADLOCK FALSE
INVARIANTS ResponsesFollowRequests
PROPERTIES EveryRequestAnswered SilentClientChallenged ShutdownEndsSessions
