\* Two streams with channels of two, three publishers: a full channel, and leaving under a publish.
CONSTANTS
  Streams = {s1, s2}
  Publishers = {p1, p2, p3}
  Capacity = 2
SPECIFICATION FairSpec
CHECK_DEADLOCK FALSE
INVARIANTS
  TypeOK
  NoSendOnClosedChannel
  NothingElseIsLost
  PublicationOrder
PROPERTIES
  EveryPublishReturns
  EveryLeaverIsRemoved
