SPECIFICATION FairSpec
CONSTANTS
  c1 = c1
  c2 = c2
  can0 = can0
  can1 = can1
  Calls <- TwoCalls
  Interfaces <- TwoInterfaces
  Everything = Everything
  Filters <- OneFilter
  MaxFrames = 2
INVARIANTS
  TypeOK
  InOrder
PROPERTIES
  BroadcastEnds
  Delivered
  DoneReturns
  FeedSpec
