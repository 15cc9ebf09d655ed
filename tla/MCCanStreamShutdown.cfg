SPECIFICATION FairSpec
CONSTANTS
  c1 = c1
  c2 = c2
  can0 = can0
  can1 = can1
  Calls <- TwoCalls
  Interfaces <- OneInterface
  Everything = Everything
  Filters <- NoFilter
  MaxFrames = 1
PROPERTIES
  ShutdownExits
