SPECIFICATION FairSpec
CONSTANTS
  can0 = can0
  can1 = can1
  Interfaces <- OneInterface
  Everything = Everything
  MaxFrames = 2
  MaxSends = 1
  MaxFaults = 3
  MaxEvents = 3
  MaxRx = 2
INVARIANTS TypeOK AsIfLocal
PROPERTIES Reconnects Arrives StopEnds
