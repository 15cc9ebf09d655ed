SPECIFICATION FairSpec
CONSTANTS
  can0 = can0
  can1 = can1
  can2 = can2
  speed = speed
  gear = gear
  Interfaces <- TwoInterfaces
  Recording <- ShortRecording
  Listed <- MCListed
  MaxTicks = 5
INVARIANTS
  TypeOK
  NeverEarly
  NoBurst
  Replayed
PROPERTIES
  StopJoins
  PlaysOn
