SPECIFICATION FairSpec
CONSTANTS
  single = single
  sine = sine
  Actions <- MCActions
  Singles <- MCSingles
  Sins <- MCSins
  Presets <- MCPresets
  Values = {v0, v1}
  NoValue = none
  Ticks = 2
  MaxPosts = 1
INVARIANTS TypeOK
PROPERTIES SenderSpec KeepsFiring SingleLeaves
CHECK_DEADLOCK FALSE
