SPECIFICATION FairSpec
CONSTANTS
  single = single
  sine = sine
  Actions <- MCActions
  Singles <- MCSingles
  Sins <- MCSins
  Presets <- MCPresets
  Values = {v0}
  NoValue = none
  Ticks = 2
  MaxPosts = 1
PROPERTIES PausedStops
CHECK_DEADLOCK FALSE
