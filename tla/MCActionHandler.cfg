SPECIFICATION Spec
CONSTANTS
  single = single
  sine = sine
  Actions <- MCActions
  Singles <- MCSingles
  Sins <- MCSins
  Presets <- MCPresets
  Values = {v0}
  NoValue = none
  Ticks = 2
  MaxPosts = 2
INVARIANTS OneWait Armed QuietPreset TargetHit
CHECK_DEADLOCK FALSE
