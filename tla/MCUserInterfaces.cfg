SPECIFICATION UiSpec
CONSTANTS
  Replay <- MCReplay
  Users <- MCUsers
  SendMessages <- MCMessages
  PresetFile <- MCPresetFile
  SendValues = {4, 5}
  MaxEdits = 1
  MaxActions = 2
  FloatBits <- MCFloatBits
  FloatValue <- MCFloatValue
  FloatRaw <- MCFloatRaw
  Short <- MCShort
  Arrivals <- MCArrivals
  GraphDbcs <- MCGraphDbcs
  GraphFile <- MCGraphFile
  Axes = {0}
  MaxPoints = 2
  MaxReceived = 3
  MaxTabs = 2
  MaxSeries = 2
INVARIANTS
  UiTypeOK
  KeysTaken
  SelectionShown
  CreatedSound
  SentAsShown
  SeriesFaithful
PROPERTIES
  HighlightKept
CHECK_DEADLOCK FALSE
