SPECIFICATION Spec
CONSTANTS
  gui1 = gui1
  gui2 = gui2
  Clients <- TwoClients
  Keys = {k1}
  NoPath = NoPath
  MaxSeconds = 1
  MaxEntries = 2
  MaxCalls = 2
PROPERTY
  ClosedLogsKept
CHECK_DEADLOCK FALSE
