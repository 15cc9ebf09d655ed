SPECIFICATION Spec
CONSTANTS
  Interfaces <- MCInterfaces
  Ids <- MCIds
  Payloads <- MCPayloads
  Bus <- MCBus
  Dbc <- MCDbc
  Safe <- MCSafe
  MaxFrames = 3
  MaxLogs = 2
INVARIANTS
  TypeOK
  LastDecoded
  RawExact
  DataExact
CHECK_DEADLOCK FALSE
