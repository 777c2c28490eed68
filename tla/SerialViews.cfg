CONSTANTS
  Keyed <- MCKeyed
  FirstView <- MCFirst
  Scenes = {3}
  Cams = {0, 5}
  NumNodes = 2
  MaxQueue = 1
  MaxEvents = 1
SPECIFICATION Spec
CHECK_DEADLOCK FALSE
INVARIANTS
  TypeOK
  NodesKept
  RowsInTable
PROPERTIES
  ViewReturns
  AlarmEnds
