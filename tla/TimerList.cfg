CONSTANTS
  Keys = {"clear", "check", "refuse"}
  Durations = {1, 2}
  MaxLate = 1
  BackStep = 1
  Backs = 1
  MaxCells = 4
SPECIFICATION Spec
INVARIANTS
  TypeOK
  ListsWhole
  CellsBounded
PROPERTIES
  TimerSpec
  Fires
