CONSTANTS
  NumChans = 2
  Layouts = {1, 2}
  FirstLayout = 2
  Packages = {"cut", "single"}
SPECIFICATION Spec
INVARIANTS
  ClearNotLost
  RefusalEnds
PROPERTY
  CutStopsAll
