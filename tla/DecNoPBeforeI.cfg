CONSTANTS
  NumChans = 1
  Layouts = {1}
  FirstLayout = 1
  Packages = {"start", "endI", "endP", "singleP"}
SPECIFICATION Spec
INVARIANT
  NoPBeforeI
