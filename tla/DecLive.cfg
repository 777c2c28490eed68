CONSTANTS
  NumChans = 1
  Layouts = {1}
  FirstLayout = 1
  Packages = {"single", "update"}
SPECIFICATION FairSpec
PROPERTIES
  WatchdogRuns
  Released
