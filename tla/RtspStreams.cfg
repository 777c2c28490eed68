CONSTANTS
  NumChans = 1
  MaxConns = 1
  Cams = {"a", "b"}
  Layouts = {1}
  FirstLayout = 1
  Replies = {"200", "401", "other"}
  MaxPkgs = 2
SPECIFICATION FairSpec
CHECK_DEADLOCK FALSE
PROPERTY
  Streams
