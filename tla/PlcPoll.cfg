SPECIFICATION Spec
CHECK_DEADLOCK FALSE
INVARIANTS
  TypeOK
  ChainAlive
  Listened
  TimerHeld
PROPERTY
  Polls
