SPECIFICATION Spec
CONSTANTS
  Humans = {0, 1}
  MayDrop = {1}
  TimerFires = TRUE
  MaxStale = 1
INVARIANTS
  NoBotWorkForgotten
PROPERTIES
  PeopleAsked
CHECK_DEADLOCK FALSE
