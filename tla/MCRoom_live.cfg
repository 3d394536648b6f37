SPECIFICATION AnsweredSpec
CONSTANTS
  Humans = {2, 3}
  MayDrop = {3}
  TimerFires = FALSE
  MaxStale = 0
PROPERTIES
  AutomatedTurnsPlayed
  WindowsClose
CHECK_DEADLOCK FALSE
