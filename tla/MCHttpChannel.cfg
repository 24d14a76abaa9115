SPECIFICATION HttpSpec

CONSTANTS
  tester = tester
  script = script
  Senders <- MCSenders
  Nothing = Nothing
  Blocks = 3
  MaxLength = 5
  MaxCommands = 4

INVARIANT UndisturbedWhole

CHECK_DEADLOCK FALSE
