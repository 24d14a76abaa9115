SPECIFICATION TcpSpec

CONSTANTS
  ipa = ipa
  lpa = lpa
  Senders <- MCSenders
  Nothing = Nothing
  Blocks = 3
  MaxLength = 3
  MaxCommands = 4

INVARIANTS
  TcpTypeOK
  DispatchedWhole
  LosesOneAtMost

PROPERTIES
  ImplementsChannel

CHECK_DEADLOCK FALSE
