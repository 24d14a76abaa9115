SPECIFICATION LifeSpec

CONSTANTS
  test = test
  extra1 = extra1
  extra2 = extra2
  c1 = c1
  v0 = v0
  TestEids <- MCTestEids
  ExtraEids <- MCExtraEids
  Clients <- MCClients
  Contents <- MCContents
  TestContent = v0
  NoEuicc = NoEuicc
  NoRow = NoRow
  NoConnection = NoConnection
  NoServer = NoServer
  MaxSeq = 2

PROPERTY PortsServe
