SPECIFICATION EimSpec

CONSTANTS
  i1 = i1
  i2 = i2
  smdp = smdp
  e1 = e1
  e2 = e2
  NoAddress = NoAddress
  NoIccid = NoIccid
  Iccids <- MCIccids
  Addresses <- MCAddresses
  DataLengths = {2}
  TotalNvm = 4
  InitialFreeNvm = 0
  EmptyProfileSize = 2
  MaxProfiles = 2
  InitialProfiles <- MCInitialProfiles
  MaxNotificationSeq = 1
  EimIds <- MCEimIds
  InitialConfigs <- MCInitialConfigs
  Packages <- MCPackages
  MaxPackages = 2

INVARIANTS
  EimTypeOK
  EimIdsUnique
  StoreSoundAfterPackages

PROPERTIES
  EimNeverEmptied
  PackagesAcceptedOnce
