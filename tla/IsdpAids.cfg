SPECIFICATION Spec

CONSTANTS
  i1 = i1
  i2 = i2
  smdp = smdp
  NoAddress = NoAddress
  Iccids <- MCIccids
  Addresses <- MCAddresses
  DataLengths = {0, 3}
  TotalNvm = 10
  InitialFreeNvm = 6
  EmptyProfileSize = 2
  MaxProfiles = 3
  InitialProfiles <- MCInitialProfiles
  MaxNotificationSeq = 3

INVARIANT IsdpAidsUnique
