SPECIFICATION DownloadSpec

CONSTANTS
  i1 = i1
  smdp1 = smdp1
  t1 = t1
  t2 = t2
  t3 = t3
  NoAddress = NoAddress
  NoTransaction = NoTransaction
  NoSession = NoSession
  NoKeys = NoKeys
  NoMessage = NoMessage
  NoCode = NoCode
  Iccids <- MCIccids
  Addresses <- MCAddresses
  Transactions <- MCTransactions
  Package <- MCPackage
  DataLengths = {3}
  TotalNvm = 6
  InitialFreeNvm = 5
  EmptyProfileSize = 2
  MaxProfiles = 2
  InitialProfiles <- MCInitialProfiles
  MaxNotificationSeq = 4
  MaxChallenges = 5
  MaxOtpk = 3
  MaxDisturbances = 2

INVARIANT ClientIsRight

PROPERTY DownloadArrives
