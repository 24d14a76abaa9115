SPECIFICATION RspSpec

CONSTANTS
  i1 = i1
  smdp1 = smdp1
  smdp2 = smdp2
  t1 = t1
  t2 = t2
  t3 = t3
  NoAddress = NoAddress
  NoTransaction = NoTransaction
  NoSession = NoSession
  NoKeys = NoKeys
  Iccids <- MCIccids
  Addresses <- MCAddresses
  Transactions <- MCTransactions
  DataLengths = {0, 3}
  TotalNvm = 6
  InitialFreeNvm = 5
  EmptyProfileSize = 2
  MaxProfiles = 2
  InitialProfiles <- MCInitialProfiles
  MaxNotificationSeq = 3
  MaxChallenges = 3
  MaxOtpk = 2

INVARIANTS
  SessionTypeOK
  SessionAuthentic
  InstalledOnce
  CancelledNeverInstalled
  KeysOfThisSession

PROPERTIES
  InstallAuthentic
