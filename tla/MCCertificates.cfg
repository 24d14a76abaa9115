SPECIFICATION CertSpec

CONSTANTS
  Missing = Missing
  Torn = Torn
  Nothing = Nothing
  MaxKey = 9

INVARIANTS
  CertificatesTypeOK
  ChainSound
  StartsAgain

PROPERTY IdentityKept
