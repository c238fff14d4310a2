SPECIFICATION FairSpec
CONSTANTS
  r1 = r1
  r2 = r2
  Requests <- TwoRequests
  CacheTtl = 3
  VerifyTimeout = 2
PROPERTY AllowedIsFresh
PROPERTY DenialPasses
