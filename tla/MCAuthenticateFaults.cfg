CONSTANTS
  s1 = s1
  s2 = s2
  k1 = k1
  k2 = k2
  rsa = rsa
  c1 = c1
  c2 = c2
  c3 = c3
  c4 = c4
  NoChallenge = NoChallenge
  Session <- MCSession
  Blob <- MCBlob
  WebauthnBlob <- FaultWebauthnBlob
  Challenge <- FaultChallenge
  Config <- FaultConfig
  File <- FaultFile
  Listing <- FaultListing
  MaxSigned = 2
SPECIFICATION FairSpec
PROPERTIES
  ImplementsAuthSpec
  EverySessionEnds
