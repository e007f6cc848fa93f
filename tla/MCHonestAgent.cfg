CONSTANTS
  s1 = s1
  s2 = s2
  k1 = k1
  k2 = k2
  k3 = k3
  rsa = rsa
  c1 = c1
  c2 = c2
  c3 = c3
  c4 = c4
  NoChallenge = NoChallenge
  Session <- MCSession
  Blob <- MCBlob
  WebauthnBlob <- MCWebauthnBlob
  Challenge <- MCChallenge
  Config <- MCConfig
  File <- MCFile
  Listing <- MCListing
  Held <- MCHeld
  Verifying <- MCVerifying
  MaxSigned = 6
SPECIFICATION HonestSpec
INVARIANT VerdictDecided
PROPERTY CredentialGrants
