SPECIFICATION FairSpec
CONSTANTS
  Versions = {v1, v2}
  Bodies = {b1, b2}
  Deleters = {d1}
  None = None
  Empty = Empty
  Torn = Torn
INVARIANTS
  TypeOK
  VerifiedWereUploaded
  ChecksumsMatch
  LatestIsComplete
PROPERTIES
  OffersAreAccepted
