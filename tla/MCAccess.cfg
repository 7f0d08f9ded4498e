SPECIFICATION MCSpec
CONSTANTS
  a1 = a1  a2 = a2
  k1 = k1  k2 = k2  k3 = k3  k4 = k4
  Address = {a1, a2}
  Peers = {a1}
  Key = {k1, k2, k3, k4}
  NoKey = NoKey  Global = Global  NoHeader = NoHeader
  TrustProxy = FALSE
  Client = {c1, c2}
  Token = 2
  AddrBurst = 2  AddrRate = 1
  KeyBurst = 4  KeyRate = 2
  AuthBurst = 2  AuthRate = 1
  PruneThreshold = 3
  MaxClock = 3
  MayWait = FALSE
  Name = {n1, n2}
  AdminKey = {ak}
  Request = {p1, p2}
  TTL = 2
  Interval = 2
  MaxUser = 2  MaxSession = 2  MaxKey = 1
  MaxTime = 3  MaxOps = 4
  User = {u1}
  Endpoint = {ingest, query}
  s1 = s1  s2 = s2  s3 = s3
  Capacity = 2
  FlushAt = 2
  MaxFacts = 2
  MaxSent = 3
SYMMETRY Symmetry
INVARIANTS
  TypeOK
  BucketsBounded
  SessionsUntilExpiry
  RevokedStaysOut
  UseIsWritten
PROPERTIES
  ImplementsTokenBuckets
CHECK_DEADLOCK FALSE
