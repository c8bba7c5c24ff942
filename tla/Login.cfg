SPECIFICATION Spec
CONSTANTS
  Ip = {ip1}
  Req = {r1, r2}
  Session = {s1}
  Limit = 2
  LoginWindow = 2
  BlockDuration = 4
  BucketMaxAge = 7
  TTL = 2
  MaxLag = 1
INVARIANTS
  TypeOK
  BurstBound
PROPERTIES
  BlockServed
  SessionLasts
  StoresCollected
