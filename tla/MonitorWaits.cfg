CONSTANTS
  s1 = s1
  s2 = s2
  s3 = s3
  a1 = a1
  a2 = a2
  Systems <- MCSystems
  Addrs <- MCAddrs
  Tables <- MCTables
  Keepalive = 1
  NoReport = NoReport

SPECIFICATION Spec

INVARIANT WaitsForRequest
