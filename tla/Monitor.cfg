CONSTANTS
  s1 = s1
  s2 = s2
  s3 = s3
  a1 = a1
  a2 = a2
  Systems <- MCSystems
  Addrs <- MCAddrs
  Tables <- MCTables
  Keepalive = 2
  NoReport = NoReport

SPECIFICATION FairSpec

INVARIANTS
  IInv
  StatusAgrees
  NoFalseAlarm
  NoMissedOutage
  SingleLoadIsExact
  AtMostTwice

PROPERTIES
  Answered
  OutageReported
