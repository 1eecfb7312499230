CONSTANTS
  CodeFiles <- MCCodeFiles
  IpFiles <- MCIpFiles
  Text = text
  Missing = missing
  Ips <- MCIps
  Codes <- MCCodes
  Stack = stack

SPECIFICATION FairDecodeSpec

INVARIANTS
  DecodeInv
  RecoveryMatches

PROPERTY Listens

\* A run ends with the record of one trap, or with the loader.
CHECK_DEADLOCK FALSE
