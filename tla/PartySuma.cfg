CONSTANTS
  MaxUsers = 3
  MAX_PARTIES = 2
  PARTY_MAXMEMBERS = 3
  MaxLevel = 2
  Weight <- MCWeight
  MaxExp = 1
  MaxSuma = 4
SPECIFICATION Spec
INVARIANTS
  SumaExact
