SPECIFICATION Spec
CONSTANTS
  Addresses4 <- Same4
  Addresses6 <- Same6
  Characters <- AllCharacters
  Hosts <- AllHosts
  None = none
CHECK_DEADLOCK FALSE
INVARIANTS
  PrefixesExact
  LookupSplits
