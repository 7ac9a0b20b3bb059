SPECIFICATION FairSpec
CONSTANTS
  home = home
  office = office
  Networks <- MCNetworks
  None = None
  MaxEvents = 3
INVARIANTS
  TypeOK
  ConnectedIsSaved
  ConnectedHasAddress
PROPERTIES
  AttemptEnds
