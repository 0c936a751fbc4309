SPECIFICATION FairSpec
CONSTANTS
  Procs = {p1, p2, p3}
  MaxFaults = 1
INVARIANTS
  TypeOK
  VersionIsTrue
  ServingFindsItsTables
PROPERTIES
  ImplementsSchema
  EveryProcessServes
