SPECIFICATION Spec
CONSTANTS
  Instances = {a, b}
  Nobody = Nobody
  Races = {"load", "drain"}
  Ttl = 3
  Retries = 3
  MaxTime = 7
  MaxEvents = 4
  MaxCrashes = 2
SYMMETRY Symmetry
INVARIANT TypeOK
INVARIANT OneRunner
INVARIANT OverlapBounded
CHECK_DEADLOCK FALSE
