SPECIFICATION Spec
CONSTANTS
  Instances = {a, b}
  Nobody = Nobody
  Races = {}
  Ttl = 3
  Retries = 3
  MaxTime = 7
  MaxEvents = 4
  MaxCrashes = 2
SYMMETRY Symmetry
INVARIANT OneRunner
INVARIANT OverlapBounded
INVARIANT AnswersStored
CHECK_DEADLOCK FALSE
