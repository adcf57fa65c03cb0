\* Two signatures, one of them prediction-only; one restart, one failed write.
CONSTANTS
  s1 = s1
  s2 = s2
  Sig = {s1, s2}
  PredictionOnly = {s2}
  NoDraft = NoDraft
  Profiles = {"mutating_memory"}
  MaxReviews = 3
  MaxRestarts = 1
  MaxFaults = 1
SPECIFICATION Spec
INVARIANTS
  StoresConsistent
  ReviewsMergedOnce
  UpdatesAreReal
PROPERTIES
  MemorySpec
  CommitsOnlyReady
  UpdatesEnd
CHECK_DEADLOCK FALSE
