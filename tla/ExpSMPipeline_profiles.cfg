\* safe_demo against the documented policy.
CONSTANTS
  s1 = s1
  Sig = {s1}
  PredictionOnly = {}
  NoDraft = NoDraft
  Profiles = {"safe_demo", "mutating_memory"}
  MaxReviews = 2
  MaxRestarts = 1
  MaxFaults = 0
SPECIFICATION Spec
PROPERTIES
  SafeDemoLeavesDrafts
CHECK_DEADLOCK FALSE
