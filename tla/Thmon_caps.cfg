SPECIFICATION Spec
CONSTANTS
  COUNT = 2
  WARMUP = 2
  INTERVAL = 2
  CUSUM_K = 1
  CUSUM_H = 1
  Shifts = {0, 2}
  Cap <- MixedCaps
  MaxEvents = 8
  MaxTime = 2
INVARIANTS
  TypeOK
  QuietAfterAlarm
  WithheldOnlyAfterAlarm
  LearntOrFired
  AdaptiveNeedsBaseline
CHECK_DEADLOCK FALSE
