SPECIFICATION Spec
CONSTANTS
  COUNT = 2
  INTERVAL = 2
  CUSUM_K = 1
  CUSUM_H = 1
  Shifts = {0, 2}
  Sound = TRUE
  MaxWindows = 3
  MaxTime = 2
  MaxReloads = 1
  Garbage = Garbage
  Warmups <- MCWarmups
  Cap <- MCCap
  Frames <- MCFrames
  Files <- MCFiles
  AtStart <- MCAtStart
  Overs <- MCOvers
INVARIANTS
  TypeOK
  QuietTime
  LearntUnlessFired
  AdaptiveNeedsBaseline
  AlertTellsWhatFired
CHECK_DEADLOCK FALSE
