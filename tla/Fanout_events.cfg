SPECIFICATION Spec
CONSTANTS
  Clients = {c1}
  Boards = {1}
  Captions = {agentA}
  NoCaption = NoCaption
  Recording = TRUE
  REWIND = 1
  RING_CAP = 2
  CHAN_CAP = 2
  CHUNK = 1
  MaxEvents = 3
  MaxControls = 1
  MaxLabels = 0
  MaxTime = 2
INVARIANTS
  TypeOK
  BackfillIsOneWindow
  NothingMissedSinceJoin
  OnlyStraddledBatchMissed
  LiveInOrder
  RecordIsComplete
PROPERTIES
  RingIsTheWindow
