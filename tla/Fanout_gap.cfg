SPECIFICATION Spec
CONSTANTS
  Clients = {c1}
  Boards = {1}
  Captions = {agentA}
  NoCaption = NoCaption
  Recording = FALSE
  REWIND = 1
  RING_CAP = 2
  CHAN_CAP = 2
  CHUNK = 1
  MaxEvents = 2
  MaxControls = 0
  MaxLabels = 0
  MaxTime = 1
INVARIANTS
  NoLiveFrameMissed
