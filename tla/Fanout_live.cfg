SPECIFICATION FairSpec
CONSTANTS
  Clients = {c1, c2}
  Boards = {1}
  Captions = {agentA, agentB}
  NoCaption = NoCaption
  Recording = FALSE
  REWIND = 0
  RING_CAP = 1
  CHAN_CAP = 1
  CHUNK = 1
  MaxEvents = 1
  MaxControls = 0
  MaxLabels = 2
  MaxTime = 0
INVARIANTS
  CaptionsConverge
PROPERTIES
  EventuallyShown
