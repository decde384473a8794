SPECIFICATION Spec
CONSTANTS
  core = core
  edge = edge
  k1 = k1
  k2 = k2
  p1 = p1
  p2 = p2
  NoId = NoId
  NoKey = NoKey
  NoMac = NoMac
  NoBoard = NoBoard
  Peers <- MCPeers
  Ids <- MCIds
  Keys <- MCKeys
  Boards = {1, 2}
  PeerBoard <- PeerRules
  Setups <- MCSetups
  REPLAY_WINDOW = 1
  QUEUE_CAP = 2
INVARIANTS
  TypeOK
  ControlsAuthentic
  BoardsByRule
  CaptionsFollow
CHECK_DEADLOCK FALSE
