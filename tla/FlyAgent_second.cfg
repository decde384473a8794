SPECIFICATION Spec
CONSTANTS
  Garbage = Garbage
  Missing = Missing
  NoExport = NoExport
  Keys <- MCKeys
  Feed <- MCFeed
  Setups <- MCSetups

PROPERTY ResendAlwaysRecovers
CHECK_DEADLOCK FALSE
