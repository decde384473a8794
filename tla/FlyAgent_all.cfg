SPECIFICATION Spec
CONSTANTS
  Garbage = Garbage
  Missing = Missing
  NoExport = NoExport
  Keys <- MCKeys
  Feed <- MCFeed
  Setups <- MCSetups
INVARIANTS TypeOK TranslatedOnce MisreadOnlyIfShared DiesOnlyBehindSnort
PROPERTIES ShownIffComplete FlowsAsMeasured
CHECK_DEADLOCK FALSE
