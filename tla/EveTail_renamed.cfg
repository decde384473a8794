SPECIFICATION FairSpec
CONSTANTS
  Split = {}
  MaxWritten = 6
  MaxTruncated = 0
  MaxRenamed = 1
PROPERTIES
  RotatedLinesTaken
CHECK_DEADLOCK FALSE
