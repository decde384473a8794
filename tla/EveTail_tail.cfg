SPECIFICATION FairSpec
CONSTANTS
  Split = {2}
  MaxWritten = 6
  MaxTruncated = 2
  MaxRenamed = 1
INVARIANTS
  TypeOK
  OnceInOrder
  ExactWhileClean
PROPERTIES
  EventuallyTaken
CHECK_DEADLOCK FALSE
