SPECIFICATION FairSpec
\* The application ends: its last state has no successor.
CHECK_DEADLOCK FALSE
CONSTANTS
  Capacity = 2
  MaxMessages = 4
INVARIANTS
  TypeOK
  SleepsOnlyByMissedNotify
  SentInOrder
PROPERTIES
  StopsUnlessMissed
