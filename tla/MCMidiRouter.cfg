SPECIFICATION FairSpec
CONSTANTS
  Keys = {1}
  Capacity = 2
  None = None
INVARIANTS
  TypeOK
  SettledIsWanted
  SelectorComesFirst
PROPERTIES
  ArrivesUnlessMissed
