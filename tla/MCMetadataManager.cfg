SPECIFICATION FairSpec
CONSTANTS
  PortKeys <- MCPortKeys
  GroupKeys <- MCGroupKeys
  Ports = {p, q}
  Groups <- MCGroups
  Null = Null
  NoFile = NoFile
  Torn = Torn
  MaxEvents = 2
INVARIANTS
  TypeOK
  FileIsMetadata
  Remembered
PROPERTIES
  CatchesUp
