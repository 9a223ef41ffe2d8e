SPECIFICATION FairSpec
CONSTANTS
  Reports <- MCReports
  ReceiverCapacity = 2
  SocketCapacity = 1
  Words <- MCWords
  Data = "data"
  OtherWord = "other"
  MaxAnswers = 5
  Loops = {0}
  Eighth = Eighth
  MaxPackets = 1
  Codes = {0, 2}
  Eighths = {32, 64}
  MaxChanges = 3
INVARIANTS
  TypeOK
  LightsTruthful
  FadersAgree
  InSessionUnlessReplugged
  OnlyExpectedDevice
PROPERTIES
  EighthRestored
  EndsWithNextDatagram
  PreparedAtLast
