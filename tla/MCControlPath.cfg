SPECIFICATION PathSpec
CONSTANTS
  ControlChanges <- MCControlChanges
  BaseChannels <- MCBaseChannels
  SelectedChannels <- MCSelectedChannels
  ControlValues <- MCControlValues
  Z1Cycles <- MCZ1Cycles
  Nothing = Nothing
INVARIANTS
  ControlExists
  RightStrip
  OnlyUnmappedDropped
