SPECIFICATION PathSpec
CONSTANTS
  ControlChanges <- MCOneControl
  BaseChannels <- MCOneBase
  SelectedChannels <- MCOneSelected
  ControlValues <- MCEndValues
  Z1Cycles <- MCOneCycle
  Nothing = Nothing
INVARIANT MaximumAt127
