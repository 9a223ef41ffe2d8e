SPECIFICATION Spec
CHECK_DEADLOCK FALSE
CONSTANTS
  Names <- LooperAndGroup
  Channels = {1}
  Groups = {}
  Unset = Unset
  MaxChanges = 4
INVARIANTS
  LoopersFeedGroups
