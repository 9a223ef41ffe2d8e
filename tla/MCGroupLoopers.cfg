SPECIFICATION Spec
CHECK_DEADLOCK FALSE
CONSTANTS
  Names <- LooperAndOutput
  Channels = {1}
  Groups = {1}
  Unset = Unset
  MaxChanges = 4
INVARIANTS
  ReachesItsGroup
