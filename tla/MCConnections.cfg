SPECIFICATION Spec
\* The surroundings are bounded: in the end nothing changes any more.
CHECK_DEADLOCK FALSE
CONSTANTS
  Names <- OneChannel
  Channels = {1}
  Groups = {1, 2}
  Unset = Unset
  MaxChanges = 5
INVARIANTS
  TypeOK
  NothingMissing
  StrayOnlyIfOvertaken
