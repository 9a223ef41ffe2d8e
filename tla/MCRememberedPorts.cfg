SPECIFICATION Spec
\* The surroundings are bounded: in the end nothing changes any more.
CHECK_DEADLOCK FALSE
CONSTANTS
  Names <- SomePorts
  MaxChanges = 6
INVARIANTS
  TypeOK
  LinkedUnlessObstructed
  ForgottenOnlyIfEarly
