SPECIFICATION Spec
\* Nothing comes after the last event.
CHECK_DEADLOCK FALSE
CONSTANTS
  Callers = {"terminal", "grpc"}
  NoCaller = "nobody"
  Terminal = "terminal"
  Producers = {"router"}
  Consumers = {"ctrl"}
  Ctrl = "ctrl"
  Chains = {"inputs"}
  Ids = {1, 2}
  MaxNodes = 2
  MaxObjects = 4
  MaxCalls = 4
  MaxBoth = 2
INVARIANTS
  NoCallForgotten
  AnswersItsMessage
  
