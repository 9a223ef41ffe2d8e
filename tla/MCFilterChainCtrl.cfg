SPECIFICATION FairSpec
CONSTANTS
  n1 = n1
  n2 = n2
  n3 = n3
  v1 = v1
  Nodes = {n1, n2, n3}
  IdOf <- MCIdOf
  RoleOf <- MCRoleOf
  Paths <- MCPaths
  Values = {v1}
  Capacity = 2
  Packets = 2
  Unset = Unset
  NoNode = NoNode
INVARIANTS
  TypeOK
  StuckOnlyByMissedNotify
PROPERTIES
  OnlyOwnControls
  DeliverySpec
  TrafficDrains
