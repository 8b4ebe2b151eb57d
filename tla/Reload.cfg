SPECIFICATION Spec
CONSTANTS
  Paths <- MCPaths
  NamespaceOf <- MCNamespaceOf
  Files <- MCFiles
  AtFirst <- MCAtFirst
  Methods = {"m"}
  Null = Null
  MaxChanges = 3
  MaxCalls = 1
INVARIANT ProxiesFollowFiles
INVARIANT ServicesFollowFiles
INVARIANT UntouchedCallsServed
CHECK_DEADLOCK FALSE
