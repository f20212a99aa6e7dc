CONSTANTS
  Addresses <- MCAddresses
  GroupNames <- MCGroupNames
  Policies <- MCPolicies
  Files <- MCFiles
  ApiCalls <- MCApiCalls
  MaxCalls = 2
  Vrfs = {1}
  Nothing = Nothing
  Global = Global
SPECIFICATION Spec
INVARIANTS FileIsRunning PolicyInForce GroupsExist
CHECK_DEADLOCK FALSE
