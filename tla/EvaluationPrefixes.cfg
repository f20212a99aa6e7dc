CONSTANTS
  MaxSegment = 3
  MaxMed = 5
  TwoOctets = 7
  AsTrans = 6
  SegmentSize = 3
  MessageSize = 20
  Overhead = 4
  NlriSize = 5
  IdSize = 2
  DefaultLocalPref = 100
  PrivateASes <- MCPrivateASes
  NonTransitive = {"unknown"}
  PrefixSets <- MCPrefixSets
  Addresses <- MCAddresses
  PolicyLists <- MCPolicyLists
  PolicyPaths <- MCPolicyPaths
  Options <- MCOptions
  Paths <- MCPaths
  Peers <- MCPeers
  Global <- MCGlobal
  VrfPaths <- MCVrfPathsOk
  Vrfs <- MCVrfs
  AsPaths <- MCAsPaths
  MaxHops = 2
  Batches <- MCBatches
  RoaTables <- MCRoaTables
  Routes <- MCRoutes
SPECIFICATION EvaluationSpec
INVARIANTS EmptySetMatches NestedEntriesMatch
