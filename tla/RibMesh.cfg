CONSTANTS
  Peers = {"e1", "e2", "i1", "i2"}
  Local = "local"
  LocalAs = 5
  PeerAs <- MCPeerAs
  RouterId <- MCRouterId
  Clients = {}
  Graceful = {"e2"}
  Routes <- MeshRoutes
  Tags = {"a", "b"}
  Policies = {{}, {"b"}}
  MaxClock = 1
SPECIFICATION Spec
INVARIANTS ViewIsExport RibFromAdjIn StaleIsPending
PROPERTIES ImplementsRouting
