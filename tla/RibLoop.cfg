CONSTANTS
  Peers = {"e1", "e2"}
  Local = "local"
  LocalAs = 5
  PeerAs <- MCPeerAs
  RouterId <- MCRouterId
  Clients = {}
  Graceful = {}
  Routes <- LoopRoutes
  Tags = {"a"}
  Policies = {{}}
  MaxClock = 1
SPECIFICATION Spec
INVARIANTS ViewIsExport
