----------------------------- MODULE MCPeerFsm -----------------------------
(* Model checking PeerFsm: the constants are given by the .cfg files.       *)
EXTENDS PeerFsm
=============================================================================
