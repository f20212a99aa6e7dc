------------------------------ MODULE MCAgent ------------------------------
(* Model checking Agent: the files of each run.                             *)
EXTENDS Agent

\* Nothing is assumed of the file, not even that it can be read.
AnyFile == AgentFileType

\* BGP and the netlink dataplane are configured, and there is a network in every file.
FilesWithNetwork == {f \in AgentFileType : f.readable /\ f.netlink /\ f.bgp /\ f.vns # {}}
=============================================================================
