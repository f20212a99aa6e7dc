------------------------------ MODULE MCRestart ------------------------------
(* Model checking Restart: a neighbor with long-lived restart, for one      *)
(* family or for both, and one with graceful restart only.                  *)
EXTENDS Restart

MCOpens ==
  [p \in Peers |->
     IF p = "long"
     THEN {[families |-> Families, graceful |-> TRUE, gr |-> fs, restarts |-> fs = Families,
            long |-> TRUE, ll |-> fs] : fs \in {{"v4"}, Families}}
     ELSE {[families |-> Families, graceful |-> TRUE, gr |-> {"v4"}, restarts |-> FALSE,
            long |-> FALSE, ll |-> {}]}]
\* A neighbor that is long-lived for one of its two families.
PartialOpens ==
  [p \in Peers |-> {[families |-> Families, graceful |-> TRUE, gr |-> Families, restarts |-> FALSE,
                     long |-> TRUE, ll |-> {"v4"}]}]
\* A neighbor for which graceful restart is configured, but that does not do it.
PlainOpens ==
  [p \in Peers |-> {[families |-> Families, graceful |-> FALSE, gr |-> {}, restarts |-> FALSE,
                     long |-> FALSE, ll |-> {}]}]
MCLosses == [p \in Peers |-> IF p = "long" THEN BOOLEAN ELSE {TRUE}]
MCKinds == [p \in Peers |-> IF p = "long" THEN {"fresh"} ELSE {}]
=============================================================================
