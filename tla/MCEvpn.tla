------------------------------- MODULE MCEvpn -------------------------------
EXTENDS Evpn

\* Two goplane PEs and, of another make, one with a segment of its own.
MCRd == [p \in Pe |-> p]
MCEsi == [p \in Pe |-> IF p = 2 THEN 1 ELSE 0]
=============================================================================
