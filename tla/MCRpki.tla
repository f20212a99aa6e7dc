------------------------------- MODULE MCRpki -------------------------------
EXTENDS Rpki
=============================================================================
