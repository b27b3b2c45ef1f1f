---------------------------- MODULE MCMatchCycle ----------------------------
EXTENDS MatchCycle
=============================================================================
