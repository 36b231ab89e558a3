---------------------------- MODULE MCRealtimeJoin ----------------------------
\* Instances of RealtimeJoin for TLC.
EXTENDS RealtimeJoin, TLC

Invocations == Permutations(Joins)
=============================================================================
