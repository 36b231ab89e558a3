---------------------------- MODULE MCRealtimeSync ----------------------------
(***************************************************************************)
(* RealtimeSync for TLC in two scopes, chosen at the start, so that their  *)
(* states add up instead of multiplying:                                   *)
(*   "stream"     all the events and one synchronization at a time in a    *)
(*                browser that stays online: enough for a gap after a      *)
(*                snapshot;                                                *)
(*   "reconnect"  one event and two synchronizations, so that an outdated  *)
(*                one is still under way when the next connection is up.   *)
(***************************************************************************)
EXTENDS RealtimeSync

CONSTANT j1

VARIABLE scope
mcVars == <<vars, scope>>

MCInit == Init /\ scope \in {"stream", "reconnect"}

InScope ==
  CASE scope = "stream" ->
         /\ onLine'
         /\ \A j \in Joins \ {j1} : syncs'[j] = syncs[j] /\ handler'[j] = handler[j]
    [] scope = "reconnect" -> latest' <= 1

MCNext == Next /\ scope' = scope /\ InScope

MCSpec == MCInit /\ [][MCNext]_mcVars /\ Fairness
=============================================================================
