------------------------- MODULE MCIdempotentCommand -------------------------
(***************************************************************************)
(* A small instance of IdempotentCommand for TLC.  Liveness excludes a     *)
(* SYMMETRY set, so symmetric behaviours are left out by hand: requests    *)
(* are submitted in one order, the first with k1 and flag, and the second  *)
(* cleaner begins only while the first deletes.  It is idle once the third *)
(* request is submitted.                                                   *)
(***************************************************************************)
EXTENDS IdempotentCommandRefinement, TLC

CONSTANTS r1, r2, r3, c1, c2, k1, k2, m1, flag

\* Commands with different keys compete for the sequence of one match.
OneMatch == [k \in {k1, k2} |-> m1]

Representative ==
  /\ pc'[r2] # "idle" => pc[r1] # "idle"
  /\ pc'[r3] # "idle" => pc[r2] # "idle"
  /\ pc'[r1] # "idle" => command'[r1].key = k1 /\ command'[r1].action = flag
  /\ deleting'[c2] # {} => deleting[c2] # {} \/ deleting[c1] # {}
  /\ pc'[r3] # "idle" => deleting'[c2] = {}

MCNext == Next /\ Representative

MCSpec == Init /\ [][MCNext]_vars /\ Fairness
=============================================================================
