--------------------------- MODULE MCOutboxDispatch ---------------------------
(***************************************************************************)
(* Small instances of OutboxDispatch for TLC.                              *)
(***************************************************************************)
EXTENDS OutboxDispatch, TLC

Symmetry == Permutations(Workers) \cup Permutations(Messages)
=============================================================================
