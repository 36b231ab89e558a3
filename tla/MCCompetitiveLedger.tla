------------------------- MODULE MCCompetitiveLedger -------------------------
(***************************************************************************)
(* Small instances of CompetitiveLedger for TLC.                           *)
(***************************************************************************)
EXTENDS CompetitiveLedger, TLC

Symmetry == Permutations(Transactions) \cup Permutations(Sides) \cup Permutations(Keys)
            \cup Permutations(Users)
=============================================================================
