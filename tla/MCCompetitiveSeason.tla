------------------------- MODULE MCCompetitiveSeason -------------------------
(***************************************************************************)
(* A small season for TLC: two supporters, three modalities, curves that   *)
(* rise and fall, grants of several levels, numbers that reach MaxSafe.    *)
(***************************************************************************)
EXTENDS CompetitiveContract, TLC

CONSTANTS Fan, Rival

MCSideOf == [a \in Accounts |-> IF a = Fan THEN "home" ELSE "away"]

Snapshot(cooldown, grant, base, slope) ==
  [baseTenths |-> 1, bonusPerLevelTenths |-> 1, rngThreshold |-> 1, cooldownMs |-> cooldown,
   xpPerAction |-> grant, xpBase |-> base, xpSlope |-> slope]

\* The last one is refused by ValidRules: its curve ends at zero.
MCRules == {Snapshot(1, 3, 1, 1), Snapshot(2, 1, 2, -1), Snapshot(1, 3, 1, -1)}
MCIntervals == {[startsAt |-> 0, endsAt |-> 3], [startsAt |-> 1, endsAt |-> 4]}
Symmetry == Permutations(Modalities)
=============================================================================
