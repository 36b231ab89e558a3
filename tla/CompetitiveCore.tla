---------------------------- MODULE CompetitiveCore ----------------------------
(***************************************************************************)
(* The rules of the game, packages/game-core/src/competitive.ts: points,   *)
(* experience and levels of an action, acceptance, and the result of a     *)
(* match.  All of it is pure.  A CoreError is an operator of this module   *)
(* saying no (Valid..., Safe); which of the two codes it has is left out.  *)
(* The structural limits 50, 100, 10000 and 2^53 - 1 are constants here.   *)
(***************************************************************************)
EXTENDS Integers, FiniteSets, Functions

CONSTANTS
  Modalities,
  MaxLevel,          \* 50
  MaxTotalLevel,     \* 100
  RngScale,          \* 10000
  MaxXpPerAction,    \* 10000
  MaxSafe,           \* Number.MAX_SAFE_INTEGER
  None               \* null

Sides == {"home", "away"}
Other(side) == IF side = "home" THEN "away" ELSE "home"

ASSUME CoreAssumption ==
  /\ IsFiniteSet(Modalities)
  /\ {MaxLevel, MaxTotalLevel, MaxXpPerAction, MaxSafe} \subseteq Nat
  /\ None \notin Int \cup Sides

Sum(f) == FoldFunction(+, 0, f)
\* add and multiply throw when the result is not a safe integer.
Safe(n) == n \in -MaxSafe .. MaxSafe

\* The experience that takes a modality from a level to the next.
Required(rules, level) == rules.xpBase + rules.xpSlope * level

ValidRules(rules) ==
  /\ rules.rngThreshold \in 0 .. RngScale
  /\ {rules.baseTenths, rules.bonusPerLevelTenths} \subseteq 0 .. MaxSafe
  /\ rules.xpBase \in 1 .. MaxSafe
  /\ rules.cooldownMs \in 1 .. MaxSafe
  /\ rules.xpPerAction \in 0 .. MaxXpPerAction
  /\ Safe(rules.xpSlope)
  /\ \A level \in 0 .. MaxLevel - 1 :
       /\ Safe(rules.xpSlope * level)
       /\ Required(rules, level) \in 1 .. MaxSafe
  /\ Safe(MaxLevel * rules.bonusPerLevelTenths)
  /\ Safe(rules.baseTenths + MaxLevel + MaxLevel * rules.bonusPerLevelTenths)

TotalLevel(build) == Sum([m \in Modalities |-> build[m].level])

ValidBuild(build) ==
  /\ \A m \in Modalities : build[m].level \in 0 .. MaxLevel /\ build[m].xp \in 0 .. MaxSafe
  /\ TotalLevel(build) <= MaxTotalLevel

ValidScore(score) ==
  \A side \in Sides : /\ \A m \in Modalities : score[side][m] \in 0 .. MaxSafe
                      /\ Safe(Sum(score[side]))

\* calculateActionPoints: the level pays once, and again as the bonus.
ActionPoints(level, sample, rules) ==
  rules.baseTenths + level
    + IF sample < rules.rngThreshold THEN level * rules.bonusPerLevelTenths ELSE 0

Capped(build, m) == build[m].level >= MaxLevel \/ TotalLevel(build) >= MaxTotalLevel

XpGranted(build, m, rules) == IF Capped(build, m) THEN 0 ELSE rules.xpPerAction

\* Mutant: the experience left over at a level-up is lost.
GrantWithoutRemainder(build, m, rules) ==
  LET xp == build[m].xp + XpGranted(build, m, rules)
  IN IF ~Capped(build, m) /\ xp >= Required(rules, build[m].level)
     THEN [build EXCEPT ![m] = [level |-> build[m].level + 1, xp |-> 0]]
     ELSE [build EXCEPT ![m].xp = xp]
\* grantActionXp: climb[n] is the progress after n turns of the while loop.
GrantActionXp(build, m, rules) ==
  LET others == TotalLevel(build) - build[m].level
      CanClimb(p) == /\ p.level < MaxLevel
                     /\ others + p.level < MaxTotalLevel
                     /\ p.xp >= Required(rules, p.level)
      climb[n \in 0 .. MaxLevel] ==
        IF n = 0 THEN [level |-> build[m].level, xp |-> build[m].xp + XpGranted(build, m, rules)]
        ELSE LET p == climb[n - 1] IN
             IF CanClimb(p) THEN [level |-> p.level + 1, xp |-> p.xp - Required(rules, p.level)]
             ELSE p
  IN [build EXCEPT ![m] = climb[MaxLevel]]

\* The modalities in which a side leads.
Domains(score, side) == {m \in Modalities : score[side][m] > score[Other(side)][m]}

\* Mutant: the totals are compared the wrong way round.
WinnerBySwappedTotals(score) ==
  LET dominance == Cardinality(Domains(score, "home")) - Cardinality(Domains(score, "away"))
      difference == IF dominance # 0 THEN dominance
                    ELSE Sum(score["away"]) - Sum(score["home"])
  IN IF difference > 0 THEN "home" ELSE IF difference < 0 THEN "away" ELSE "draw"
\* determineMatchResult: dominance over modalities decides, then totals.
Winner(score) ==
  LET dominance == Cardinality(Domains(score, "home")) - Cardinality(Domains(score, "away"))
      difference == IF dominance # 0 THEN dominance
                    ELSE Sum(score["home"]) - Sum(score["away"])
  IN IF difference > 0 THEN "home" ELSE IF difference < 0 THEN "away" ELSE "draw"

\* Mutant: the deadline of the account is not looked at.
VerdictWithoutCooldown(match, now, nextAllowedAt) ==
  IF match.status = "cancelled" THEN "MATCH_CANCELLED"
  ELSE IF match.status = "finished" \/ now >= match.endsAt THEN "MATCH_ENDED"
  ELSE IF now < match.startsAt THEN "MATCH_NOT_STARTED"
  ELSE "ACCEPTED"
\* The early returns of evaluateAction, in their order.
Verdict(match, now, nextAllowedAt) ==
  IF match.status = "cancelled" THEN "MATCH_CANCELLED"
  ELSE IF match.status = "finished" \/ now >= match.endsAt THEN "MATCH_ENDED"
  ELSE IF now < match.startsAt THEN "MATCH_NOT_STARTED"
  ELSE IF nextAllowedAt # None /\ now < nextAllowedAt THEN "COOLDOWN_ACTIVE"
  ELSE "ACCEPTED"
=============================================================================
