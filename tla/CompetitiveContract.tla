------------------------- MODULE CompetitiveContract -------------------------
(***************************************************************************)
(* What packages/contracts/src/competitive.ts lets through of a match: its *)
(* schemas derive totals, dominance and winner a second time, from the     *)
(* scores on the wire, and refuse what differs.  The projections they are  *)
(* given are those of CompetitiveSeason's matches, put together by "the    *)
(* orchestrator", which is not written yet and is external here.           *)
(***************************************************************************)
EXTENDS CompetitiveSeason

CONSTANTS
  LevelsPerSkillPoint,   \* 5
  MaxSkillPoints         \* 20

ASSUME ContractAssumption ==
  /\ LevelsPerSkillPoint \in Nat \ {0}
  /\ MaxSkillPoints = MaxTotalLevel \div LevelsPerSkillPoint
  /\ None \notin [winner : Sides \cup {None}, decidedBy : {"dominance", "total", "draw"}]

\* competitiveBuildSchema: the derived totals are those of the levels.
BuildFits(b) ==
  /\ \A m \in Modalities : b.progress[m].level \in 0 .. MaxLevel /\ b.progress[m].xp \in 0 .. MaxSafe
  /\ b.totalLevel \in 0 .. MaxTotalLevel
  /\ b.skillPoints \in 0 .. MaxSkillPoints
  /\ b.totalLevel = Sum([m \in Modalities |-> b.progress[m].level])
  /\ b.skillPoints = b.totalLevel \div LevelsPerSkillPoint

\* publicSideSchema
SideFits(side) ==
  /\ \A m \in Modalities : side.scoreTenths[m] \in 0 .. MaxSafe
  /\ side.dominatedModalities \in 0 .. Cardinality(Modalities)
  /\ side.totalTenths \in 0 .. MaxSafe
  /\ Sum(side.scoreTenths) = side.totalTenths

\* competitiveResultSchema; a group is named by the side it plays on.
ResultFits(result) ==
  /\ result.winner \in Sides \cup {None}
  /\ result.decidedBy \in {"dominance", "total", "draw"}
  /\ (result.decidedBy = "draw") = (result.winner = None)

\* "Inconsistent public match lifecycle"
LifecycleFits(p) ==
  /\ p.endsAt > p.startsAt
  /\ (p.state = "finished") = (p.result # None)
  /\ p.pendingFinalization => p.state \in {"active", "scheduled"}

\* hasConsistentPublicResult
ConsistentPublicResult(p) ==
  LET domains == [side \in Sides |->
        Cardinality({m \in Modalities :
          p.sides[side].scoreTenths[m] > p.sides[Other(side)].scoreTenths[m]})]
      Better(amount) == IF amount["home"] > amount["away"] THEN "home" ELSE "away"
      total == [side \in Sides |-> p.sides[side].totalTenths]
      expected ==
        IF domains["home"] # domains["away"]
          THEN [winner |-> Better(domains), decidedBy |-> "dominance"]
        ELSE IF total["home"] # total["away"]
          THEN [winner |-> Better(total), decidedBy |-> "total"]
        ELSE [winner |-> None, decidedBy |-> "draw"]
  IN /\ \A side \in Sides : p.sides[side].dominatedModalities = domains[side]
     /\ p.result # None => p.result = expected

\* competitivePublicProjectionSchema
ProjectionFits(p) ==
  /\ p.state \in {"scheduled", "active", "finished", "cancelled"}
  /\ \A side \in Sides : SideFits(p.sides[side])
  /\ p.result # None => ResultFits(p.result)
  /\ LifecycleFits(p)
  /\ ConsistentPublicResult(p)

\* competitiveActionAcceptedEventSchema, competitiveFinishedEventSchema
ActionEventFits(p) == ProjectionFits(p) /\ p.state = "active" /\ p.result = None
FinishedEventFits(p) == ProjectionFits(p) /\ p.state = "finished" /\ ~p.pendingFinalization
-----------------------------------------------------------------------------
\* skillPoints of the rules core.
SkillPoints(b) == TotalLevel(b) \div LevelsPerSkillPoint

\* What the orchestrator makes of the core's results: domains and totals as they
\* are, the winner as a group or null, and what decided from which of them differ.
WireBuild(b) ==
  [progress |-> b, totalLevel |-> TotalLevel(b), skillPoints |-> SkillPoints(b)]

WireResult ==
  LET Differ(amount) == amount["home"] # amount["away"] IN
  [winner |-> IF Winner(score) = "draw" THEN None ELSE Winner(score),
   decidedBy |->
     IF Differ([side \in Sides |-> Cardinality(Domains(score, side))]) THEN "dominance"
     ELSE IF Differ([side \in Sides |-> Sum(score[side])]) THEN "total"
     ELSE "draw"]

PublicProjection ==
  [state |-> match.status,
   pendingFinalization |-> match.status \in {"scheduled", "active"} /\ now >= match.endsAt,
   startsAt |-> match.startsAt,
   endsAt |-> match.endsAt,
   sides |-> [side \in Sides |->
     [scoreTenths |-> score[side],
      totalTenths |-> Sum(score[side]),
      dominatedModalities |-> Cardinality(Domains(score, side))]],
   result |-> IF match.status = "finished" THEN WireResult ELSE None]
-----------------------------------------------------------------------------
\* Two implementations agree: whatever actions a match has seen, the wire contract
\* accepts the projection of what the rules core computed, as the snapshot, as the
\* event of an action and as that of the end, and the build of every account.
ProjectionsFitTheContract ==
  /\ ProjectionFits(PublicProjection)
  /\ match.status = "active" => ActionEventFits(PublicProjection)
  /\ match.status = "finished" => FinishedEventFits(PublicProjection)
  /\ \A a \in Accounts : BuildFits(WireBuild(build[a]))
=============================================================================
