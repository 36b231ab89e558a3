--------------------------- MODULE CompetitiveSeason ---------------------------
(***************************************************************************)
(* Accounts that play one match after the other under rules that may       *)
(* change from match to match: what evaluateAction returns is kept and is  *)
(* the input of the next action, as the tests of competitive.ts do and its *)
(* comments on persisted deadlines and snapshots say.  Matches are opened  *)
(* and ended by the caller.                                                *)
(***************************************************************************)
EXTENDS CompetitiveCore

CONSTANTS
  Accounts,
  SideOf,      \* the side an account plays for
  Rules,       \* rules snapshots that matches are created with
  Intervals,   \* [startsAt, endsAt] of matches
  Horizon      \* bound: the last instant

ASSUME SeasonAssumption ==
  /\ SideOf \in [Accounts -> Sides]
  /\ \A i \in Intervals : i.startsAt < i.endsAt

VARIABLES
  now,
  rules,         \* matches.rules_snapshot
  match,         \* its interval and status
  score,
  build,
  nextAllowedAt,
  granted,       \* history: experience granted to an account in a modality
  spent,         \* history: experience its levels were bought with
  lastAccepted   \* history: instant and cooldown of the last accepted action

account == <<build, nextAllowedAt, granted, spent, lastAccepted>>
vars == <<now, rules, match, score, account>>

NoScore == [side \in Sides |-> [m \in Modalities |-> 0]]
NewMatch(i) == [startsAt |-> i.startsAt, endsAt |-> i.endsAt, status |-> "scheduled"]
ValidSnapshots == {r \in Rules : ValidRules(r)}

Init ==
  /\ now = 0
  /\ rules \in ValidSnapshots
  /\ \E i \in Intervals : match = NewMatch(i)
  /\ score = NoScore
  /\ build = [a \in Accounts |-> [m \in Modalities |-> [level |-> 0, xp |-> 0]]]
  /\ nextAllowedAt = [a \in Accounts |-> None]
  /\ granted = [a \in Accounts |-> [m \in Modalities |-> 0]]
  /\ spent = [a \in Accounts |-> [m \in Modalities |-> 0]]
  /\ lastAccepted = [a \in Accounts |-> None]

\* What all levels below one cost together, and those from one to another, under
\* the rules of the match.
Price(snapshot) ==
  LET price[level \in 0 .. MaxLevel] ==
        IF level = 0 THEN 0 ELSE price[level - 1] + Required(snapshot, level - 1)
  IN price
Cost(from, to) == Price(rules)[to] - Price(rules)[from]

\* evaluateAction: every sum is checked before anything is kept.
EvaluateAction(a, m, sample) ==
  LET before == build[a][m]
      after == GrantActionXp(build[a], m, rules)
      xp == XpGranted(build[a], m, rules)
      updated == [score EXCEPT ![SideOf[a]][m] = @ + ActionPoints(before.level, sample, rules)]
      deadline == now + rules.cooldownMs
  IN /\ ValidBuild(build[a])
     /\ Verdict(match, now, nextAllowedAt[a]) = "ACCEPTED"
     /\ Safe(before.xp + xp)
     /\ ValidScore(updated)
     /\ Safe(deadline)
     /\ score' = updated
     /\ build' = [build EXCEPT ![a] = after]
     /\ nextAllowedAt' = [nextAllowedAt EXCEPT ![a] = deadline]
     /\ match' = [match EXCEPT !.status = "active"]
     /\ granted' = [granted EXCEPT ![a][m] = @ + xp]
     /\ spent' = [spent EXCEPT ![a][m] = @ + Cost(before.level, after[m].level)]
     /\ lastAccepted' = [lastAccepted EXCEPT ![a] = [at |-> now, cooldown |-> rules.cooldownMs]]
     /\ UNCHANGED <<now, rules>>

\* The caller ends the match; one with actions cannot be cancelled.
EndMatch(status) ==
  /\ match.status \in {"scheduled", "active"}
  /\ status = "cancelled" => match.status = "scheduled"
  /\ match' = [match EXCEPT !.status = status]
  /\ UNCHANGED <<now, rules, score, account>>

\* The next match has rules and an interval of its own; the account goes on.
OpenMatch(r, i) ==
  /\ match.status \in {"finished", "cancelled"}
  /\ match' = NewMatch(i)
  /\ rules' = r
  /\ score' = NoScore
  /\ UNCHANGED <<now, account>>

Tick ==
  /\ now < Horizon
  /\ now' = now + 1
  /\ UNCHANGED <<rules, match, score, account>>

Next ==
  \/ \E a \in Accounts, m \in Modalities, sample \in 0 .. RngScale - 1 :
       EvaluateAction(a, m, sample)
  \/ \E status \in {"finished", "cancelled"} : EndMatch(status)
  \/ \E r \in ValidSnapshots, i \in Intervals : OpenMatch(r, i)
  \/ Tick

Spec == Init /\ [][Next]_vars
-----------------------------------------------------------------------------
\* No experience is lost or made up, over any number of level-ups, caps and
\* changes of the curve: what was granted is in the levels or still there.
XpIsConserved ==
  \A a \in Accounts, m \in Modalities : granted[a][m] = spent[a][m] + build[a][m].xp

\* Between two accepted actions of an account lies the cooldown of the earlier
\* one's rules, whatever the rules of the later one's match.
CooldownOutlivesTheMatch ==
  [][\A a \in Accounts :
       lastAccepted'[a] # lastAccepted[a] /\ lastAccepted[a] # None =>
         now >= lastAccepted[a].at + lastAccepted[a].cooldown]_vars
=============================================================================
