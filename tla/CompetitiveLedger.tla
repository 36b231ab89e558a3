--------------------------- MODULE CompetitiveLedger ---------------------------
(***************************************************************************)
(* What the tables, constraints and triggers of the competitive ledger     *)
(* (packages/database/migrations/0005_black_vanisher.sql) let concurrent   *)
(* READ COMMITTED transactions do.  Writers are the transactions of the    *)
(* repository's integration test, in any order of statements that the      *)
(* constraints admit.  A statement that raises, a lock time-out, a         *)
(* deadlock and a ROLLBACK are all Rollback.                               *)
(*                                                                         *)
(* An action is named by its transaction.  Left out, because they do not   *)
(* depend on what other transactions do: the checks of an action against   *)
(* the immutable configuration of its match (groups, rules, interval), the *)
(* checks of counters and builds, and the unique sequence and version      *)
(* numbers, without which more transactions succeed here than there.       *)
(***************************************************************************)
EXTENDS Naturals, FiniteSets

CONSTANTS
  Transactions,
  Matches,
  Users,
  Sides,               \* the two groups of a match
  Keys,                \* hashes of idempotency keys
  ActionsUpdateMatch,  \* whether who accepts an action also updates the match's row
  None

ASSUME LedgerAssumption == ActionsUpdateMatch \in BOOLEAN

VARIABLES
  state,        \* matches.state, committed
  participant,  \* match_participants: the locked group and first action, committed
  ledger,       \* competitive_actions, committed
  receipts,     \* competitive_action_receipts, committed
  phase,        \* of a transaction: "idle", "open" or "over"
  request,      \* the action a transaction is to accept
  wrote,        \* its uncommitted rows other than the match's
  change        \* the uncommitted version of a match's row that it wrote

tables == <<state, participant, ledger, receipts>>
session == <<phase, request, wrote, change>>
vars == <<tables, session>>

States == {"scheduled", "active", "finished", "cancelled"}
Terminal == {"finished", "cancelled"}
Request == [match : Matches, user : Users, side : Sides, key : Keys]
Change == [match : Matches, state : States]
Lock == [side : Sides, first : Transactions]
Action == [id : Transactions, match : Matches, user : Users, side : Sides]
Receipt == [id : Transactions, match : Matches, user : Users, key : Keys]

ASSUME NoneAssumption == None \notin Request \cup Change \cup Lock

Init ==
  /\ state = [m \in Matches |-> "scheduled"]
  /\ participant = [p \in Matches \X Users |-> None]
  /\ ledger = {}
  /\ receipts = {}
  /\ phase = [t \in Transactions |-> "idle"]
  /\ request = [t \in Transactions |-> None]
  /\ wrote = [t \in Transactions |-> {}]
  /\ change = [t \in Transactions |-> None]

Open(t) == phase[t] = "open"
Place(t) == <<request[t].match, request[t].user>>
Accepted(m) == {a \in ledger : a.match = m}

ActionOf(t) == [id |-> t, match |-> request[t].match, user |-> request[t].user,
                side |-> request[t].side]
ReceiptOf(t) == [id |-> t, match |-> request[t].match, user |-> request[t].user,
                 key |-> request[t].key]
LockOf(t) == [side |-> request[t].side, first |-> t]

\* No open transaction has updated the row of m.
MatchRowFree(m) == \A t \in Transactions : change[t] # None => change[t].match # m

\* No open transaction has written the row of the participant.
ParticipantRowFree(p) ==
  \A t \in Transactions : "participant" \in wrote[t] => Place(t) # p

\* The unique index on user, match and key_hash.
KeyUnused(r) ==
  /\ \A c \in receipts : ~(c.user = r.user /\ c.match = r.match /\ c.key = r.key)
  /\ \A t \in Transactions :
       "receipt" \in wrote[t] => ~(/\ request[t].user = r.user
                                   /\ request[t].match = r.match
                                   /\ request[t].key = r.key)

\* What t reads: its own version of a row, or else the committed one.
StateSeen(t, m) == IF change[t] # None /\ change[t].match = m
                   THEN change[t].state ELSE state[m]
LockSeen(t) == IF "participant" \in wrote[t] THEN LockOf(t) ELSE participant[Place(t)]

\* Mutant: an accepted match may be cancelled.
ProtectStateOnly(m, new) ==
  /\ state[m] \notin Terminal
  /\ ~(new = "scheduled" /\ state[m] = "active")
\* Mutant: a finished match may be updated.
ProtectCancelledOnly(m, new) ==
  /\ state[m] # "cancelled"
  /\ ~(new = "scheduled" /\ state[m] = "active")
  /\ new = "cancelled" => Accepted(m) = {}
\* The trigger on matches, run by who has the row: it reads the row as it was
\* committed and the committed actions.
ProtectCompetitiveMatch(m, new) ==
  /\ state[m] \notin Terminal
  /\ ~(new = "scheduled" /\ state[m] = "active")
  /\ new = "cancelled" => Accepted(m) = {}
-----------------------------------------------------------------------------
Begin(t, r) ==
  /\ phase[t] = "idle"
  /\ phase' = [phase EXCEPT ![t] = "open"]
  /\ request' = [request EXCEPT ![t] = r]
  /\ UNCHANGED <<tables, wrote, change>>

Write(t, row) ==
  /\ Open(t)
  /\ request[t] # None
  /\ row \notin wrote[t]
  /\ wrote' = [wrote EXCEPT ![t] = @ \cup {row}]
  /\ UNCHANGED <<tables, phase, request, change>>

\* Mutant: the side of an accepted participant can be changed.
RelockParticipant(t) ==
  /\ Write(t, "participant")
  /\ ParticipantRowFree(Place(t))
\* UPDATE match_participants; the trigger refuses a second lock.
LockParticipant(t) ==
  /\ Write(t, "participant")
  /\ ParticipantRowFree(Place(t))
  /\ participant[Place(t)] = None

\* INSERT INTO competitive_action_receipts.  Its KEY SHARE lock on the match's
\* row does not conflict with an update of other columns.
InsertReceipt(t) ==
  /\ Write(t, "receipt")
  /\ KeyUnused(request[t])

\* INSERT INTO competitive_actions: the foreign key to the receipt is immediate,
\* the trigger reads the participant and the match without locking them.
InsertAction(t) ==
  /\ Write(t, "action")
  /\ "receipt" \in wrote[t]
  /\ LockSeen(t) # None
  /\ LockSeen(t).side = request[t].side
  /\ StateSeen(t, request[t].match) \notin Terminal

\* UPDATE matches, by who accepts an action: score and state (statusAfter).
UpdateScore(t) ==
  /\ Open(t)
  /\ request[t] # None
  /\ change[t] = None
  /\ MatchRowFree(request[t].match)
  /\ ProtectCompetitiveMatch(request[t].match, "active")
  /\ change' = [change EXCEPT ![t] = [match |-> request[t].match, state |-> "active"]]
  /\ UNCHANGED <<tables, phase, request, wrote>>

\* BEGIN and UPDATE matches SET state, by who starts, finishes or cancels one.
UpdateState(t, m, new) ==
  /\ phase[t] = "idle"
  /\ MatchRowFree(m)
  /\ ProtectCompetitiveMatch(m, new)
  /\ phase' = [phase EXCEPT ![t] = "open"]
  /\ change' = [change EXCEPT ![t] = [match |-> m, state |-> new]]
  /\ UNCHANGED <<tables, request, wrote>>

\* Mutant: the foreign key of a receipt is not checked.
DeferredWithoutReceipts(t) == "participant" \in wrote[t] => "action" \in wrote[t]
\* The deferred constraints: a receipt has its action, a locked participant its
\* first action.
Deferred(t) ==
  /\ "receipt" \in wrote[t] => "action" \in wrote[t]
  /\ "participant" \in wrote[t] => "action" \in wrote[t]

End(t) ==
  /\ phase' = [phase EXCEPT ![t] = "over"]
  /\ request' = [request EXCEPT ![t] = None]
  /\ wrote' = [wrote EXCEPT ![t] = {}]
  /\ change' = [change EXCEPT ![t] = None]

Commit(t) ==
  /\ Open(t)
  /\ Deferred(t)
  /\ ActionsUpdateMatch /\ "action" \in wrote[t] => change[t] # None
  /\ state' = [m \in Matches |-> StateSeen(t, m)]
  /\ participant' = IF "participant" \in wrote[t]
                    THEN [participant EXCEPT ![Place(t)] = LockOf(t)] ELSE participant
  /\ ledger' = IF "action" \in wrote[t] THEN ledger \cup {ActionOf(t)} ELSE ledger
  /\ receipts' = IF "receipt" \in wrote[t] THEN receipts \cup {ReceiptOf(t)} ELSE receipts
  /\ End(t)

Rollback(t) ==
  /\ Open(t)
  /\ End(t)
  /\ UNCHANGED tables

Next ==
  \E t \in Transactions :
    \/ \E r \in Request : Begin(t, r)
    \/ LockParticipant(t)
    \/ InsertReceipt(t)
    \/ InsertAction(t)
    \/ UpdateScore(t)
    \/ \E m \in Matches, new \in States : UpdateState(t, m, new)
    \/ Commit(t)
    \/ Rollback(t)

Spec == Init /\ [][Next]_vars
-----------------------------------------------------------------------------
TypeOK ==
  /\ state \in [Matches -> States]
  /\ participant \in [Matches \X Users -> Lock \cup {None}]
  /\ ledger \subseteq Action
  /\ receipts \subseteq Receipt
  /\ phase \in [Transactions -> {"idle", "open", "over"}]
  /\ request \in [Transactions -> Request \cup {None}]
  /\ wrote \in [Transactions -> SUBSET {"participant", "receipt", "action"}]
  /\ change \in [Transactions -> Change \cup {None}]

\* "accepted match cannot be cancelled" (0005_black_vanisher.sql:206), whatever
\* commits between the trigger's look at the ledger and the cancellation.
AcceptedMatchIsNotCancelled ==
  \A m \in Matches : state[m] = "cancelled" => Accepted(m) = {}

\* Once a match is finished or cancelled no action is added to its ledger, so
\* the result that was stored with it stays the result of its actions.
LedgerClosesWithMatch ==
  [][\A m \in Matches : state[m] \in Terminal => Accepted(m)' = Accepted(m)]_vars

\* Concurrent updates of a match never undo its end or its start.
MatchNeverGoesBack ==
  [][\A m \in Matches : state'[m] # state[m] =>
       state[m] \notin Terminal /\ state'[m] # "scheduled"]_vars

\* "neither may be committed alone" (0005_black_vanisher.sql:181): receipts and
\* actions come in pairs, and a key was spent on one action only.
ReceiptsPairActions ==
  /\ \A c \in receipts : \E a \in ledger :
       a.id = c.id /\ a.match = c.match /\ a.user = c.user
  /\ \A a \in ledger : \E c \in receipts :
       c.id = a.id /\ c.match = a.match /\ c.user = a.user

OneActionPerKey ==
  \A a, b \in receipts :
    a.user = b.user /\ a.match = b.match /\ a.key = b.key => a = b

\* A user plays a match for one side: the side of the first action, which is in
\* the ledger whenever the participant is locked.
SideIsThatOfFirstAction ==
  /\ \A a \in ledger :
       /\ participant[<<a.match, a.user>>] # None
       /\ participant[<<a.match, a.user>>].side = a.side
  /\ \A m \in Matches, u \in Users :
       participant[<<m, u>>] # None =>
         \E a \in ledger : /\ a.match = m /\ a.user = u
                           /\ a.id = participant[<<m, u>>].first
                           /\ a.side = participant[<<m, u>>].side
=============================================================================
