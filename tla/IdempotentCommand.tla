-------------------------- MODULE IdempotentCommand --------------------------
(***************************************************************************)
(* executeTechnicalAction (packages/database/src/technical-action.ts) run  *)
(* through executeIdempotentCommand (idempotency.ts), statement by         *)
(* statement, by concurrent API requests over PostgreSQL READ COMMITTED,   *)
(* together with the clean-up of expired idempotency records.              *)
(*                                                                         *)
(* A request is one HTTP call handled by one transaction.  A caller that   *)
(* retries is another request with the same key.  A Key stands for the     *)
(* (scope, key) pair that the unique index covers; the scope embeds the    *)
(* match, so each key belongs to one match.  The hash of the request is    *)
(* represented by its action, the only field that can differ under one     *)
(* key.                                                                    *)
(*                                                                         *)
(* Tables hold committed rows.  writes[r] names the rows that r's          *)
(* transaction has written and not committed: other transactions cannot    *)
(* read them, but wait for them, because writing a row locks it until the  *)
(* transaction ends.                                                       *)
(***************************************************************************)
EXTENDS Naturals, FiniteSets

CONSTANTS
  Requests,      \* HTTP requests, one transaction each
  Cleaners,      \* callers of deleteExpiredIdempotencyRecords
  Keys,          \* (scope, key) pairs
  Matches,
  Actions,
  MatchOf,       \* the match that each key's scope names
  Retention,     \* lifetime of an idempotency record
  CleanupLimit,  \* rows a clean-up deletes at most
  Horizon,       \* bound on the clock
  None

ASSUME CommandAssumption ==
  /\ MatchOf \in [Keys -> Matches]
  /\ Retention \in Nat \ {0}
  /\ CleanupLimit \in Nat \ {0}
  /\ Horizon \in Nat

VARIABLES
  clock,
  records,       \* app.idempotency_records, by (scope, key)
  lastSequence,  \* app.match_sequences, 0 where the match has no row
  outbox,        \* app.outbox_messages
  pc,            \* the next statement of each request's transaction
  command,       \* what each request asks for, and when it started
  drawn,         \* the sequence its transaction obtained
  writes,        \* the rows its transaction has written, not committed
  value,         \* the response its transaction will return
  reply,         \* what the caller received
  deleting       \* the keys whose deletion a cleaner has not committed

tables == <<records, lastSequence, outbox>>
vars == <<clock, records, lastSequence, outbox, pc, command, drawn, writes,
          value, reply, deleting>>

Rows == {"record", "sequence", "message", "response"}
Value == [event: Requests, sequence: Nat]
Command == [key: Keys, action: Actions, now: Nat]
\* A row of app.idempotency_records; event None is a null response.
Record == [action: Actions, event: Requests \cup {None}, sequence: Nat,
           expiresAt: Nat]
\* A row of app.outbox_messages.  Its event id is created once per execution
\* of the operation, so the executing request stands for it; key is a history
\* field that no code reads.
Message == [event: Requests, key: Keys, match: Matches, action: Actions,
            sequence: Nat, occurredAt: Nat]
Reply == [status: {"accepted", "replayed"}, event: Requests, sequence: Nat]
           \cup [status: {"conflict", "stateError", "error"}]

\* None stands for an absent row, value or answer.
ASSUME NoneAssumption ==
  None \notin Requests \cup Value \cup Command \cup Record \cup Reply

Init ==
  /\ clock = 0
  /\ records = [k \in Keys |-> None]
  /\ lastSequence = [m \in Matches |-> 0]
  /\ outbox = {}
  /\ pc = [r \in Requests |-> "idle"]
  /\ command = [r \in Requests |-> None]
  /\ drawn = [r \in Requests |-> 0]
  /\ writes = [r \in Requests |-> {}]
  /\ value = [r \in Requests |-> None]
  /\ reply = [r \in Requests |-> None]
  /\ deleting = [c \in Cleaners |-> {}]

KeyOf(r) == command[r].key
ActionOf(r) == command[r].action
MatchTo(r) == MatchOf[KeyOf(r)]

Holds(r, row) == row \in writes[r]

\* Mutant: the unique index does not make writers of one key wait.
KeyNeverLocked(k) == k \in Keys

\* No other transaction has an uncommitted insert or delete of the key's row.
KeyFree(k) ==
  /\ \A r \in Requests : Holds(r, "record") => KeyOf(r) # k
  /\ \A c \in Cleaners : k \notin deleting[c]

\* Mutant: the counter is read without locking its row.
MatchNeverLocked(m) == m \in Matches

\* No other transaction has an uncommitted update of the match's row.
MatchFree(m) == \A r \in Requests : Holds(r, "sequence") => MatchTo(r) # m

InTransaction(r) ==
  pc[r] \in {"insert", "select", "sequence", "outbox", "complete", "commit"}

Write(r, row, next) ==
  /\ writes' = [writes EXCEPT ![r] = @ \cup {row}]
  /\ pc' = [pc EXCEPT ![r] = next]

\* Mutant: a failed transaction is left open and keeps its locks.
RejectWithoutRollback(r, status) ==
  /\ pc' = [pc EXCEPT ![r] = "done"]
  /\ reply' = [reply EXCEPT ![r] = [status |-> status]]
  /\ UNCHANGED writes

\* The transaction ends with nothing visible and the caller gets an error.
Reject(r, status) ==
  /\ pc' = [pc EXCEPT ![r] = "done"]
  /\ writes' = [writes EXCEPT ![r] = {}]
  /\ reply' = [reply EXCEPT ![r] = [status |-> status]]
-----------------------------------------------------------------------------
\* The handler reads the clock before the transaction begins.
Submit(r) ==
  /\ pc[r] = "idle"
  /\ \E k \in Keys, a \in Actions :
       command' = [command EXCEPT ![r] = [key |-> k, action |-> a, now |-> clock]]
  /\ pc' = [pc EXCEPT ![r] = "insert"]
  /\ UNCHANGED <<clock, tables, drawn, writes, value, reply, deleting>>

\* INSERT ... ON CONFLICT DO NOTHING waits for an uncommitted insert or delete
\* of the same key, then inserts or finds the committed row.
InsertRecord(r) ==
  /\ pc[r] = "insert"
  /\ KeyFree(KeyOf(r))
  /\ \/ records[KeyOf(r)] = None /\ Write(r, "record", "sequence")
     \/ /\ records[KeyOf(r)] # None
        /\ pc' = [pc EXCEPT ![r] = "select"]
        /\ UNCHANGED writes
  /\ UNCHANGED <<clock, tables, command, drawn, value, reply, deleting>>

Completed(row) == row # None /\ row.event # None

\* Mutant: the hash is not compared.
AnyRequest(row, r) == row # None /\ r \in Requests
\* Mutant: the hash covers the event id, new in each execution.
SameExecution(row, r) == row.event = r
\* Equal request hashes.
SameRequest(row, r) == row.action = ActionOf(r)

\* The SELECT takes a snapshot of its own: the row that the INSERT ran into
\* may have been deleted in between.
SelectExisting(r) ==
  LET existing == records[KeyOf(r)] IN
  /\ pc[r] = "select"
  /\ \/ /\ ~Completed(existing)
        /\ Reject(r, "stateError")
        /\ UNCHANGED value
     \/ /\ Completed(existing)
        /\ ~SameRequest(existing, r)
        /\ Reject(r, "conflict")
        /\ UNCHANGED value
     \/ /\ Completed(existing)
        /\ SameRequest(existing, r)
        /\ value' = [value EXCEPT ![r] = [event |-> existing.event,
                                          sequence |-> existing.sequence]]
        /\ pc' = [pc EXCEPT ![r] = "commit"]
        /\ UNCHANGED <<writes, reply>>
  /\ UNCHANGED <<clock, tables, command, drawn, deleting>>

\* INSERT ... ON CONFLICT DO UPDATE waits for the row lock, then increments
\* the latest committed value.
NextMatchSequence(r) ==
  /\ pc[r] = "sequence"
  /\ MatchFree(MatchTo(r))
  /\ drawn' = [drawn EXCEPT ![r] = lastSequence[MatchTo(r)] + 1]
  /\ Write(r, "sequence", "outbox")
  /\ UNCHANGED <<clock, tables, command, value, reply, deleting>>

\* The unique index on (aggregate, sequence) refuses a number already used.
RecordOutboxMessage(r) ==
  /\ pc[r] = "outbox"
  /\ \A x \in outbox : ~(x.match = MatchTo(r) /\ x.sequence = drawn[r])
  /\ Write(r, "message", "complete")
  /\ UNCHANGED <<clock, tables, command, drawn, value, reply, deleting>>

CompleteRecord(r) ==
  /\ pc[r] = "complete"
  /\ Write(r, "response", "commit")
  /\ value' = [value EXCEPT ![r] = [event |-> r, sequence |-> drawn[r]]]
  /\ UNCHANGED <<clock, tables, command, drawn, reply, deleting>>

RecordOf(r) ==
  [action |-> ActionOf(r),
   event |-> IF Holds(r, "response") THEN r ELSE None,
   sequence |-> drawn[r],
   expiresAt |-> command[r].now + Retention]

MessageOf(r) ==
  [event |-> r, key |-> KeyOf(r), match |-> MatchTo(r), action |-> ActionOf(r),
   sequence |-> drawn[r], occurredAt |-> command[r].now]

\* Whatever the transaction wrote becomes visible at once and its locks go.
Commit(r) ==
  /\ pc[r] = "commit"
  /\ records' = IF Holds(r, "record")
                THEN [records EXCEPT ![KeyOf(r)] = RecordOf(r)] ELSE records
  /\ lastSequence' = IF Holds(r, "sequence")
                     THEN [lastSequence EXCEPT ![MatchTo(r)] = drawn[r]]
                     ELSE lastSequence
  /\ outbox' = IF Holds(r, "message") THEN outbox \cup {MessageOf(r)} ELSE outbox
  /\ writes' = [writes EXCEPT ![r] = {}]
  /\ pc' = [pc EXCEPT ![r] = "respond"]
  /\ UNCHANGED <<clock, command, drawn, value, reply, deleting>>

\* Lock timeout, statement timeout, lost connection or a crash of the API:
\* PostgreSQL rolls the transaction back.
Abort(r) ==
  /\ InTransaction(r)
  /\ Reject(r, "error")
  /\ UNCHANGED <<clock, tables, command, drawn, value, deleting>>

Respond(r) ==
  /\ pc[r] = "respond"
  /\ reply' = [reply EXCEPT ![r] =
       [status |-> IF value[r].event = r THEN "accepted" ELSE "replayed",
        event |-> value[r].event, sequence |-> value[r].sequence]]
  /\ pc' = [pc EXCEPT ![r] = "done"]
  /\ UNCHANGED <<clock, tables, command, drawn, writes, value, deleting>>

\* The transaction committed but the caller sees a failure: the answer to
\* COMMIT or the HTTP response was lost.
LoseReply(r) ==
  /\ pc[r] = "respond"
  /\ Reject(r, "error")
  /\ UNCHANGED <<clock, tables, command, drawn, value, deleting>>
-----------------------------------------------------------------------------
\* Mutant: the clean-up ignores expires_at.
AnyAge == {k \in Keys : records[k] # None /\ KeyFree(k)}
\* Expired rows that the clean-up can lock (SKIP LOCKED).
Expired == {k \in Keys : /\ records[k] # None
                         /\ records[k].expiresAt <= clock
                         /\ KeyFree(k)}

\* One statement deletes the CleanupLimit rows that expired first.
DeleteExpired(c) ==
  /\ deleting[c] = {}
  /\ \E chosen \in (SUBSET Expired) \ {{}} :
       /\ Cardinality(chosen) <= CleanupLimit
       /\ Expired # chosen => Cardinality(chosen) = CleanupLimit
       /\ \A k \in chosen, other \in Expired \ chosen :
            records[k].expiresAt <= records[other].expiresAt
       /\ deleting' = [deleting EXCEPT ![c] = chosen]
  /\ UNCHANGED <<clock, tables, pc, command, drawn, writes, value, reply>>

CommitDeletion(c) ==
  /\ deleting[c] # {}
  /\ records' = [k \in Keys |-> IF k \in deleting[c] THEN None ELSE records[k]]
  /\ deleting' = [deleting EXCEPT ![c] = {}]
  /\ UNCHANGED <<clock, lastSequence, outbox, pc, command, drawn, writes, value,
                 reply>>

AbortDeletion(c) ==
  /\ deleting[c] # {}
  /\ deleting' = [deleting EXCEPT ![c] = {}]
  /\ UNCHANGED <<clock, tables, pc, command, drawn, writes, value, reply>>

Tick ==
  /\ clock < Horizon
  /\ clock' = clock + 1
  /\ UNCHANGED <<tables, pc, command, drawn, writes, value, reply, deleting>>

Progress(r) ==
  \/ InsertRecord(r)
  \/ SelectExisting(r)
  \/ NextMatchSequence(r)
  \/ RecordOutboxMessage(r)
  \/ CompleteRecord(r)
  \/ Commit(r)
  \/ Respond(r)

Next ==
  \/ \E r \in Requests : Submit(r) \/ Progress(r) \/ Abort(r) \/ LoseReply(r)
  \/ \E c \in Cleaners : DeleteExpired(c) \/ CommitDeletion(c) \/ AbortDeletion(c)
  \/ Tick

Spec == Init /\ [][Next]_vars

\* The Node event loop runs a request until its answer and a clean-up ends.
\* PostgreSQL wakes whoever waits for a row when the transaction that holds it
\* ends, so repeated clean-ups that fail do not starve an INSERT (strong
\* fairness).  Nothing is assumed about time-outs.
Fairness ==
  /\ \A r \in Requests : WF_vars(Progress(r)) /\ SF_vars(InsertRecord(r))
  /\ \A c \in Cleaners : WF_vars(CommitDeletion(c))

FairSpec == Spec /\ Fairness
-----------------------------------------------------------------------------
TypeOK ==
  /\ clock \in Nat
  /\ records \in [Keys -> Record \cup {None}]
  /\ lastSequence \in [Matches -> Nat]
  /\ outbox \subseteq Message
  /\ pc \in [Requests -> {"idle", "insert", "select", "sequence", "outbox",
                          "complete", "commit", "respond", "done"}]
  /\ command \in [Requests -> Command \cup {None}]
  /\ drawn \in [Requests -> Nat]
  /\ writes \in [Requests -> SUBSET Rows]
  /\ value \in [Requests -> Value \cup {None}]
  /\ reply \in [Requests -> Reply \cup {None}]
  /\ deleting \in [Cleaners -> SUBSET Keys]

EffectsOf(m) == {x \in outbox : x.match = m}

\* The committed messages of a match carry the numbers 1 to last_sequence,
\* each exactly once: a rolled back command leaves no gap, two concurrent ones
\* never share a number (nextMatchSequence and recordOutboxMessage in one
\* transaction).
ContiguousSequences ==
  /\ \A m \in Matches :
       {x.sequence : x \in EffectsOf(m)} = 1 .. lastSequence[m]
  /\ \A x, y \in outbox : x.match = y.match /\ x.sequence = y.sequence => x = y

\* A record that other transactions can see has its response, and that response
\* names a committed message of the same key and action: the record, the
\* sequence and the message of a command are visible together or not at all.
RecordAnswersForEffect ==
  \A k \in Keys : records[k] # None =>
    \E x \in outbox : /\ x.key = k
                      /\ x.event = records[k].event
                      /\ x.sequence = records[k].sequence
                      /\ x.action = records[k].action

\* Whoever is told that the action was accepted, first or on a replay, was told
\* of a committed message with the key and the action it sent.
AcceptedIsDurable ==
  \A r \in Requests :
    reply[r] # None /\ reply[r].status \in {"accepted", "replayed"} =>
      \E x \in outbox : /\ x.key = KeyOf(r) /\ x.action = ActionOf(r)
                        /\ x.event = reply[r].event
                        /\ x.sequence = reply[r].sequence

\* IDEMPOTENCY_KEY_CONFLICT is only answered when the key was used for another
\* action, and the 503 of IdempotencyStateError only when the key had a record
\* whose retention was over.
RefusalIsJustified ==
  \A r \in Requests : reply[r] # None =>
    /\ reply[r].status = "conflict" =>
         \E x \in outbox : x.key = KeyOf(r) /\ x.action # ActionOf(r)
    /\ reply[r].status = "stateError" =>
         \E x \in outbox : x.key = KeyOf(r) /\ x.occurredAt + Retention <= clock

\* A key takes effect again only when the retention of its earlier effect is
\* over, however requests, time-outs, lost answers and clean-ups interleave.
RetryWithinRetentionIsSafe ==
  [][\A x \in outbox' \ outbox : \A y \in outbox :
       x.key = y.key => y.occurredAt + Retention <= clock]_vars

\* A reader that pages through a match by sequence never sees a number appear
\* behind the last one it could read, nor a message change: commits become
\* visible in sequence order.
HistoryGrowsAtTheEnd ==
  [][/\ outbox \subseteq outbox'
     /\ \A x \in outbox' \ outbox : x.sequence = lastSequence[x.match] + 1]_vars

\* Every request that enters its transaction is answered, even if no lock wait
\* ever times out: a command locks its key before its match and a clean-up
\* never waits, so no group of transactions waits for itself.
EveryRequestSettles == <>[](\A r \in Requests : pc[r] \in {"idle", "done"})
=============================================================================
