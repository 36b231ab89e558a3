--------------------- MODULE IdempotentCommandRefinement ---------------------
(***************************************************************************)
(* IdempotentCommand implements MatchActionLog: the log of a match is its  *)
(* outbox messages ordered by sequence, and a key is remembered while its  *)
(* idempotency record is committed.                                        *)
(***************************************************************************)
EXTENDS IdempotentCommand, Sequences

MessageAt(m, n) == CHOOSE x \in outbox : x.match = m /\ x.sequence = n

LogEntry(x) ==
  [event |-> x.event, key |-> x.key, action |-> x.action, at |-> x.occurredAt]

LogOf(m) == [n \in 1 .. lastSequence[m] |-> LogEntry(MessageAt(m, n))]

MemoryOf(k) == IF records[k] = None THEN None ELSE records[k].event

Abstract == INSTANCE MatchActionLog WITH
  log <- [m \in Matches |-> LogOf(m)],
  memory <- [k \in Keys |-> MemoryOf(k)],
  asked <- command,
  answer <- reply

\* Each step of the statements, commits, roll-backs and clean-ups is one step
\* of the log or none: executeIdempotentCommand keeps the promise of
\* docs/outbox-and-idempotency.md for concurrent callers of one key.
ImplementsActionLog == Abstract!Spec
=============================================================================
