---------------------------- MODULE OutboxDispatch ----------------------------
(***************************************************************************)
(* createOutboxDispatcher (packages/database/src/outbox.ts) driven by      *)
(* createOutboxRecovery (apps/worker/src/outbox/recovery.ts) in several    *)
(* worker processes, with the Redis publisher of                           *)
(* apps/worker/src/realtime/redis-publisher.ts.                            *)
(*                                                                         *)
(* Time is relative: due[m] counts the ticks until next_attempt_at and     *)
(* stays 0 once it has passed, so how long a message is overdue, and with  *)
(* it the order by next_attempt_at, is not represented: any due messages   *)
(* may be claimed first.  Claims, which are one UPDATE over rows locked    *)
(* with SKIP LOCKED, and marks are atomic.                                 *)
(***************************************************************************)
EXTENDS Naturals, FiniteSets

CONSTANTS
  Workers,          \* processes that run a dispatcher
  Messages,         \* event ids
  MaximumAttempts,
  Lease,            \* leaseMs
  BatchSize,
  RetryBase,        \* retryBaseMs
  RetryMaximum,     \* retryMaximumMs
  None

ASSUME DispatchAssumption ==
  /\ MaximumAttempts \in Nat \ {0}
  /\ Lease \in Nat \ {0}
  /\ BatchSize \in Nat \ {0}
  /\ RetryBase \in Nat \ {0}
  /\ RetryMaximum \in Nat \ {0}

VARIABLES
  status,     \* app.outbox_messages.status; "absent" before the insert
  attempts,
  due,
  holding,    \* the claims of a worker's batch still to be published
  current,    \* the claim whose publication has an outcome to be marked
  outcome,    \* "none", "published" or "refused"
  lease,      \* ticks left of the lease a worker's batch was claimed with
  delivered,  \* history: the claims whose message reached a subscriber
  timely      \* history: no batch has outlived its lease

rows == <<status, attempts, due>>
run == <<holding, current, outcome>>
vars == <<rows, run, lease, delivered, timely>>

\* A claimed message with the number of the attempt.
Claim == [message: Messages, attempt: Nat]

ASSUME NoClaimAssumption == None \notin Claim

Init ==
  /\ status = [m \in Messages |-> "absent"]
  /\ attempts = [m \in Messages |-> 0]
  /\ due = [m \in Messages |-> 0]
  /\ holding = [w \in Workers |-> {}]
  /\ current = [w \in Workers |-> None]
  /\ outcome = [w \in Workers |-> "none"]
  /\ lease = [w \in Workers |-> 0]
  /\ delivered = {}
  /\ timely = TRUE

\* What w has claimed and not yet marked.
Held(w) == holding[w] \cup ({current[w]} \ {None})
Holds(w, m) == \E c \in Held(w) : c.message = m

\* recovery.ts keeps one activeRun; a new batch waits for its end.
Idle(w) == holding[w] = {} /\ current[w] = None

\* Mutant: next_attempt_at is ignored.
ClaimableAtOnce == {m \in Messages : /\ attempts[m] < MaximumAttempts
                                     /\ status[m] \in {"pending", "failed", "publishing"}}
\* Mutant: an interrupted publication is never claimed again.
ClaimableUnlessPublishing == {m \in Messages : /\ attempts[m] < MaximumAttempts
                                               /\ due[m] = 0
                                               /\ status[m] \in {"pending", "failed"}}
\* The messages that the WHERE clause of the claim selects.
Claimable == {m \in Messages : /\ attempts[m] < MaximumAttempts
                               /\ due[m] = 0
                               /\ status[m] \in {"pending", "failed", "publishing"}}

\* min(retryBaseMs * 2 ** (attempt - 1), retryMaximumMs)
Backoff(attempt) ==
  LET delay == RetryBase * 2 ^ (attempt - 1) IN
  IF delay \in 0 .. RetryMaximum THEN delay ELSE RetryMaximum

\* The batch goes on to its next message, or ends.
Continue(w) ==
  /\ current' = [current EXCEPT ![w] = None]
  /\ outcome' = [outcome EXCEPT ![w] = "none"]
  /\ UNCHANGED holding

\* An error leaves the batch: what it still held stays "publishing".
Drop(w) ==
  /\ holding' = [holding EXCEPT ![w] = {}]
  /\ current' = [current EXCEPT ![w] = None]
  /\ outcome' = [outcome EXCEPT ![w] = "none"]
-----------------------------------------------------------------------------
\* A command commits its message (IdempotentCommand), due at once.
RecordOutboxMessage(m) ==
  /\ status[m] = "absent"
  /\ status' = [status EXCEPT ![m] = "pending"]
  /\ UNCHANGED <<attempts, due, run, lease, delivered, timely>>

\* UPDATE ... RETURNING: the rows come back in no particular order.
ClaimMessages(w, chosen) ==
  /\ status' = [m \in Messages |-> IF m \in chosen THEN "publishing" ELSE status[m]]
  /\ attempts' = [m \in Messages |-> IF m \in chosen THEN attempts[m] + 1 ELSE attempts[m]]
  /\ due' = [m \in Messages |-> IF m \in chosen THEN Lease ELSE due[m]]
  /\ holding' = [holding EXCEPT ![w] =
                   {[message |-> m, attempt |-> attempts[m] + 1] : m \in chosen}]
  /\ lease' = [lease EXCEPT ![w] = Lease]
  /\ UNCHANGED <<current, outcome, delivered, timely>>

\* dispatchBatch: at most BatchSize messages, all the claimable ones if fewer.
DispatchBatch(w) ==
  /\ Idle(w)
  /\ \E chosen \in (SUBSET Claimable) \ {{}} :
       /\ Cardinality(chosen) <= BatchSize
       /\ chosen # Claimable => Cardinality(chosen) = BatchSize
       /\ ClaimMessages(w, chosen)

\* dispatchNow claims the message it was asked for.
DispatchNow(w, m) ==
  /\ Idle(w)
  /\ m \in Claimable
  /\ ClaimMessages(w, {m})

Attempt(w, c, result) ==
  /\ current[w] = None
  /\ c \in holding[w]
  /\ holding' = [holding EXCEPT ![w] = @ \ {c}]
  /\ current' = [current EXCEPT ![w] = c]
  /\ outcome' = [outcome EXCEPT ![w] = result]
  /\ UNCHANGED <<rows, lease, timely>>

\* PUBLISH reaches at least one subscriber and its reply comes back.
PublishSucceeds(w, c) ==
  /\ Attempt(w, c, "published")
  /\ delivered' = delivered \cup {c}

\* Redis is down or nobody subscribes.
PublishFails(w, c) ==
  /\ Attempt(w, c, "refused")
  /\ UNCHANGED delivered

\* Subscribers got the message but the reply to PUBLISH is lost.
PublishUnacknowledged(w, c) ==
  /\ Attempt(w, c, "refused")
  /\ delivered' = delivered \cup {c}

\* The condition of both UPDATEs: the row is still "publishing".  The row does
\* not say which worker claimed it.
StillPublishing(m) == status[m] = "publishing"

\* Mutant: the message is marked when Redis refuses it.
MarkPublishedUnseen(w) ==
  /\ outcome[w] # "none"
  /\ StillPublishing(current[w].message)
  /\ status' = [status EXCEPT ![current[w].message] = "published"]
  /\ Continue(w)
  /\ UNCHANGED <<attempts, due, lease, delivered, timely>>
MarkPublished(w) ==
  /\ outcome[w] = "published"
  /\ StillPublishing(current[w].message)
  /\ status' = [status EXCEPT ![current[w].message] = "published"]
  /\ Continue(w)
  /\ UNCHANGED <<attempts, due, lease, delivered, timely>>

MarkFailed(w) ==
  /\ outcome[w] = "refused"
  /\ StillPublishing(current[w].message)
  /\ status' = [status EXCEPT ![current[w].message] = "failed"]
  /\ due' = [due EXCEPT ![current[w].message] = Backoff(current[w].attempt)]
  /\ Continue(w)
  /\ UNCHANGED <<attempts, lease, delivered, timely>>

\* OUTBOX_PUBLISH_STATE_LOST or OUTBOX_RETRY_STATE_LOST ends the batch.
LoseState(w) ==
  /\ outcome[w] # "none"
  /\ ~StillPublishing(current[w].message)
  /\ Drop(w)
  /\ UNCHANGED <<rows, lease, delivered, timely>>

\* The process crashes and restarts, or a mark fails with a database error.
Interrupt(w) ==
  /\ ~Idle(w)
  /\ Drop(w)
  /\ UNCHANGED <<rows, lease, delivered, timely>>

Earlier(n) == IF n = 0 THEN 0 ELSE n - 1

Tick ==
  /\ due' = [m \in Messages |-> Earlier(due[m])]
  /\ lease' = [w \in Workers |-> Earlier(lease[w])]
  /\ timely' = (timely /\ \A w \in Workers : ~Idle(w) => lease[w] > 1)
  /\ UNCHANGED <<status, attempts, run, delivered>>

Publish(w) ==
  \E c \in holding[w] : \/ PublishSucceeds(w, c)
                        \/ PublishFails(w, c)
                        \/ PublishUnacknowledged(w, c)

Mark(w) == MarkPublished(w) \/ MarkFailed(w) \/ LoseState(w)

Next ==
  \/ \E m \in Messages : RecordOutboxMessage(m)
  \/ \E w \in Workers : DispatchBatch(w) \/ Publish(w) \/ Mark(w) \/ Interrupt(w)
  \/ \E w \in Workers, m \in Messages : DispatchNow(w, m)
  \/ Tick

Spec == Init /\ [][Next]_vars

\* The recovery loop schedules a batch after each batch, failed ones included,
\* a running batch goes through its messages, and time passes.
Fairness ==
  /\ \A w \in Workers : WF_vars(DispatchBatch(w)) /\ WF_vars(Publish(w) \/ Mark(w))
  /\ WF_vars(Tick)

FairSpec == Spec /\ Fairness
-----------------------------------------------------------------------------
TypeOK ==
  /\ status \in [Messages -> {"absent", "pending", "publishing", "published", "failed"}]
  /\ attempts \in [Messages -> Nat]
  /\ due \in [Messages -> Nat]
  /\ holding \in [Workers -> SUBSET Claim]
  /\ current \in [Workers -> Claim \cup {None}]
  /\ outcome \in [Workers -> {"none", "published", "refused"}]
  /\ lease \in [Workers -> Nat]
  /\ delivered \subseteq Claim
  /\ timely \in BOOLEAN

Delivered(m) == \E c \in delivered : c.message = m

\* A message that the outbox reports as published reached a subscriber, whoever
\* of several workers with overlapping claims marked it.
PublishedWasDelivered ==
  \A m \in Messages : status[m] = "published" => Delivered(m)

\* However often workers crash and leases run out, attempts stay within
\* maximumAttempts, every delivery belongs to an attempt that was counted, and
\* no two workers, nor two claims of one worker, make the same attempt.
AttemptsAreCounted ==
  /\ \A m \in Messages : attempts[m] <= MaximumAttempts
  /\ \A c \in delivered : c.attempt \in 1 .. attempts[c.message]
  /\ \A w, v \in Workers : w # v => Held(w) \cap Held(v) = {}

\* As long as batches end within their lease they never overlap: no message is
\* published by two workers at a time.
OneHolderWhileTimely ==
  timely => \A w, v \in Workers, m \in Messages : Holds(w, m) /\ Holds(v, m) => w = v

\* A published message stays published: a worker whose lease ran out cannot
\* reopen it and it is never claimed again.
PublishedIsFinal ==
  [][\A m \in Messages : status[m] = "published" => status'[m] = "published"]_vars

Settled(m) == status[m] = "published" \/ attempts[m] = MaximumAttempts

\* Every recorded message is published or used up all its attempts, whatever
\* crashes, refusals and lost states happen on the way.
EveryMessageSettles == <>[](\A m \in Messages : status[m] = "absent" \/ Settled(m))

\* "Após o limite de tentativas, o registro permanece em failed e observável"
\* (docs/outbox-and-idempotency.md:27): a message out of attempts that no worker
\* is processing, with its lease over, is failed or published.
ExhaustedIsFailed ==
  \A m \in Messages :
    attempts[m] = MaximumAttempts /\ due[m] = 0 /\ (\A w \in Workers : ~Holds(w, m))
      => status[m] \in {"failed", "published"}
=============================================================================
