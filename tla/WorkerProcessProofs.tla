------------------------- MODULE WorkerProcessProofs -------------------------
(***************************************************************************)
(* Proofs, for any number of workers, slots, messages and jobs and any     *)
(* settings, of the safety of the outbox dispatcher (OutboxDispatch), and  *)
(* that the worker process implements the outbox and the queue it is       *)
(* composed of, whatever start, stop or crash comes between two of their   *)
(* steps, and that its database is closed after everything that uses it.   *)
(***************************************************************************)
EXTENDS WorkerProcess, TechnicalQueueProofs

-----------------------------------------------------------------------------
(* The outbox.                                                             *)

\* Claims in hand were counted, and an outcome belongs to a claim taken out of
\* the batch.
ClaimsCounted ==
  /\ \A m \in Messages : attempts[m] <= MaximumAttempts
  /\ \A w \in Workers : \A c \in Held(w) : c.attempt \in 1 .. attempts[c.message]
  /\ \A c \in delivered : c.attempt \in 1 .. attempts[c.message]

ClaimsDiffer == \A w, v \in Workers : w # v => Held(w) \cap Held(v) = {}

OutcomeHasClaim ==
  \A w \in Workers :
    /\ outcome[w] # "none" => current[w] # None
    /\ outcome[w] = "published" => current[w] \in delivered
    /\ current[w] \notin holding[w]

\* While batches end in time, a claim in hand is the latest one of its message
\* and its lease still runs.
ClaimInForce(w, c) ==
  /\ c.attempt = attempts[c.message]
  /\ due[c.message] = lease[w]
  /\ lease[w] # 0
ClaimsInForce == timely => \A w \in Workers : \A c \in Held(w) : ClaimInForce(w, c)

-----------------------------------------------------------------------------
LEMMA BackoffIsNat == \A n : Backoff(n) \in Nat
BY DispatchAssumption DEF Backoff

LEMMA TypeStep == TypeOK /\ [Next]_vars => TypeOK'
<1> USE DispatchAssumption, NoClaimAssumption
<1> SUFFICES ASSUME TypeOK, [Next]_vars PROVE TypeOK'
  OBVIOUS
<1> USE DEF TypeOK, rows, run, Claim
<1>1. ASSUME NEW w \in Workers, DispatchBatch(w) PROVE TypeOK'
  BY <1>1 DEF DispatchBatch, ClaimMessages, Claimable, Idle
<1>2. ASSUME NEW w \in Workers, NEW m \in Messages, DispatchNow(w, m)
       PROVE TypeOK'
  BY <1>2 DEF DispatchNow, ClaimMessages, Claimable, Idle
<1>3. ASSUME NEW w \in Workers, NEW c \in holding[w], PublishSucceeds(w, c)
       PROVE TypeOK'
  BY <1>3 DEF PublishSucceeds, Attempt
<1>4. ASSUME NEW w \in Workers, NEW c \in holding[w], PublishFails(w, c)
       PROVE TypeOK'
  BY <1>4 DEF PublishFails, Attempt
<1>5. ASSUME NEW w \in Workers, NEW c \in holding[w], PublishUnacknowledged(w, c)
       PROVE TypeOK'
  BY <1>5 DEF PublishUnacknowledged, Attempt
<1>6. ASSUME NEW w \in Workers, MarkPublished(w) PROVE TypeOK'
  BY <1>6 DEF MarkPublished, Continue, StillPublishing
<1>7. ASSUME NEW w \in Workers, MarkFailed(w) PROVE TypeOK'
  BY <1>7, BackoffIsNat DEF MarkFailed, Continue, StillPublishing
<1>8. ASSUME NEW w \in Workers, LoseState(w) PROVE TypeOK'
  BY <1>8 DEF LoseState, Drop, StillPublishing
<1>9. ASSUME NEW w \in Workers, Interrupt(w) PROVE TypeOK'
  BY <1>9 DEF Interrupt, Drop, Idle
<1>10. ASSUME NEW m \in Messages, RecordOutboxMessage(m) PROVE TypeOK'
  BY <1>10 DEF RecordOutboxMessage
<1>11. CASE Tick
  BY <1>11 DEF Tick, Earlier
<1>12. CASE UNCHANGED vars
  BY <1>12 DEF vars
<1>13. QED
  BY <1>1, <1>2, <1>3, <1>4, <1>5, <1>6, <1>7, <1>8, <1>9, <1>10, <1>11, <1>12
     DEF Next, Publish, Mark

\* The variables keep their types.
THEOREM TypeCorrect == Spec => []TypeOK
<1>1. Init => TypeOK
  BY DispatchAssumption, NoClaimAssumption DEF Init, TypeOK
<1>2. QED
  BY <1>1, TypeStep, PTL DEF Spec

\* Attempts are counted, distinct and never more than the maximum; outcomes tell
\* of deliveries.
IInv == ClaimsCounted /\ ClaimsDiffer /\ OutcomeHasClaim /\ PublishedWasDelivered

LEMMA IInvStep == TypeOK /\ IInv /\ [Next]_vars => IInv'
<1> USE DispatchAssumption, NoClaimAssumption
<1> SUFFICES ASSUME TypeOK, IInv, [Next]_vars PROVE IInv'
  OBVIOUS
<1> USE DEF TypeOK, rows, run, Claim, IInv, ClaimsCounted, ClaimsDiffer,
      OutcomeHasClaim, PublishedWasDelivered, Delivered, Held
<1>1. ASSUME NEW w \in Workers, DispatchBatch(w) PROVE IInv'
  BY <1>1 DEF DispatchBatch, ClaimMessages, Claimable, Idle
<1>2. ASSUME NEW w \in Workers, NEW m \in Messages, DispatchNow(w, m)
       PROVE IInv'
  BY <1>2 DEF DispatchNow, ClaimMessages, Claimable, Idle
<1>3. ASSUME NEW w \in Workers, NEW c \in holding[w], PublishSucceeds(w, c)
       PROVE IInv'
  BY <1>3 DEF PublishSucceeds, Attempt
<1>4. ASSUME NEW w \in Workers, NEW c \in holding[w], PublishFails(w, c)
       PROVE IInv'
  BY <1>4 DEF PublishFails, Attempt
<1>5. ASSUME NEW w \in Workers, NEW c \in holding[w], PublishUnacknowledged(w, c)
       PROVE IInv'
  BY <1>5 DEF PublishUnacknowledged, Attempt
<1>6. ASSUME NEW w \in Workers, MarkPublished(w) PROVE IInv'
  BY <1>6 DEF MarkPublished, Continue, StillPublishing
<1>7. ASSUME NEW w \in Workers, MarkFailed(w) PROVE IInv'
  BY <1>7 DEF MarkFailed, Continue, StillPublishing
<1>8. ASSUME NEW w \in Workers, LoseState(w) PROVE IInv'
  BY <1>8 DEF LoseState, Drop, StillPublishing
<1>9. ASSUME NEW w \in Workers, Interrupt(w) PROVE IInv'
  BY <1>9 DEF Interrupt, Drop, Idle
<1>10. ASSUME NEW m \in Messages, RecordOutboxMessage(m) PROVE IInv'
  BY <1>10 DEF RecordOutboxMessage
<1>11. CASE Tick
  BY <1>11 DEF Tick, Earlier
<1>12. CASE UNCHANGED vars
  BY <1>12 DEF vars
<1>13. QED
  BY <1>1, <1>2, <1>3, <1>4, <1>5, <1>6, <1>7, <1>8, <1>9, <1>10, <1>11, <1>12
     DEF Next, Publish, Mark

THEOREM IInvAlways == Spec => []IInv
<1>1. Init => IInv
  BY DispatchAssumption, NoClaimAssumption
  DEF Init, IInv, ClaimsCounted, ClaimsDiffer, OutcomeHasClaim, PublishedWasDelivered, Held
<1>2. QED
  BY <1>1, IInvStep, TypeCorrect, PTL DEF Spec
-----------------------------------------------------------------------------
\* What is marked as published reached a subscriber.
THEOREM PublishedMessagesWereDelivered == Spec => []PublishedWasDelivered
<1>1. IInv => PublishedWasDelivered
  BY DEF IInv
<1>. QED
  BY <1>1, IInvAlways, PTL

\* Deliveries and claims stay within the counted attempts, each made once.
THEOREM AttemptsStayCounted == Spec => []AttemptsAreCounted
<1>1. IInv => AttemptsAreCounted
  BY DEF IInv, ClaimsCounted, ClaimsDiffer, AttemptsAreCounted
<1>. QED
  BY <1>1, IInvAlways, PTL

\* Marks require "publishing" and claims select other rows: published is final.
THEOREM PublishedStaysPublished == Spec => PublishedIsFinal
<1>1. TypeOK /\ [Next]_vars =>
        [\A m \in Messages : status[m] = "published" => status'[m] = "published"]_vars
  <2> SUFFICES ASSUME TypeOK, Next, NEW m \in Messages, status[m] = "published"
               PROVE  status'[m] = "published"
    OBVIOUS
  <2>. QED
    BY DEF Next, Publish, Mark, DispatchBatch, DispatchNow, ClaimMessages,
           Claimable, PublishSucceeds, PublishFails, PublishUnacknowledged,
           Attempt, MarkPublished, MarkFailed, LoseState, Interrupt, Tick, rows,
           RecordOutboxMessage, StillPublishing, TypeOK
<1>. QED
  BY <1>1, TypeCorrect, PTL DEF PublishedIsFinal, Spec

\* While batches end in time, the claims in hand are in force.
LEMMA ClaimsStayInForce == Spec => []ClaimsInForce
<1> USE DispatchAssumption, NoClaimAssumption
<1>1. Init => ClaimsInForce
  BY DEF Init, ClaimsInForce, Held
<1>2. TypeOK /\ IInv /\ ClaimsInForce /\ [Next]_vars => ClaimsInForce'
  <2> SUFFICES ASSUME TypeOK, IInv, ClaimsInForce, [Next]_vars, timely'
               PROVE  ClaimsInForce'
    BY DEF ClaimsInForce
  <2> USE DEF TypeOK, rows, run, Claim, ClaimsInForce, ClaimInForce, Held
  <2>1. ASSUME NEW w \in Workers, DispatchBatch(w) PROVE ClaimsInForce'
    BY <2>1 DEF DispatchBatch, ClaimMessages, Claimable, Idle
  <2>2. ASSUME NEW w \in Workers, NEW m \in Messages, DispatchNow(w, m)
         PROVE ClaimsInForce'
    BY <2>2 DEF DispatchNow, ClaimMessages, Claimable, Idle
  <2>3. ASSUME NEW w \in Workers, NEW c \in holding[w], PublishSucceeds(w, c)
         PROVE ClaimsInForce'
    BY <2>3 DEF PublishSucceeds, Attempt
  <2>4. ASSUME NEW w \in Workers, NEW c \in holding[w], PublishFails(w, c)
         PROVE ClaimsInForce'
    BY <2>4 DEF PublishFails, Attempt
  <2>5. ASSUME NEW w \in Workers, NEW c \in holding[w], PublishUnacknowledged(w, c)
         PROVE ClaimsInForce'
    BY <2>5 DEF PublishUnacknowledged, Attempt
  <2>6. ASSUME NEW w \in Workers, MarkPublished(w) PROVE ClaimsInForce'
    BY <2>6 DEF MarkPublished, Continue, StillPublishing, IInv, ClaimsDiffer, OutcomeHasClaim
  <2>7. ASSUME NEW w \in Workers, MarkFailed(w) PROVE ClaimsInForce'
    BY <2>7 DEF MarkFailed, Continue, StillPublishing, IInv, ClaimsDiffer, OutcomeHasClaim
  <2>8. ASSUME NEW w \in Workers, LoseState(w) PROVE ClaimsInForce'
    BY <2>8 DEF LoseState, Drop, StillPublishing
  <2>9. ASSUME NEW w \in Workers, Interrupt(w) PROVE ClaimsInForce'
    BY <2>9 DEF Interrupt, Drop, Idle
  <2>10. ASSUME NEW m \in Messages, RecordOutboxMessage(m) PROVE ClaimsInForce'
    BY <2>10 DEF RecordOutboxMessage
  <2>11. CASE Tick
    <3>1. timely /\ \A w \in Workers : ~Idle(w) => lease[w] > 1
      BY <2>11 DEF Tick
    <3>2. ASSUME NEW w \in Workers, NEW c \in Held(w) PROVE ClaimInForce(w, c)'
      <4>1. lease[w] > 1
        BY <3>1, <3>2 DEF Idle
      <4>2. ClaimInForce(w, c) /\ c.message \in Messages
        BY <3>1, <3>2
      <4> QED BY <2>11, <4>1, <4>2 DEF Tick, Earlier
    <3> QED BY <2>11, <3>2 DEF Tick
  <2>12. CASE UNCHANGED vars
    BY <2>12 DEF vars
  <2>13. QED
    BY <2>1, <2>2, <2>3, <2>4, <2>5, <2>6, <2>7, <2>8, <2>9, <2>10, <2>11, <2>12
       DEF Next, Publish, Mark
<1>3. QED
  BY <1>1, <1>2, TypeCorrect, IInvAlways, PTL DEF Spec

\* While batches end in time, a message is in the hands of one worker at most.
THEOREM OneHolderAtATime == Spec => []OneHolderWhileTimely
<1>1. TypeOK /\ IInv /\ ClaimsInForce => OneHolderWhileTimely
  BY DEF TypeOK, IInv, ClaimsDiffer, ClaimsInForce, ClaimInForce, Claim, Held,
         Holds, OneHolderWhileTimely
<1>. QED
  BY <1>1, TypeCorrect, IInvAlways, ClaimsStayInForce, PTL

-----------------------------------------------------------------------------
(* The process.                                                            *)

\* What is closed in a process that stops is at rest.
RecoveryAtRest(w) == phase[w] = "stopping" /\ "recovery" \in closed[w] => Idle(w)
QueueAtRest(w) ==
  phase[w] = "stopping" /\ "queue" \in closed[w] => \A s \in SlotsOf(w) : Free(s)
DatabaseAtRest(w) ==
  phase[w] = "stopping" /\ "database" \in closed[w] =>
    /\ {"recovery", "queue"} \subseteq closed[w]
    /\ \A s \in SlotsOf(w), e \in Effects : <<s, e>> \notin late

ProcessTypeOK ==
  /\ phase \in [Workers -> Phases]
  /\ started \in [Workers -> SUBSET Startable]
  /\ closed \in [Workers -> SUBSET Closable]

\* Nothing is closed in a process that is not stopping.
ClosedWhenStopping ==
  \A w \in Workers : phase[w] \notin {"down", "stopping"} => closed[w] = {}

ProcessInv ==
  /\ ProcessTypeOK
  /\ ClosedWhenStopping
  /\ \A w \in Workers : RecoveryAtRest(w) /\ QueueAtRest(w) /\ DatabaseAtRest(w)

WorkerInv == TypeOK /\ IInv /\ QueueInv /\ ProcessInv
-----------------------------------------------------------------------------
LEMMA OutboxInit == Init => TypeOK /\ IInv
BY DispatchAssumption, NoClaimAssumption
DEF Init, TypeOK, IInv, ClaimsCounted, ClaimsDiffer, OutcomeHasClaim,
    PublishedWasDelivered, Held

\* Each step of the worker is one of the outbox or leaves it alone; a crash of a
\* worker with no batch loses nothing.
LEMMA OutboxStep == TypeOK /\ IInv /\ [WorkerNext]_workerVars => [Next]_vars
<1> SUFFICES ASSUME TypeOK, IInv, [WorkerNext]_workerVars, ~UNCHANGED vars
             PROVE  Next
  OBVIOUS
<1>1. ASSUME NEW w \in Workers, Crash(w) PROVE Next
  <2>1. CASE Idle(w)
    <3>1. holding' = holding /\ current' = current
      BY <1>1, <2>1 DEF Crash, Drop, Idle, TypeOK
    <3>2. outcome[w] = "none"
      BY <2>1 DEF IInv, OutcomeHasClaim, Idle
    <3>3. outcome' = outcome
      BY <1>1, <3>2 DEF Crash, Drop, TypeOK
    <3> QED
      BY <1>1, <3>1, <3>3 DEF Crash, vars, run
  <2>2. CASE ~Idle(w)
    BY <1>1, <2>2 DEF Crash, Interrupt, Next
  <2> QED
    BY <2>1, <2>2
<1>2. ASSUME NEW w \in Workers, Dispatch(w) \/ Progress(w) \/ MarkBreaks(w) PROVE Next
  BY <1>2 DEF Dispatch, Progress, PublishFrom, Publish, MarkBreaks, Next
<1>3. ASSUME NEW m \in Messages, RecordMessage(m) PROVE Next
  BY <1>3 DEF RecordMessage, Next
<1>4. CASE TimePasses
  BY <1>4 DEF TimePasses, Next
<1>5. ASSUME NEW w \in Workers, Start(w) \/ BeginClose(w) \/ Stop(w) PROVE FALSE
  BY <1>5 DEF Start, Launch, DatabaseChecked, StartDependency, Listening, BeginClose,
      Stop, CloseRecovery, CloseQueue, CloseDatabase, Close, Exit
<1>6. ASSUME NEW w \in Workers, NEW s \in Slots, RunJob(w, s) PROVE FALSE
  BY <1>6 DEF RunJob
<1>7. CASE Environment
  BY <1>7 DEF Environment
<1>8. CASE UNCHANGED workerVars
  BY <1>8 DEF workerVars
<1> QED
  BY <1>1, <1>2, <1>3, <1>4, <1>5, <1>6, <1>7, <1>8 DEF WorkerNext

\* Each step of the worker is one of the queue or leaves it alone.
LEMMA QueueStep == [WorkerNext]_workerVars => [QueueNext]_queueVars
<1> SUFFICES ASSUME [WorkerNext]_workerVars, ~UNCHANGED queueVars
             PROVE  QueueNext
  OBVIOUS
<1>1. ASSUME NEW w \in Workers, Stop(w) PROVE QueueNext
  BY <1>1, ProcessAssumption
  DEF Stop, CloseRecovery, CloseQueue, CloseDatabase, Close, Exit, QueueNext
<1>2. ASSUME NEW w \in Workers, Crash(w) PROVE QueueNext
  BY <1>2, ProcessAssumption DEF Crash, QueueNext
<1>3. ASSUME NEW w \in Workers, NEW s \in Slots, RunJob(w, s) PROVE QueueNext
  BY <1>3 DEF RunJob, QueueNext
<1>4. CASE Environment
  BY <1>4 DEF Environment, QueueNext
<1>5. ASSUME NEW w \in Workers, Start(w) \/ BeginClose(w) PROVE FALSE
  BY <1>5 DEF Start, Launch, DatabaseChecked, StartDependency, Listening, BeginClose
<1>6. ASSUME NEW w \in Workers, Dispatch(w) \/ Progress(w) \/ MarkBreaks(w) PROVE FALSE
  BY <1>6 DEF Dispatch, Progress, MarkBreaks, Outside
<1>7. ASSUME NEW m \in Messages, RecordMessage(m) PROVE FALSE
  BY <1>7 DEF RecordMessage, Outside
<1>8. CASE TimePasses
  BY <1>8 DEF TimePasses, Outside
<1>9. CASE UNCHANGED workerVars
  BY <1>9 DEF workerVars
<1> QED
  BY <1>1, <1>2, <1>3, <1>4, <1>5, <1>6, <1>7, <1>8, <1>9 DEF WorkerNext
-----------------------------------------------------------------------------
\* Steps that leave the process alone keep what is at rest at rest.
LEMMA RestIsKept ==
  ASSUME ProcessInv, UNCHANGED processVars,
         \A w \in Workers : phase[w] = "stopping" /\ Idle(w) => Idle(w)',
         \A s \in Slots : phase[HomeOf[s]] = "stopping" /\ Free(s) =>
           Free(s)' /\ \A e \in Effects : <<s, e>> \in late' => <<s, e>> \in late
  PROVE  ProcessInv'
<1>1. ProcessTypeOK' /\ ClosedWhenStopping'
  BY DEF ProcessInv, ProcessTypeOK, ClosedWhenStopping, processVars
<1>2. ASSUME NEW w \in Workers PROVE RecoveryAtRest(w)'
  BY DEF ProcessInv, RecoveryAtRest, processVars
<1>3. ASSUME NEW w \in Workers PROVE QueueAtRest(w)'
  BY DEF ProcessInv, QueueAtRest, SlotsOf, processVars
<1>4. ASSUME NEW w \in Workers PROVE DatabaseAtRest(w)'
  BY DEF ProcessInv, QueueAtRest, DatabaseAtRest, SlotsOf, processVars
<1> QED
  BY <1>1, <1>2, <1>3, <1>4 DEF ProcessInv

\* Only a batch under way is gone on with, and a batch is claimed only by a
\* process that is not stopping.
LEMMA OutboxRests ==
  ASSUME TypeOK, IInv, ProcessInv, NEW w \in Workers,
         Dispatch(w) \/ Progress(w) \/ MarkBreaks(w)
  PROVE  ProcessInv'
<1>1. UNCHANGED <<processVars, queueVars>>
  BY DEF Dispatch, Progress, MarkBreaks, Outside
<1>2. \A v \in Workers \ {w} : holding'[v] = holding[v] /\ current'[v] = current[v]
  <2>1. CASE Dispatch(w)
    BY <2>1 DEF Dispatch, DispatchBatch, ClaimMessages, TypeOK
  <2>2. CASE \E c \in holding[w] :
               PublishSucceeds(w, c) \/ PublishFails(w, c) \/ PublishUnacknowledged(w, c)
    BY <2>2 DEF PublishSucceeds, PublishFails, PublishUnacknowledged, Attempt, TypeOK
  <2>3. CASE Mark(w)
    BY <2>3 DEF Mark, MarkPublished, MarkFailed, LoseState, Continue, Drop, TypeOK
  <2>4. CASE MarkBreaks(w)
    BY <2>4 DEF MarkBreaks, Interrupt, Drop, TypeOK
  <2> QED
    BY <2>1, <2>2, <2>3, <2>4 DEF Progress, PublishFrom, Publish
<1>3. ~(phase[w] = "stopping" /\ Idle(w))
  <2>1. CASE Dispatch(w)
    BY <2>1 DEF Dispatch, Recovers
  <2>2. CASE holding[w] # {}
    BY <2>2 DEF Idle
  <2>3. CASE Mark(w)
    BY <2>3 DEF Mark, MarkPublished, MarkFailed, LoseState, Idle, IInv, OutcomeHasClaim
  <2>4. CASE MarkBreaks(w)
    BY <2>4 DEF MarkBreaks, Interrupt
  <2> QED
    BY <2>1, <2>2, <2>3, <2>4 DEF Progress, PublishFrom, Publish
<1> QED
  BY <1>1, <1>2, <1>3, RestIsKept DEF Idle, Free, queueVars

\* Likewise a slot with its run.
LEMMA QueueRests ==
  ASSUME QueueInv, ProcessInv, NEW w \in Workers, NEW s \in Slots, RunJob(w, s)
  PROVE  ProcessInv'
<1>1. QueueTypeOK /\ UNCHANGED <<vars, processVars>>
  BY DEF QueueInv, RunJob
<1>2. \A x \in Slots \ {s} :
        slot'[x] = slot[x] /\ \A e \in Effects : <<x, e>> \in late' => <<x, e>> \in late
  <2>1. CASE \E e \in Effects : Fetch(s, e)
    BY <1>1, <2>1 DEF Fetch, QueueTypeOK
  <2>2. CASE RunStep(s)
    <3>1. ~Free(s)
      BY <2>2 DEF RunStep, Insert, InsertFails, Timeout, Free
    <3>. late' \in {late, late \cup {<<s, slot[s].effect>>}}
      BY <2>2 DEF RunStep, Insert, InsertFails, Timeout
    <3>2. PICK step \in Steps, fault \in BOOLEAN : RunGoesTo(s, step, fault)
      BY <2>2 DEF RunStep, Insert, InsertFails, Timeout, Steps
    <3> QED
      BY <1>1, <3>1, <3>2, RunGoesToTyped
  <2>3. CASE RunEnds(s)
    BY <1>1, <2>3 DEF RunEnds, Complete, Fail, EndWithoutLock, QueueTypeOK
  <2> QED
    BY <2>1, <2>2, <2>3 DEF RunJob
<1>3. ~(phase[HomeOf[s]] = "stopping" /\ Free(s))
  <2>1. CASE Consumes(w)
    BY <2>1 DEF RunJob, SlotsOf, Consumes
  <2>2. CASE RunStep(s) \/ RunEnds(s)
    BY <2>2 DEF RunStep, Insert, InsertFails, Timeout, RunEnds, Complete, Fail,
        EndWithoutLock, Free
  <2> QED
    BY <2>1, <2>2 DEF RunJob
<1> QED
  BY <1>1, <1>2, <1>3, RestIsKept DEF Idle, Free, vars, run

LEMMA EnvironmentRests ==
  ASSUME ProcessInv, Environment
  PROVE  ProcessInv'
<1>1. slot' = slot /\ late' \subseteq late
  BY DEF Environment, QueueEnvironment, Enqueue, Stall, BackoffOver, RemoveFinished, LateInsert
<1> QED
  BY <1>1, RestIsKept DEF Environment, Idle, Free, vars, run

LEMMA StartRests ==
  ASSUME ProcessInv, NEW w \in Workers, Start(w)
  PROVE  ProcessInv'
<1> USE DEF ProcessInv, ProcessTypeOK, ClosedWhenStopping
<1>1. /\ UNCHANGED <<vars, queueVars>>
      /\ phase' \in [Workers -> Phases] /\ closed' \in [Workers -> SUBSET Closable]
      /\ started' \in [Workers -> SUBSET Startable]
      /\ phase'[w] \notin {"down", "stopping"} /\ closed'[w] = {}
      /\ \A v \in Workers \ {w} : phase'[v] = phase[v] /\ closed'[v] = closed[v]
  BY DEF Start, Launch, DatabaseChecked, Listening, StartDependency, Phases
<1> QED
  BY <1>1 DEF RecoveryAtRest, QueueAtRest, DatabaseAtRest, SlotsOf, Idle, Free,
      vars, run, queueVars

\* A stop begins with nothing closed.
LEMMA BeginCloseRests ==
  ASSUME ProcessInv, NEW w \in Workers, BeginClose(w)
  PROVE  ProcessInv'
<1> USE DEF ProcessInv, ProcessTypeOK, ClosedWhenStopping
<1>1. /\ UNCHANGED <<vars, queueVars, started, closed>>
      /\ phase' \in [Workers -> Phases] /\ phase'[w] = "stopping" /\ closed[w] = {}
      /\ \A v \in Workers \ {w} : phase'[v] = phase[v]
  BY DEF BeginClose, Phases
<1> QED
  BY <1>1 DEF RecoveryAtRest, QueueAtRest, DatabaseAtRest, SlotsOf, Idle, Free,
      vars, run, queueVars

\* Each dependency is closed when its work is over, the database after the two
\* others.
LEMMA CloseRests ==
  ASSUME ProcessInv, NEW w \in Workers, CloseRecovery(w) \/ CloseQueue(w) \/ CloseDatabase(w)
  PROVE  ProcessInv'
<1> USE DEF ProcessInv, ProcessTypeOK, ClosedWhenStopping
<1>1. PICK r \in Closable : Close(w, r)
  BY DEF CloseRecovery, CloseQueue, CloseDatabase, Closable
<1>2. /\ UNCHANGED <<vars, queueVars, phase, started>>
      /\ closed' \in [Workers -> SUBSET Closable]
      /\ phase[w] = "stopping" /\ closed'[w] = closed[w] \cup {r}
      /\ \A v \in Workers \ {w} : closed'[v] = closed[v]
  BY <1>1 DEF Close
<1>3. /\ r = "recovery" => Idle(w)
      /\ r = "queue" => \A s \in SlotsOf(w) : Free(s)
      /\ r = "database" => /\ {"recovery", "queue"} \subseteq closed[w]
                           /\ \A s \in SlotsOf(w), e \in Effects : <<s, e>> \notin late
  BY <1>1 DEF CloseRecovery, CloseQueue, CloseDatabase, Close
<1>4. ProcessTypeOK' /\ ClosedWhenStopping'
  BY <1>2
<1>5. RecoveryAtRest(w)' /\ QueueAtRest(w)' /\ DatabaseAtRest(w)'
  BY <1>2, <1>3 DEF RecoveryAtRest, QueueAtRest, DatabaseAtRest, SlotsOf, Idle, Free,
      vars, run, queueVars
<1>6. \A v \in Workers \ {w} : RecoveryAtRest(v)' /\ QueueAtRest(v)' /\ DatabaseAtRest(v)'
  BY <1>2 DEF RecoveryAtRest, QueueAtRest, DatabaseAtRest, SlotsOf, Idle, Free,
      vars, run, queueVars
<1> QED
  BY <1>4, <1>5, <1>6

\* The runs and the batch of a process that is gone are gone; the others' go on.
LEMMA EndRests ==
  ASSUME TypeOK, QueueTypeOK, ProcessInv, NEW w \in Workers, Exit(w) \/ Crash(w)
  PROVE  ProcessInv'
<1> USE DEF ProcessInv, ProcessTypeOK, ClosedWhenStopping
<1>1. /\ UNCHANGED <<late, started, closed>>
      /\ phase' \in [Workers -> Phases] /\ phase'[w] = "down"
      /\ \A v \in Workers \ {w} :
           phase'[v] = phase[v] /\ holding'[v] = holding[v] /\ current'[v] = current[v]
  BY DEF Exit, Crash, LoseProcess, Drop, Phases, vars, run, TypeOK
<1>2. \A s \in Slots : slot'[s] \in {slot[s], NoRun}
  BY DEF Exit, Crash, LoseProcess
<1>3. \A s \in Slots : Free(s) => Free(s)'
  BY <1>2 DEF Free, NoRun
<1> QED
  BY <1>1, <1>3 DEF RecoveryAtRest, QueueAtRest, DatabaseAtRest, SlotsOf, Idle

LEMMA ProcessStep ==
  TypeOK /\ IInv /\ QueueInv /\ ProcessInv /\ [WorkerNext]_workerVars => ProcessInv'
<1> SUFFICES ASSUME TypeOK, IInv, QueueInv, ProcessInv, [WorkerNext]_workerVars
             PROVE  ProcessInv'
  OBVIOUS
<1>1. ASSUME NEW w \in Workers,
             Start(w) \/ BeginClose(w) \/ Stop(w) \/ Crash(w)
               \/ Dispatch(w) \/ Progress(w) \/ MarkBreaks(w)
      PROVE  ProcessInv'
  BY <1>1, StartRests, BeginCloseRests, CloseRests, EndRests, OutboxRests DEF Stop, QueueInv
<1>2. ASSUME NEW w \in Workers, NEW s \in Slots, RunJob(w, s) PROVE ProcessInv'
  BY <1>2, QueueRests
<1>3. CASE TimePasses \/ \E m \in Messages : RecordMessage(m)
  <2>1. UNCHANGED <<run, queueVars, processVars>>
    BY <1>3 DEF TimePasses, Tick, RecordMessage, RecordOutboxMessage, Outside
  <2> QED
    BY <2>1, RestIsKept DEF Idle, Free, run, queueVars
<1>4. CASE Environment
  BY <1>4, EnvironmentRests
<1>5. CASE UNCHANGED workerVars
  BY <1>5, RestIsKept DEF workerVars, Idle, Free, vars, run, queueVars
<1> QED
  BY <1>1, <1>2, <1>3, <1>4, <1>5 DEF WorkerNext
-----------------------------------------------------------------------------
\* The worker process keeps the outbox's specification: a message is claimed,
\* published and marked as if nothing started, stopped or crashed around it.
THEOREM WorkerImplementsOutbox == WorkerSpec => Spec
<1>1. WorkerInit => Init /\ TypeOK /\ IInv
  BY OutboxInit DEF WorkerInit
<1>2. TypeOK /\ IInv /\ [WorkerNext]_workerVars => [Next]_vars /\ TypeOK' /\ IInv'
  BY OutboxStep, TypeStep, IInvStep
<1> QED
  BY <1>1, <1>2, PTL DEF WorkerSpec, Spec

\* And the queue's.
THEOREM WorkerImplementsQueue == WorkerSpec => QueueSpec
<1>1. WorkerInit => QueueInit
  BY DEF WorkerInit
<1> QED
  BY <1>1, QueueStep, PTL DEF WorkerSpec, QueueSpec

\* So what is marked or completed happened, alarms are true, and no message is
\* in two workers' hands while batches end in time, in the worker as well.
THEOREM WorkerKeepsPromises ==
  WorkerSpec => [](PublishedWasDelivered /\ OneHolderWhileTimely
                     /\ CompletedTookEffect /\ AlarmsAreTrue)
BY WorkerImplementsOutbox, WorkerImplementsQueue, PublishedMessagesWereDelivered,
   OneHolderAtATime, CompletionImpliesEffect, AlarmsHold, PTL

\* The pool is closed after the batch, the runs and the INSERTs left behind.
THEOREM DatabaseOutlivesAll == WorkerSpec => []DatabaseOutlivesItsUsers
<1>1. WorkerInit => WorkerInv
  <2>1. WorkerInit => ProcessInv
    BY DEF WorkerInit, ProcessInv, ProcessTypeOK, ClosedWhenStopping, Phases,
        RecoveryAtRest, QueueAtRest, DatabaseAtRest
  <2> QED
    BY <2>1, OutboxInit, QueueInitInv DEF WorkerInit, WorkerInv
<1>2. WorkerInv /\ [WorkerNext]_workerVars => WorkerInv'
  BY OutboxStep, TypeStep, IInvStep, QueueStep, QueueNextInv, ProcessStep DEF WorkerInv
<1>3. WorkerInv => DatabaseOutlivesItsUsers
  BY DEF WorkerInv, ProcessInv, RecoveryAtRest, QueueAtRest, DatabaseAtRest,
      DatabaseOutlivesItsUsers
<1> QED
  BY <1>1, <1>2, <1>3, PTL DEF WorkerSpec
=============================================================================
