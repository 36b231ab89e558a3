---------------------------- MODULE WorkerProcess ----------------------------
(***************************************************************************)
(* The worker process: startWorker (apps/worker/src/main.ts) starts and    *)
(* closes the dependencies (dependencies.ts, runtime.ts) that run the      *)
(* outbox recovery (OutboxDispatch) and the technical queue                *)
(* (TechnicalQueue) over one database pool.                                *)
(*                                                                         *)
(* storage.close() destroys its client and publisher.close() sends QUIT at *)
(* once, so both are closed as soon as a process is stopping.  The probe   *)
(* server and telemetry are not represented.  SHUTDOWN_TIMEOUT_MS only     *)
(* sets the exit code: the operations it gives up waiting for go on.       *)
(***************************************************************************)
EXTENDS OutboxDispatch, TechnicalQueue

CONSTANT MaxInterruptions   \* signals, failed starts and crashes together

ASSUME ProcessAssumption ==
  /\ Consumers = Workers
  /\ MaxInterruptions \in Nat

VARIABLES
  deployed,       \* the processes that are launched again whenever they end
  phase,          \* how far the process is
  started,        \* the dependencies whose start() is over
  closed,         \* the dependencies whose close() is over
  interruptions

processVars == <<phase, started, closed, interruptions>>
workerVars == <<vars, queueVars, processVars, deployed>>

Phases == {"down", "checking", "starting", "binding", "up", "stopping"}
Startable == {"queue", "publisher", "storage"}
Closable == {"recovery", "queue", "database"}

WorkerInit ==
  /\ Init
  /\ QueueInit
  /\ deployed \in SUBSET Workers
  /\ phase = [w \in Workers |-> "down"]
  /\ started = [w \in Workers |-> {}]
  /\ closed = [w \in Workers |-> {}]
  /\ interruptions = 0

SlotsOf(w) == {s \in Slots : HomeOf[s] = w}

\* The recovery loop schedules batches: after start() and before close().
Recovers(w) == phase[w] \in {"binding", "up"}

\* The BullMQ worker fetches: after run() and before close().
Consumes(w) == "queue" \in started[w] /\ phase[w] \in {"starting", "binding", "up"}

Interrupted == /\ interruptions < MaxInterruptions
               /\ interruptions' = interruptions + 1
-----------------------------------------------------------------------------
\* A new process; dependencies.start() begins with checkDatabaseConnection.
Launch(w) ==
  /\ w \in deployed
  /\ phase[w] = "down"
  /\ phase' = [phase EXCEPT ![w] = "checking"]
  /\ started' = [started EXCEPT ![w] = {}]
  /\ closed' = [closed EXCEPT ![w] = {}]
  /\ UNCHANGED <<vars, queueVars, interruptions, deployed>>

DatabaseChecked(w) ==
  /\ phase[w] = "checking"
  /\ phase' = [phase EXCEPT ![w] = "starting"]
  /\ UNCHANGED <<vars, queueVars, started, closed, interruptions, deployed>>

\* queue, publisher and storage start at the same time; the last one is
\* followed by outboxRecovery.start() and the server's listen().
StartDependency(w, r) ==
  /\ phase[w] = "starting"
  /\ r \in Startable \ started[w]
  /\ started' = [started EXCEPT ![w] = @ \cup {r}]
  /\ phase' = IF started'[w] = Startable THEN [phase EXCEPT ![w] = "binding"] ELSE phase
  /\ UNCHANGED <<vars, queueVars, closed, interruptions, deployed>>

\* The signal handlers are registered once listen() is over.
Listening(w) ==
  /\ phase[w] = "binding"
  /\ phase' = [phase EXCEPT ![w] = "up"]
  /\ UNCHANGED <<vars, queueVars, started, closed, interruptions, deployed>>

\* runtime.close(): by the first signal, or by startWorker when a dependency
\* or the server fails to start.
BeginClose(w) ==
  /\ phase[w] \in {"checking", "starting", "binding", "up"}
  /\ Interrupted
  /\ phase' = [phase EXCEPT ![w] = "stopping"]
  /\ UNCHANGED <<vars, queueVars, started, closed, deployed>>

Close(w, r) ==
  /\ phase[w] = "stopping"
  /\ r \notin closed[w]
  /\ closed' = [closed EXCEPT ![w] = @ \cup {r}]
  /\ UNCHANGED <<vars, queueVars, phase, started, interruptions, deployed>>

\* Mutant: the active run is not awaited.
CloseRecoveryAtOnce(w) == Close(w, "recovery")
\* recovery.close() awaits the active run.
CloseRecovery(w) == Close(w, "recovery") /\ Idle(w)

\* Mutant: the queue's close() awaits its start().
CloseStartedQueue(w) ==
  "queue" \in started[w] /\ Close(w, "queue") /\ \A s \in SlotsOf(w) : Free(s)
\* worker.close() awaits the runs under way.
CloseQueue(w) == Close(w, "queue") /\ \A s \in SlotsOf(w) : Free(s)

\* pool.end() follows the others and awaits the queries under way.
CloseDatabase(w) ==
  /\ Close(w, "database")
  /\ {"recovery", "queue"} \subseteq closed[w]
  /\ \A s \in SlotsOf(w), e \in Effects : <<s, e>> \notin late

Exit(w) ==
  /\ phase[w] = "stopping"
  /\ "database" \in closed[w]
  /\ phase' = [phase EXCEPT ![w] = "down"]
  /\ LoseProcess(w)
  /\ UNCHANGED <<vars, started, closed, interruptions, deployed>>

\* A kill, a signal before the handlers are registered, a second signal.
Crash(w) ==
  /\ phase[w] # "down"
  /\ Interrupted
  /\ phase' = [phase EXCEPT ![w] = "down"]
  /\ LoseProcess(w)
  /\ Drop(w)
  /\ UNCHANGED <<rows, lease, delivered, timely, started, closed, deployed>>

Start(w) == Launch(w) \/ DatabaseChecked(w) \/ Listening(w)
              \/ \E r \in Startable : StartDependency(w, r)
Stop(w) == CloseRecovery(w) \/ CloseQueue(w) \/ CloseDatabase(w) \/ Exit(w)
-----------------------------------------------------------------------------
Outside == UNCHANGED <<queueVars, processVars, deployed>>

\* A closed publisher refuses every message.
PublishFrom(w) ==
  IF phase[w] = "stopping" THEN \E c \in holding[w] : PublishFails(w, c) ELSE Publish(w)

Dispatch(w) == Recovers(w) /\ DispatchBatch(w) /\ Outside
Progress(w) == (PublishFrom(w) \/ Mark(w)) /\ Outside
MarkBreaks(w) == Interrupt(w) /\ Outside

RunJob(w, s) ==
  /\ s \in SlotsOf(w)
  /\ \/ Consumes(w) /\ \E e \in Effects : Fetch(s, e)
     \/ RunStep(s)
     \/ RunEnds(s)
  /\ UNCHANGED <<vars, processVars, deployed>>

RecordMessage(m) == RecordOutboxMessage(m) /\ Outside
TimePasses == Tick /\ Outside
Environment == QueueEnvironment /\ UNCHANGED <<vars, processVars, deployed>>

WorkerNext ==
  \/ \E w \in Workers :
       \/ Start(w) \/ BeginClose(w) \/ Stop(w) \/ Crash(w)
       \/ Dispatch(w) \/ Progress(w) \/ MarkBreaks(w)
       \/ \E s \in Slots : RunJob(w, s)
  \/ \E m \in Messages : RecordMessage(m)
  \/ TimePasses
  \/ Environment

WorkerSpec == WorkerInit /\ [][WorkerNext]_workerVars

\* What BullMQ does by itself for a job: it ends the backoff, frees a job whose
\* run is gone, and hands it to a free slot.  The database answers the INSERTs.
AbandonedStall(e) == Stall(e) /\ \A s \in lock[e] : slot[s].effect # e
Served(e) ==
  /\ \/ BackoffOver(e)
     \/ AbandonedStall(e)
     \/ \E s \in Slots : LateInsert(s, e) \/ (Consumes(HomeOf[s]) /\ Fetch(s, e))
  /\ UNCHANGED <<vars, processVars, deployed>>
RunGoesOn(s) == (RunStep(s) \/ RunEnds(s)) /\ UNCHANGED <<vars, processVars, deployed>>

WorkerFairness ==
  /\ \A w \in Workers : /\ WF_workerVars(Start(w) \/ Stop(w))
                        /\ WF_workerVars(Dispatch(w) \/ Progress(w))
  /\ WF_workerVars(TimePasses)
  /\ \A e \in Effects : WF_workerVars(Served(e))
  /\ \A s \in Slots : WF_workerVars(RunGoesOn(s))
-----------------------------------------------------------------------------
\* The pool is closed last: no batch of the outbox, no run of a job and no
\* INSERT that a timed out run left behind meets a closed database.
DatabaseOutlivesItsUsers ==
  \A w \in Workers : phase[w] = "stopping" /\ "database" \in closed[w] =>
    /\ Idle(w)
    /\ \A s \in SlotsOf(w) : Free(s) /\ \A e \in Effects : <<s, e>> \notin late

\* A process told to stop ends, with a batch or jobs under way or half started,
\* whatever Redis and the database refuse meanwhile: as processes are told a
\* bounded number of times, from some time on none is stopping.
GracefulStopEnds == <>[](\A w \in Workers : phase[w] # "stopping")
=============================================================================
