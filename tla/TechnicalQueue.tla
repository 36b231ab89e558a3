---------------------------- MODULE TechnicalQueue ----------------------------
(***************************************************************************)
(* The technical BullMQ queue of the worker: createTechnicalQueue          *)
(* (apps/worker/src/queue/technical-queue.ts) with the fixture processor   *)
(* (processor.ts) and its effect (queue-fixture-effects.ts).               *)
(*                                                                         *)
(* A slot is one of a worker's `concurrency` concurrent runs.  A job's id  *)
(* is its effect's.  BullMQ keeps the jobs in Redis: it hands a waiting    *)
(* job to a slot with a lock, takes the lock away from a slot that stalls, *)
(* and accepts an outcome only from the holder of the lock.  Which of      *)
(* several waiting jobs comes first is not represented.                    *)
(***************************************************************************)
EXTENDS Naturals, FiniteSets

CONSTANTS
  Consumers,        \* the processes that run a BullMQ Worker
  Slots,
  HomeOf,           \* the process of a slot
  Effects,          \* effect ids
  JobAttempts,      \* policy.attempts
  MaximumStalls,    \* BullMQ's maxStalledCount
  NoEffect

ASSUME QueueAssumption ==
  /\ HomeOf \in [Slots -> Consumers]
  /\ JobAttempts \in Nat \ {0}
  /\ MaximumStalls \in Nat
  /\ NoEffect \notin Effects

VARIABLES
  job,            \* the job in Redis
  lock,           \* the slots whose token locks the job: one or none
  slot,           \* the run of each slot
  late,           \* INSERTs still on their way when their run timed out
  effects,        \* rows of app.queue_fixture_effects
  exhaustedJobs,  \* the set of that name in each process
  alarms          \* history: jobs reported as exhausted, until they are removed

queueVars == <<job, lock, slot, late, effects, exhaustedJobs, alarms>>

\* technicalFixtureJobDataSchema; "invalid" stands for any data it refuses.
Modes == {"succeed", "fail-after-effect-once", "always-fail", "timeout", "invalid"}
Job == [state: {"absent", "waiting", "delayed", "active", "completed", "failed"},
        mode: Modes, made: Nat, started: Nat, stalls: Nat, faults: Nat]
NoJob == [state |-> "absent", mode |-> "succeed",
          made |-> 0, started |-> 0, stalls |-> 0, faults |-> 0]
Steps == {"applying", "hanging", "completing", "failing", "giving_up"}
Run == [step: Steps, effect: Effects, fault: BOOLEAN]
NoRun == [step |-> "none", effect |-> NoEffect, fault |-> FALSE]

QueueInit ==
  /\ job = [e \in Effects |-> NoJob]
  /\ lock = [e \in Effects |-> {}]
  /\ slot = [s \in Slots |-> NoRun]
  /\ late = {}
  /\ effects = {}
  /\ exhaustedJobs = [p \in Consumers |-> {}]
  /\ alarms = {}

Free(s) == slot[s].step = "none"
Locks(s) == s \in lock[slot[s].effect]
Finished(e) == job[e].state \in {"completed", "failed"}

\* A run ends with the step given; fault tells a failure of the database or of
\* time from one that the job's mode asks for.
RunGoesTo(s, step, fault) ==
  slot' = [slot EXCEPT ![s].step = step, ![s].fault = fault]
-----------------------------------------------------------------------------
\* queue.add with the effect's job id: nothing happens if the job exists.  An
\* invalid job comes from another producer of the same queue.
Enqueue(e, mode) ==
  /\ job[e].state = "absent"
  /\ job' = [job EXCEPT ![e] = [NoJob EXCEPT !.state = "waiting", !.mode = mode]]
  /\ UNCHANGED <<lock, slot, late, effects, exhaustedJobs, alarms>>

\* Mutant: no start is left for a stalled run.
StartsAllowedForAttempts == JobAttempts
\* maxStartedAttempts
StartsAllowed == JobAttempts + 1

\* What the run of a job started once more does first.
FirstStep(j) ==
  CASE j.stalls > MaximumStalls \/ j.started + 1 > StartsAllowed -> "giving_up"
    [] j.mode = "invalid" -> "giving_up"
    [] j.mode = "always-fail" -> "failing"
    [] j.mode = "timeout" -> "hanging"
    [] OTHER -> "applying"

\* A free slot takes a waiting job and its lock; the processor runs up to its
\* first await.
Fetch(s, e) ==
  /\ Free(s)
  /\ job[e].state = "waiting"
  /\ slot' = [slot EXCEPT ![s] = [step |-> FirstStep(job[e]), effect |-> e, fault |-> FALSE]]
  /\ job' = [job EXCEPT ![e].state = "active", ![e].started = @ + 1]
  /\ lock' = [lock EXCEPT ![e] = {s}]
  /\ UNCHANGED <<late, effects, exhaustedJobs, alarms>>

\* applyQueueFixtureEffect answers: INSERT ... ON CONFLICT DO NOTHING.
Insert(s) ==
  /\ slot[s].step = "applying"
  /\ effects' = effects \cup {slot[s].effect}
  /\ LET j == job[slot[s].effect] IN
     RunGoesTo(s, IF j.mode = "fail-after-effect-once" /\ j.made = 0
                    THEN "failing" ELSE "completing", FALSE)
  /\ UNCHANGED <<job, lock, late, exhaustedJobs, alarms>>

\* The database refuses the INSERT or loses the connection before it.
InsertFails(s) ==
  /\ slot[s].step = "applying"
  /\ RunGoesTo(s, "failing", TRUE)
  /\ UNCHANGED <<job, lock, late, effects, exhaustedJobs, alarms>>

\* Mutant: only the INSERT is timed.
TimeoutOfInsert(s) ==
  /\ slot[s].step = "applying"
  /\ late' = late \cup {<<s, slot[s].effect>>}
  /\ RunGoesTo(s, "failing", TRUE)
  /\ UNCHANGED <<job, lock, effects, exhaustedJobs, alarms>>
\* jobTimeoutMs is over.  An INSERT under way is neither awaited nor cancelled.
Timeout(s) ==
  /\ slot[s].step \in {"applying", "hanging"}
  /\ late' = IF slot[s].step = "applying" THEN late \cup {<<s, slot[s].effect>>} ELSE late
  /\ RunGoesTo(s, "failing", slot[s].step = "applying")
  /\ UNCHANGED <<job, lock, effects, exhaustedJobs, alarms>>

LateInsert(s, e) ==
  /\ <<s, e>> \in late
  /\ late' = late \ {<<s, e>>}
  /\ effects' \in {effects, effects \cup {e}}
  /\ UNCHANGED <<job, lock, slot, exhaustedJobs, alarms>>

\* Mutant: a timed out run counts as done.
CompleteWhateverHappened(s) ==
  /\ slot[s].step \in {"completing", "failing"}
  /\ Locks(s)
  /\ job' = [job EXCEPT ![slot[s].effect].state = "completed", ![slot[s].effect].made = @ + 1]
  /\ lock' = [lock EXCEPT ![slot[s].effect] = {}]
  /\ slot' = [slot EXCEPT ![s] = NoRun]
  /\ UNCHANGED <<late, effects, exhaustedJobs, alarms>>
Complete(s) ==
  /\ slot[s].step = "completing"
  /\ Locks(s)
  /\ job' = [job EXCEPT ![slot[s].effect].state = "completed", ![slot[s].effect].made = @ + 1]
  /\ lock' = [lock EXCEPT ![slot[s].effect] = {}]
  /\ slot' = [slot EXCEPT ![s] = NoRun]
  /\ UNCHANGED <<late, effects, exhaustedJobs, alarms>>

\* The condition of the "failed" handler, and BullMQ's not to retry.
Exhausted(s) ==
  slot[s].step = "giving_up" \/ job[slot[s].effect].made + 1 >= JobAttempts

\* Mutant: a job that may be tried again is reported too.
ReportEvery(s) ==
  LET p == HomeOf[s] e == slot[s].effect IN
  /\ alarms' = IF e \in exhaustedJobs[p] THEN alarms ELSE alarms \cup {e}
  /\ exhaustedJobs' = [exhaustedJobs EXCEPT ![p] = @ \cup {e}]
\* The handler reports a job once, to the process's own memory.
Report(s) ==
  LET p == HomeOf[s] e == slot[s].effect IN
  IF Exhausted(s)
    THEN /\ alarms' = IF e \in exhaustedJobs[p] THEN alarms ELSE alarms \cup {e}
         /\ exhaustedJobs' = [exhaustedJobs EXCEPT ![p] = @ \cup {e}]
    ELSE UNCHANGED <<alarms, exhaustedJobs>>

\* The job waits for its backoff or stays failed; then "failed" is emitted.
Fail(s) ==
  /\ slot[s].step \in {"failing", "giving_up"}
  /\ Locks(s)
  /\ LET e == slot[s].effect IN
     /\ job' = [job EXCEPT ![e].state = IF Exhausted(s) THEN "failed" ELSE "delayed",
                           ![e].made = @ + 1,
                           ![e].faults = IF slot[s].fault THEN @ + 1 ELSE @]
     /\ lock' = [lock EXCEPT ![e] = {}]
  /\ slot' = [slot EXCEPT ![s] = NoRun]
  /\ Report(s)
  /\ UNCHANGED <<late, effects>>

\* "Missing lock": the outcome of a run that lost its lock changes nothing.
EndWithoutLock(s) ==
  /\ slot[s].step \in {"completing", "failing", "giving_up"}
  /\ ~Locks(s)
  /\ slot' = [slot EXCEPT ![s] = NoRun]
  /\ UNCHANGED <<job, lock, late, effects, exhaustedJobs, alarms>>

\* A lock that is not renewed in time makes the job wait again.  The run may
\* still go on, or its process is gone.  Bound: a living run does not stall a
\* job that is already given up.
Stall(e) ==
  /\ job[e].state = "active"
  /\ (\E s \in lock[e] : slot[s].effect = e) => job[e].stalls <= MaximumStalls
  /\ job' = [job EXCEPT ![e].state = "waiting", ![e].stalls = @ + 1]
  /\ lock' = [lock EXCEPT ![e] = {}]
  /\ UNCHANGED <<slot, late, effects, exhaustedJobs, alarms>>

BackoffOver(e) ==
  /\ job[e].state = "delayed"
  /\ job' = [job EXCEPT ![e].state = "waiting"]
  /\ UNCHANGED <<lock, slot, late, effects, exhaustedJobs, alarms>>

\* removeOnComplete and removeOnFail: the age or the count is exceeded.
RemoveFinished(e) ==
  /\ Finished(e)
  /\ job' = [job EXCEPT ![e] = NoJob]
  /\ alarms' = alarms \ {e}
  /\ UNCHANGED <<lock, slot, late, effects, exhaustedJobs>>

\* The process is gone with its runs and its memory.
LoseProcess(p) ==
  /\ slot' = [s \in Slots |-> IF HomeOf[s] = p THEN NoRun ELSE slot[s]]
  /\ exhaustedJobs' = [exhaustedJobs EXCEPT ![p] = {}]
  /\ UNCHANGED <<job, lock, late, effects, alarms>>

RunStep(s) == Insert(s) \/ InsertFails(s) \/ Timeout(s)
RunEnds(s) == Complete(s) \/ Fail(s) \/ EndWithoutLock(s)

\* Redis and the database, without the processes that fetch.
QueueEnvironment ==
  \/ \E e \in Effects, mode \in Modes : Enqueue(e, mode)
  \/ \E e \in Effects : Stall(e) \/ BackoffOver(e) \/ RemoveFinished(e)
  \/ \E s \in Slots, e \in Effects : LateInsert(s, e)

QueueNext ==
  \/ QueueEnvironment
  \/ \E s \in Slots : RunStep(s) \/ RunEnds(s) \/ \E e \in Effects : Fetch(s, e)
  \/ \E p \in Consumers : LoseProcess(p)

QueueSpec == QueueInit /\ [][QueueNext]_queueVars
-----------------------------------------------------------------------------
QueueTypeOK ==
  /\ job \in [Effects -> Job]
  /\ lock \in [Effects -> SUBSET Slots]
  /\ slot \in [Slots -> Run \cup {NoRun}]
  /\ late \subseteq Slots \X Effects
  /\ effects \subseteq Effects
  /\ exhaustedJobs \in [Consumers -> SUBSET Effects]
  /\ alarms \subseteq Effects

\* A job that completed took its effect, whichever of its runs inserted the
\* row: no timeout, stall, retry or outcome of an outdated run makes it
\* complete without it.
CompletedTookEffect == \A e \in Effects : job[e].state = "completed" => e \in effects

\* Failures of the runs that the mode asks for.
Unlucky(mode) == IF mode = "fail-after-effect-once" THEN 1 ELSE 0

\* A valid job that can succeed is given up only after `attempts` failures, or
\* after more stalls than BullMQ allows: neither a stall that is allowed nor a
\* retry of an effect already taken uses up one of its attempts.
GivenUpOnlyWhenExhausted ==
  \A e \in Effects :
    job[e].state = "failed" /\ job[e].mode \in {"succeed", "fail-after-effect-once"}
      => \/ job[e].faults + Unlucky(job[e].mode) >= JobAttempts
         \/ job[e].stalls > MaximumStalls

\* A job reported as exhausted (event queue.job_exhausted) is one that failed
\* for good: no later run completes it.
AlarmsAreTrue == \A e \in alarms : job[e].state = "failed"

\* A job that waits completes or fails for good, whatever stalls, times out or
\* fails on the way.
EveryJobSettles == \A e \in Effects : job[e].state = "waiting" ~> Finished(e)
=============================================================================
