------------------------- MODULE TechnicalQueueProofs -------------------------
(***************************************************************************)
(* What the technical queue keeps for every number of consumers, slots,    *)
(* effects and attempts.                                                   *)
(*                                                                         *)
(* Everything rests on the lock: who holds it runs the job's present       *)
(* attempt, so that what it learnt of the job when it began still holds    *)
(* when it reports, although the job may have been started by others       *)
(* before.                                                                 *)
(***************************************************************************)
EXTENDS TechnicalQueue, TLAPS

\* A lock is held only on a job that is active.
LocksAreActive == \A e \in Effects : lock[e] # {} => job[e].state = "active"

\* A run that is about to complete has its effect.
CompletingTookEffect ==
  \A s \in Slots : slot[s].step = "completing" => slot[s].effect \in effects

\* Jobs that can succeed.
Able == {"succeed", "fail-after-effect-once"}

\* A job that is not finished has attempts left, was started once for each one
\* it made and each stall, and its failures have a reason each.
AttemptsAddUp ==
  \A e \in Effects : job[e].state \in {"waiting", "delayed", "active"} =>
    /\ job[e].made < JobAttempts
    /\ job[e].started = job[e].made + job[e].stalls + (IF job[e].state = "active" THEN 1 ELSE 0)
    /\ job[e].mode \in Able => job[e].made <= job[e].faults + Unlucky(job[e].mode)

\* What the lock's holder is about to report is justified by the job as it is.
ReportsAreJustified ==
  \A e \in Effects : \A s \in lock[e] : slot[s].effect = e =>
    /\ slot[s].step = "giving_up" /\ job[e].mode \in Able
         => job[e].stalls > MaximumStalls \/ job[e].stalls > 1
    /\ slot[s].step = "failing" /\ ~slot[s].fault /\ job[e].mode \in Able
         => job[e].mode = "fail-after-effect-once" /\ job[e].made = 0
    /\ slot[s].step = "hanging" => job[e].mode \notin Able

\* GivenUpOnlyWhenExhausted for any MaximumStalls: the second stall may also
\* use up the one start that StartsAllowed has to spare.
GivenUpForAReason ==
  \A e \in Effects : job[e].state = "failed" /\ job[e].mode \in Able =>
    \/ job[e].faults + Unlucky(job[e].mode) >= JobAttempts
    \/ job[e].stalls > MaximumStalls
    \/ job[e].stalls > 1

QueueInv ==
  /\ QueueTypeOK
  /\ LocksAreActive
  /\ CompletingTookEffect
  /\ CompletedTookEffect
  /\ AlarmsAreTrue
  /\ AttemptsAddUp
  /\ ReportsAreJustified
  /\ GivenUpForAReason

LEMMA QueueInitInv == QueueInit => QueueInv
<1> SUFFICES ASSUME QueueInit
             PROVE  QueueInv
  OBVIOUS
<1>1. NoJob \in Job /\ NoJob.state = "absent"
  BY DEF NoJob, Job, Modes
<1>2. QueueTypeOK
  BY <1>1 DEF QueueInit, QueueTypeOK
<1>3. \A e \in Effects : job[e].state = "absent"
  BY <1>1 DEF QueueInit
<1>4. LocksAreActive /\ CompletedTookEffect /\ AlarmsAreTrue /\ AttemptsAddUp /\ GivenUpForAReason
  BY <1>3 DEF QueueInit, LocksAreActive, CompletedTookEffect, AlarmsAreTrue, AttemptsAddUp,
      GivenUpForAReason
<1>5. CompletingTookEffect
  BY DEF QueueInit, CompletingTookEffect, NoRun
<1>6. ReportsAreJustified
  BY DEF QueueInit, ReportsAreJustified
<1> QED
  BY <1>2, <1>4, <1>5, <1>6 DEF QueueInv
-----------------------------------------------------------------------------
\* The run of a slot that is not free.
LEMMA RunTyped ==
  ASSUME QueueTypeOK, NEW s \in Slots, ~Free(s)
  PROVE  /\ slot[s] \in Run
         /\ slot[s].effect \in Effects
         /\ slot[s].fault \in BOOLEAN
         /\ slot[s].step \in Steps
         /\ job[slot[s].effect] \in Job
         /\ HomeOf[s] \in Consumers
<1>1. slot[s] \in Run
  BY DEF QueueTypeOK, Free, NoRun
<1>2. slot[s].effect \in Effects /\ slot[s].fault \in BOOLEAN /\ slot[s].step \in Steps
  BY <1>1 DEF Run
<1> QED
  BY <1>1, <1>2, QueueAssumption DEF QueueTypeOK

\* A run that goes on.
LEMMA RunGoesToTyped ==
  ASSUME QueueTypeOK, NEW s \in Slots, ~Free(s), NEW step \in Steps, NEW fault \in BOOLEAN,
         RunGoesTo(s, step, fault)
  PROVE  /\ slot' \in [Slots -> Run \cup {NoRun}]
         /\ slot'[s].step = step
         /\ slot'[s].fault = fault
         /\ slot'[s].effect = slot[s].effect
         /\ \A t \in Slots \ {s} : slot'[t] = slot[t]
<1>1. slot[s] \in Run
  BY RunTyped
<1> DEFINE new == [slot[s] EXCEPT !.step = step, !.fault = fault]
<1>2. /\ new \in Run
      /\ new.step = step
      /\ new.fault = fault
      /\ new.effect = slot[s].effect
  BY <1>1 DEF Run
<1>3. slot' = [slot EXCEPT ![s] = new]
  BY DEF RunGoesTo
<1> HIDE DEF new
<1> QED
  BY <1>2, <1>3 DEF QueueTypeOK

\* The fields of a job that changes.
LEMMA JobFields ==
  ASSUME NEW j \in Job
  PROVE  /\ j.state \in {"absent", "waiting", "delayed", "active", "completed", "failed"}
         /\ j.mode \in Modes
         /\ j.made \in Nat
         /\ j.started \in Nat
         /\ j.stalls \in Nat
         /\ j.faults \in Nat
BY DEF Job

\* The ways a job changes.
LEMMA JobBegins ==
  ASSUME NEW j \in Job, NEW state \in {"waiting", "active", "completed", "failed", "delayed"}
  PROVE  /\ \A mode \in Modes : [j EXCEPT !.state = state, !.mode = mode] \in Job
         /\ \A n \in Nat : [j EXCEPT !.state = state, !.started = n] \in Job
         /\ \A n \in Nat : [j EXCEPT !.state = state, !.stalls = n] \in Job
         /\ \A n \in Nat : [j EXCEPT !.state = state, !.made = n] \in Job
         /\ [j EXCEPT !.state = state] \in Job
BY DEF Job

LEMMA JobEnds ==
  ASSUME NEW j \in Job, NEW state \in {"completed", "failed", "delayed"},
         NEW made \in Nat, NEW faults \in Nat
  PROVE  [j EXCEPT !.state = state, !.made = made, !.faults = faults] \in Job
BY DEF Job

LEMMA FirstStepTyped == \A j : FirstStep(j) \in Steps
BY DEF FirstStep, Steps
-----------------------------------------------------------------------------
\* The actions' effects on the records, one lemma for each kind of action.

LEMMA EnqueueEffect ==
  ASSUME QueueTypeOK, NEW e \in Effects, NEW mode \in Modes, Enqueue(e, mode)
  PROVE  /\ job' \in [Effects -> Job]
         /\ job'[e].state = "waiting" /\ job'[e].mode = mode
         /\ job'[e].made = 0 /\ job'[e].started = 0
         /\ job'[e].stalls = 0 /\ job'[e].faults = 0
         /\ \A f \in Effects \ {e} : job'[f] = job[f]
<1> DEFINE new == [NoJob EXCEPT !.state = "waiting", !.mode = mode]
<1>1. /\ new.state = "waiting" /\ new.mode = mode
      /\ new.made = 0 /\ new.started = 0 /\ new.stalls = 0 /\ new.faults = 0
  BY DEF NoJob
<1>2. NoJob \in Job
  BY DEF NoJob, Job, Modes
<1>3. new \in Job
  BY <1>2, JobBegins
<1>4. job' = [job EXCEPT ![e] = new]
  BY DEF Enqueue
<1> HIDE DEF new
<1> QED
  BY <1>1, <1>3, <1>4 DEF QueueTypeOK

LEMMA FetchEffect ==
  ASSUME QueueTypeOK, NEW s \in Slots, NEW e \in Effects, Fetch(s, e)
  PROVE  /\ job' \in [Effects -> Job]
         /\ job'[e] = [job[e] EXCEPT !.state = "active", !.started = job[e].started + 1]
         /\ \A f \in Effects \ {e} : job'[f] = job[f]
         /\ slot' \in [Slots -> Run \cup {NoRun}]
         /\ slot'[s] = [step |-> FirstStep(job[e]), effect |-> e, fault |-> FALSE]
         /\ \A t \in Slots \ {s} : slot'[t] = slot[t]
         /\ lock' \in [Effects -> SUBSET Slots]
         /\ lock'[e] = {s}
         /\ \A f \in Effects \ {e} : lock'[f] = lock[f]
<1> DEFINE new == [job[e] EXCEPT !.state = "active", !.started = job[e].started + 1]
           begun == [step |-> FirstStep(job[e]), effect |-> e, fault |-> FALSE]
<1>1. job[e] \in Job /\ job[e].started + 1 \in Nat
  BY JobFields DEF QueueTypeOK
<1>2. new \in Job
  BY <1>1, JobBegins
<1>3. begun \in Run
  BY FirstStepTyped DEF Run
<1>4. job' = [job EXCEPT ![e] = new]
  BY DEF Fetch
<1>5. slot' = [slot EXCEPT ![s] = begun] /\ lock' = [lock EXCEPT ![e] = {s}]
  BY DEF Fetch
<1> HIDE DEF new, begun
<1>6. /\ job' \in [Effects -> Job]
      /\ job'[e] = new
      /\ \A f \in Effects \ {e} : job'[f] = job[f]
  BY <1>2, <1>4 DEF QueueTypeOK
<1>7. /\ slot' \in [Slots -> Run \cup {NoRun}]
      /\ slot'[s] = begun
      /\ \A t \in Slots \ {s} : slot'[t] = slot[t]
  BY <1>3, <1>5 DEF QueueTypeOK
<1>8. /\ lock' \in [Effects -> SUBSET Slots]
      /\ lock'[e] = {s}
      /\ \A f \in Effects \ {e} : lock'[f] = lock[f]
  BY <1>5 DEF QueueTypeOK
<1> QED
  BY <1>6, <1>7, <1>8 DEF new, begun

\* A job, its lock and a slot are set to new values.
LEMMA JobSet ==
  ASSUME QueueTypeOK, NEW e \in Effects, NEW new \in Job, job' = [job EXCEPT ![e] = new]
  PROVE  /\ job' \in [Effects -> Job]
         /\ job'[e] = new
         /\ \A f \in Effects \ {e} : job'[f] = job[f]
BY DEF QueueTypeOK

LEMMA Unlocked ==
  ASSUME QueueTypeOK, NEW e \in Effects, lock' = [lock EXCEPT ![e] = {}]
  PROVE  /\ lock' \in [Effects -> SUBSET Slots]
         /\ lock'[e] = {}
         /\ \A f \in Effects \ {e} : lock'[f] = lock[f]
BY DEF QueueTypeOK

LEMMA Freed ==
  ASSUME QueueTypeOK, NEW s \in Slots, slot' = [slot EXCEPT ![s] = NoRun]
  PROVE  /\ slot' \in [Slots -> Run \cup {NoRun}]
         /\ slot'[s] = NoRun
         /\ \A t \in Slots \ {s} : slot'[t] = slot[t]
BY DEF QueueTypeOK

LEMMA CompleteEffect ==
  ASSUME QueueTypeOK, NEW s \in Slots, NEW e \in Effects, Complete(s), slot[s].effect = e
  PROVE  /\ job' \in [Effects -> Job]
         /\ job'[e].state = "completed" /\ job'[e].mode = job[e].mode
         /\ \A f \in Effects \ {e} : job'[f] = job[f]
<1> DEFINE new == [job[e] EXCEPT !.state = "completed", !.made = job[e].made + 1]
<1>1. job[e] \in Job /\ job[e].made + 1 \in Nat
  BY JobFields DEF QueueTypeOK
<1>2. new \in Job
  BY <1>1, JobBegins
<1>3. new.state = "completed" /\ new.mode = job[e].mode
  BY <1>1 DEF Job
<1>4. job' = [job EXCEPT ![e] = new]
  BY DEF Complete
<1> HIDE DEF new
<1> QED
  BY <1>2, <1>3, <1>4, JobSet

LEMMA FailEffect ==
  ASSUME QueueTypeOK, NEW s \in Slots, NEW e \in Effects, Fail(s), slot[s].effect = e
  PROVE  /\ job' \in [Effects -> Job]
         /\ job'[e].state = IF Exhausted(s) THEN "failed" ELSE "delayed"
         /\ job'[e].mode = job[e].mode
         /\ job'[e].made = job[e].made + 1
         /\ job'[e].faults = IF slot[s].fault THEN job[e].faults + 1 ELSE job[e].faults
         /\ job'[e].started = job[e].started /\ job'[e].stalls = job[e].stalls
         /\ \A f \in Effects \ {e} : job'[f] = job[f]
<1> DEFINE state == IF Exhausted(s) THEN "failed" ELSE "delayed"
           faults == IF slot[s].fault THEN job[e].faults + 1 ELSE job[e].faults
           new == [job[e] EXCEPT !.state = state, !.made = job[e].made + 1, !.faults = faults]
<1>1. job[e] \in Job /\ job[e].made + 1 \in Nat /\ faults \in Nat
  BY JobFields DEF QueueTypeOK
<1>2. state \in {"completed", "failed", "delayed"}
  OBVIOUS
<1>3. job' = [job EXCEPT ![e] = new]
  BY DEF Fail
<1> HIDE DEF state, faults
<1>4. new \in Job
  BY <1>1, <1>2, JobEnds
<1>5. /\ new.state = state /\ new.mode = job[e].mode
      /\ new.made = job[e].made + 1 /\ new.faults = faults
      /\ new.started = job[e].started /\ new.stalls = job[e].stalls
  BY <1>1 DEF Job
<1> HIDE DEF new
<1> QED
  BY <1>3, <1>4, <1>5, JobSet DEF state, faults

LEMMA StallEffect ==
  ASSUME QueueTypeOK, NEW e \in Effects, Stall(e)
  PROVE  /\ job' \in [Effects -> Job]
         /\ job'[e].state = "waiting" /\ job'[e].mode = job[e].mode
         /\ job'[e].made = job[e].made /\ job'[e].faults = job[e].faults
         /\ job'[e].started = job[e].started /\ job'[e].stalls = job[e].stalls + 1
         /\ \A f \in Effects \ {e} : job'[f] = job[f]
<1> DEFINE new == [job[e] EXCEPT !.state = "waiting", !.stalls = job[e].stalls + 1]
<1>1. job[e] \in Job /\ job[e].stalls + 1 \in Nat
  BY JobFields DEF QueueTypeOK
<1>2. new \in Job
  BY <1>1, JobBegins
<1>3. /\ new.state = "waiting" /\ new.mode = job[e].mode
      /\ new.made = job[e].made /\ new.faults = job[e].faults
      /\ new.started = job[e].started /\ new.stalls = job[e].stalls + 1
  BY <1>1 DEF Job
<1>4. job' = [job EXCEPT ![e] = new]
  BY DEF Stall
<1> HIDE DEF new
<1> QED
  BY <1>2, <1>3, <1>4, JobSet

LEMMA BackoffEffect ==
  ASSUME QueueTypeOK, NEW e \in Effects, BackoffOver(e)
  PROVE  /\ job' \in [Effects -> Job]
         /\ job'[e].state = "waiting" /\ job'[e].mode = job[e].mode
         /\ job'[e].made = job[e].made /\ job'[e].faults = job[e].faults
         /\ job'[e].started = job[e].started /\ job'[e].stalls = job[e].stalls
         /\ \A f \in Effects \ {e} : job'[f] = job[f]
<1> DEFINE new == [job[e] EXCEPT !.state = "waiting"]
<1>1. job[e] \in Job
  BY DEF QueueTypeOK
<1>2. new \in Job
  BY <1>1, JobBegins
<1>3. /\ new.state = "waiting" /\ new.mode = job[e].mode
      /\ new.made = job[e].made /\ new.faults = job[e].faults
      /\ new.started = job[e].started /\ new.stalls = job[e].stalls
  BY <1>1 DEF Job
<1>4. job' = [job EXCEPT ![e] = new]
  BY DEF BackoffOver
<1> HIDE DEF new
<1> QED
  BY <1>2, <1>3, <1>4, JobSet

LEMMA RemoveEffect ==
  ASSUME QueueTypeOK, NEW e \in Effects, RemoveFinished(e)
  PROVE  /\ job' \in [Effects -> Job]
         /\ job'[e].state = "absent"
         /\ \A f \in Effects \ {e} : job'[f] = job[f]
<1>1. NoJob \in Job /\ NoJob.state = "absent"
  BY DEF NoJob, Job, Modes
<1>2. job' = [job EXCEPT ![e] = NoJob]
  BY DEF RemoveFinished
<1> QED
  BY <1>1, <1>2, JobSet
-----------------------------------------------------------------------------
\* Preservation, one lemma for each action.

LEMMA EnqueueInv ==
  ASSUME QueueInv, NEW e \in Effects, NEW mode \in Modes, Enqueue(e, mode)
  PROVE  QueueInv'
<1>1. /\ job' \in [Effects -> Job]
      /\ job'[e].state = "waiting" /\ job'[e].mode = mode
      /\ job'[e].made = 0 /\ job'[e].started = 0
      /\ job'[e].stalls = 0 /\ job'[e].faults = 0
      /\ \A f \in Effects \ {e} : job'[f] = job[f]
  BY EnqueueEffect DEF QueueInv
<1>2. /\ job[e].state = "absent"
      /\ UNCHANGED <<lock, slot, late, effects, exhaustedJobs, alarms>>
  BY DEF Enqueue
<1>3. lock[e] = {} /\ e \notin alarms
  BY <1>2 DEF QueueInv, LocksAreActive, AlarmsAreTrue
<1>4. QueueTypeOK'
  BY <1>1, <1>2 DEF QueueInv, QueueTypeOK
<1>5. LocksAreActive' /\ CompletingTookEffect' /\ CompletedTookEffect'
  BY <1>1, <1>2, <1>3 DEF QueueInv, LocksAreActive, CompletingTookEffect, CompletedTookEffect
<1>6. AlarmsAreTrue'
  BY <1>1, <1>2, <1>3 DEF QueueInv, AlarmsAreTrue, QueueTypeOK
<1>7. AttemptsAddUp'
  BY <1>1, QueueAssumption DEF QueueInv, AttemptsAddUp, Unlucky
<1>8. ReportsAreJustified'
  BY <1>1, <1>2, <1>3 DEF QueueInv, ReportsAreJustified
<1>9. GivenUpForAReason'
  BY <1>1 DEF QueueInv, GivenUpForAReason
<1> QED
  BY <1>4, <1>5, <1>6, <1>7, <1>8, <1>9 DEF QueueInv

LEMMA FetchInv ==
  ASSUME QueueInv, NEW s \in Slots, NEW e \in Effects, Fetch(s, e)
  PROVE  QueueInv'
<1> DEFINE begun == [step |-> FirstStep(job[e]), effect |-> e, fault |-> FALSE]
<1>1. /\ job' \in [Effects -> Job]
      /\ job'[e] = [job[e] EXCEPT !.state = "active", !.started = job[e].started + 1]
      /\ \A f \in Effects \ {e} : job'[f] = job[f]
      /\ slot' \in [Slots -> Run \cup {NoRun}]
      /\ slot'[s] = begun
      /\ \A t \in Slots \ {s} : slot'[t] = slot[t]
      /\ lock' \in [Effects -> SUBSET Slots]
      /\ lock'[e] = {s}
      /\ \A f \in Effects \ {e} : lock'[f] = lock[f]
  BY FetchEffect DEF QueueInv
<1>2. job[e] \in Job
  BY DEF QueueInv, QueueTypeOK
<1>3. /\ job'[e].state = "active" /\ job'[e].mode = job[e].mode
      /\ job'[e].made = job[e].made /\ job'[e].faults = job[e].faults
      /\ job'[e].started = job[e].started + 1 /\ job'[e].stalls = job[e].stalls
  BY <1>1, <1>2 DEF Job
<1>4. begun.step = FirstStep(job[e]) /\ begun.effect = e /\ begun.fault = FALSE
  OBVIOUS
<1>5. /\ job[e].state = "waiting"
      /\ UNCHANGED <<late, effects, exhaustedJobs, alarms>>
  BY DEF Fetch
<1>6. /\ job[e].made \in Nat /\ job[e].started \in Nat
      /\ job[e].stalls \in Nat /\ job[e].faults \in Nat
  BY <1>2, JobFields
<1>7. /\ job[e].made < JobAttempts
      /\ job[e].started = job[e].made + job[e].stalls
      /\ job[e].mode \in Able => job[e].made <= job[e].faults + Unlucky(job[e].mode)
  BY <1>5, <1>6 DEF QueueInv, AttemptsAddUp
<1> HIDE DEF begun
<1>8. QueueTypeOK'
  BY <1>1, <1>5 DEF QueueInv, QueueTypeOK
<1>9. LocksAreActive'
  BY <1>1, <1>3 DEF QueueInv, LocksAreActive
<1>10. CompletingTookEffect'
  BY <1>1, <1>4, <1>5 DEF QueueInv, CompletingTookEffect, FirstStep
<1>11. CompletedTookEffect'
  BY <1>1, <1>3, <1>5 DEF QueueInv, CompletedTookEffect
<1>12. AlarmsAreTrue'
  BY <1>1, <1>3, <1>5 DEF QueueInv, AlarmsAreTrue, QueueTypeOK
<1>13. AttemptsAddUp'
  <2> SUFFICES ASSUME NEW f \in Effects, job'[f].state \in {"waiting", "delayed", "active"}
               PROVE  /\ job'[f].made < JobAttempts
                      /\ job'[f].started = job'[f].made + job'[f].stalls
                                            + (IF job'[f].state = "active" THEN 1 ELSE 0)
                      /\ job'[f].mode \in Able
                           => job'[f].made <= job'[f].faults + Unlucky(job'[f].mode)
    BY DEF AttemptsAddUp
  <2>1. CASE f = e
    BY <1>3, <1>6, <1>7, <2>1
  <2>2. CASE f # e
    BY <1>1, <2>2 DEF QueueInv, AttemptsAddUp
  <2> QED
    BY <2>1, <2>2
<1>14. ReportsAreJustified'
  <2> SUFFICES ASSUME NEW f \in Effects, NEW t \in lock'[f], slot'[t].effect = f
               PROVE  /\ slot'[t].step = "giving_up" /\ job'[f].mode \in Able
                           => job'[f].stalls > MaximumStalls \/ job'[f].stalls > 1
                      /\ slot'[t].step = "failing" /\ ~slot'[t].fault /\ job'[f].mode \in Able
                           => job'[f].mode = "fail-after-effect-once" /\ job'[f].made = 0
                      /\ slot'[t].step = "hanging" => job'[f].mode \notin Able
    BY DEF ReportsAreJustified
  <2>1. CASE f = e
    <3>1. t = s /\ slot'[t].step = FirstStep(job[e])
      BY <1>1, <1>4, <2>1
    <3>2. FirstStep(job[e]) = "giving_up" /\ job[e].mode \in Able
            => job[e].stalls > MaximumStalls \/ job[e].started + 1 > JobAttempts + 1
      BY DEF FirstStep, StartsAllowed, Able
    <3>3. job[e].started + 1 > JobAttempts + 1 => job[e].stalls > 1
      BY <1>6, <1>7, QueueAssumption
    <3>4. FirstStep(job[e]) \in {"failing", "hanging"} => job[e].mode \notin Able
      BY DEF FirstStep, Able
    <3> QED
      BY <1>3, <2>1, <3>1, <3>2, <3>3, <3>4
  <2>2. CASE f # e
    <3>1. /\ lock'[f] = lock[f] /\ job'[f] = job[f]
          /\ t \in Slots
      BY <1>1, <2>2 DEF QueueInv, QueueTypeOK
    <3>2. slot'[t] = slot[t]
      BY <1>1, <1>4, <2>2, <3>1
    <3> QED
      BY <3>1, <3>2 DEF QueueInv, ReportsAreJustified
  <2> QED
    BY <2>1, <2>2
<1>15. GivenUpForAReason'
  BY <1>1, <1>3 DEF QueueInv, GivenUpForAReason
<1> QED
  BY <1>8, <1>9, <1>10, <1>11, <1>12, <1>13, <1>14, <1>15 DEF QueueInv

\* A run goes on to an outcome: Insert, InsertFails, Timeout.
LEMMA RunStepInv ==
  ASSUME QueueInv, NEW s \in Slots, RunStep(s)
  PROVE  QueueInv'
<1>1. ~Free(s) /\ UNCHANGED <<job, lock, exhaustedJobs, alarms>>
  BY DEF RunStep, Insert, InsertFails, Timeout, Free
<1> DEFINE e == slot[s].effect
<1>2. /\ slot[s].effect \in Effects /\ slot[s].fault \in BOOLEAN
      /\ job[slot[s].effect] \in Job
  BY <1>1, RunTyped DEF QueueInv
<1>3. PICK step \in Steps, fault \in BOOLEAN :
        /\ RunGoesTo(s, step, fault)
        /\ step \in {"completing", "failing"}
        /\ step = "completing" => slot[s].effect \in effects'
        /\ step = "failing" /\ ~fault =>
             \/ slot[s].step = "hanging"
             \/ /\ job[slot[s].effect].mode = "fail-after-effect-once"
                /\ job[slot[s].effect].made = 0
  <2>1. CASE Insert(s)
    <3> DEFINE step == IF job[e].mode = "fail-after-effect-once" /\ job[e].made = 0
                         THEN "failing" ELSE "completing"
    <3>1. RunGoesTo(s, step, FALSE) /\ effects' = effects \cup {e}
      BY <2>1 DEF Insert
    <3>2. step \in Steps /\ step \in {"completing", "failing"}
      BY DEF Steps
    <3>3. step = "failing" => job[e].mode = "fail-after-effect-once" /\ job[e].made = 0
      OBVIOUS
    <3> HIDE DEF step
    <3> QED
      BY <3>1, <3>2, <3>3
  <2>2. CASE InsertFails(s)
    <3>1. RunGoesTo(s, "failing", TRUE)
      BY <2>2 DEF InsertFails
    <3>2. "failing" \in Steps
      BY DEF Steps
    <3> QED
      BY <3>1, <3>2
  <2>3. CASE Timeout(s)
    <3> DEFINE fault == slot[s].step = "applying"
    <3>1. RunGoesTo(s, "failing", fault) /\ slot[s].step \in {"applying", "hanging"}
      BY <2>3 DEF Timeout
    <3>2. "failing" \in Steps /\ fault \in BOOLEAN
      BY DEF Steps
    <3>3. ~fault => slot[s].step = "hanging"
      BY <3>1
    <3> HIDE DEF fault
    <3> QED
      BY <3>1, <3>2, <3>3
  <2> QED
    BY <2>1, <2>2, <2>3 DEF RunStep
<1>4. /\ slot' \in [Slots -> Run \cup {NoRun}]
      /\ slot'[s].step = step
      /\ slot'[s].fault = fault
      /\ slot'[s].effect = slot[s].effect
      /\ \A t \in Slots \ {s} : slot'[t] = slot[t]
  BY <1>1, <1>3, RunGoesToTyped DEF QueueInv
<1>5. effects \subseteq effects' /\ effects' \subseteq Effects
  BY <1>2 DEF RunStep, Insert, InsertFails, Timeout, QueueInv, QueueTypeOK
<1>6. late' \subseteq Slots \X Effects
  <2>1. late' \subseteq late \cup {<<s, slot[s].effect>>}
    BY DEF RunStep, Insert, InsertFails, Timeout
  <2>2. <<s, slot[s].effect>> \in Slots \X Effects
    BY <1>2
  <2> QED
    BY <2>1, <2>2 DEF QueueInv, QueueTypeOK
<1>7. QueueTypeOK'
  BY <1>1, <1>4, <1>5, <1>6 DEF QueueInv, QueueTypeOK
<1>8. CompletingTookEffect'
  BY <1>3, <1>4, <1>5 DEF QueueInv, CompletingTookEffect
<1>9. CompletedTookEffect'
  BY <1>1, <1>5 DEF QueueInv, CompletedTookEffect
<1>10. LocksAreActive' /\ AlarmsAreTrue' /\ AttemptsAddUp' /\ GivenUpForAReason'
  BY <1>1 DEF QueueInv, LocksAreActive, AlarmsAreTrue, AttemptsAddUp, GivenUpForAReason
<1>11. ReportsAreJustified'
  <2> SUFFICES ASSUME NEW f \in Effects, NEW t \in lock[f], slot'[t].effect = f
               PROVE  /\ slot'[t].step = "giving_up" /\ job[f].mode \in Able
                           => job[f].stalls > MaximumStalls \/ job[f].stalls > 1
                      /\ slot'[t].step = "failing" /\ ~slot'[t].fault /\ job[f].mode \in Able
                           => job[f].mode = "fail-after-effect-once" /\ job[f].made = 0
                      /\ slot'[t].step = "hanging" => job[f].mode \notin Able
    BY <1>1 DEF ReportsAreJustified
  <2>1. t \in Slots
    BY DEF QueueInv, QueueTypeOK
  <2>2. CASE t = s
    <3>1. slot[s].effect = f /\ slot[s].step = "hanging" => job[f].mode \notin Able
      BY <2>2 DEF QueueInv, ReportsAreJustified
    <3> QED
      BY <1>3, <1>4, <2>2, <3>1
  <2>3. CASE t # s
    BY <1>4, <2>1, <2>3 DEF QueueInv, ReportsAreJustified
  <2> QED
    BY <2>2, <2>3
<1> QED
  BY <1>7, <1>8, <1>9, <1>10, <1>11 DEF QueueInv

LEMMA LateInsertInv ==
  ASSUME QueueInv, NEW s \in Slots, NEW e \in Effects, LateInsert(s, e)
  PROVE  QueueInv'
<1>1. /\ UNCHANGED <<job, lock, slot, exhaustedJobs, alarms>>
      /\ effects \subseteq effects' /\ effects' \subseteq Effects
      /\ late' \subseteq Slots \X Effects
  BY DEF LateInsert, QueueInv, QueueTypeOK
<1>2. QueueTypeOK'
  BY <1>1 DEF QueueInv, QueueTypeOK
<1>3. CompletingTookEffect' /\ CompletedTookEffect'
  BY <1>1 DEF QueueInv, CompletingTookEffect, CompletedTookEffect
<1>4. LocksAreActive' /\ AlarmsAreTrue' /\ AttemptsAddUp' /\ GivenUpForAReason'
  BY <1>1 DEF QueueInv, LocksAreActive, AlarmsAreTrue, AttemptsAddUp, GivenUpForAReason
<1>5. ReportsAreJustified'
  BY <1>1 DEF QueueInv, ReportsAreJustified
<1> QED
  BY <1>2, <1>3, <1>4, <1>5 DEF QueueInv

\* A run that ends leaves the other runs' reports as they are.
LEMMA ReportsOfOthers ==
  ASSUME QueueInv, NEW s \in Slots, slot' = [slot EXCEPT ![s] = NoRun],
         NEW e \in Effects, lock'[e] = {},
         \A f \in Effects \ {e} : lock'[f] = lock[f] /\ job'[f] = job[f]
  PROVE  ReportsAreJustified'
<1> SUFFICES ASSUME NEW f \in Effects, NEW t \in lock'[f], slot'[t].effect = f
             PROVE  /\ slot'[t].step = "giving_up" /\ job'[f].mode \in Able
                         => job'[f].stalls > MaximumStalls \/ job'[f].stalls > 1
                    /\ slot'[t].step = "failing" /\ ~slot'[t].fault /\ job'[f].mode \in Able
                         => job'[f].mode = "fail-after-effect-once" /\ job'[f].made = 0
                    /\ slot'[t].step = "hanging" => job'[f].mode \notin Able
  BY DEF ReportsAreJustified
<1>1. f # e /\ lock'[f] = lock[f] /\ job'[f] = job[f]
  OBVIOUS
<1>2. t \in Slots
  BY <1>1 DEF QueueInv, QueueTypeOK
<1>3. t # s
  BY <1>2, Freed, QueueAssumption DEF QueueInv, NoRun
<1>4. slot'[t] = slot[t]
  BY <1>2, <1>3, Freed DEF QueueInv
<1> QED
  BY <1>1, <1>4 DEF QueueInv, ReportsAreJustified

LEMMA CompleteInv ==
  ASSUME QueueInv, NEW s \in Slots, Complete(s)
  PROVE  QueueInv'
<1>1. ~Free(s)
  BY DEF Complete, Free
<1>2. PICK e \in Effects : slot[s].effect = e
  BY <1>1, RunTyped DEF QueueInv
<1>3. /\ job' \in [Effects -> Job]
      /\ job'[e].state = "completed" /\ job'[e].mode = job[e].mode
      /\ \A f \in Effects \ {e} : job'[f] = job[f]
  BY <1>2, CompleteEffect DEF QueueInv
<1>4. /\ slot[s].step = "completing" /\ s \in lock[e]
      /\ lock' = [lock EXCEPT ![e] = {}]
      /\ slot' = [slot EXCEPT ![s] = NoRun]
      /\ UNCHANGED <<late, effects, exhaustedJobs, alarms>>
  BY <1>2 DEF Complete, Locks
<1>5. /\ lock' \in [Effects -> SUBSET Slots]
      /\ lock'[e] = {}
      /\ \A f \in Effects \ {e} : lock'[f] = lock[f]
  BY <1>4, Unlocked DEF QueueInv
<1>6. /\ slot' \in [Slots -> Run \cup {NoRun}]
      /\ slot'[s] = NoRun
      /\ \A t \in Slots \ {s} : slot'[t] = slot[t]
  BY <1>4, Freed DEF QueueInv
<1>7. job[e].state = "active"
  BY <1>4 DEF QueueInv, LocksAreActive
<1>8. QueueTypeOK'
  BY <1>3, <1>4, <1>5, <1>6 DEF QueueInv, QueueTypeOK
<1>9. LocksAreActive'
  BY <1>3, <1>5 DEF QueueInv, LocksAreActive
<1>10. CompletingTookEffect'
  BY <1>4, <1>6 DEF QueueInv, CompletingTookEffect, NoRun
<1>11. CompletedTookEffect'
  BY <1>2, <1>3, <1>4 DEF QueueInv, CompletedTookEffect, CompletingTookEffect
<1>12. AlarmsAreTrue'
  BY <1>3, <1>4, <1>7 DEF QueueInv, AlarmsAreTrue, QueueTypeOK
<1>13. AttemptsAddUp' /\ GivenUpForAReason'
  BY <1>3 DEF QueueInv, AttemptsAddUp, GivenUpForAReason
<1>14. ReportsAreJustified'
  BY <1>3, <1>4, <1>5, ReportsOfOthers
<1> QED
  BY <1>8, <1>9, <1>10, <1>11, <1>12, <1>13, <1>14 DEF QueueInv

LEMMA FailInv ==
  ASSUME QueueInv, NEW s \in Slots, Fail(s)
  PROVE  QueueInv'
<1>1. ~Free(s)
  BY DEF Fail, Free
<1>2. PICK e \in Effects : slot[s].effect = e
  BY <1>1, RunTyped DEF QueueInv
<1>3. /\ job' \in [Effects -> Job]
      /\ job'[e].state = IF Exhausted(s) THEN "failed" ELSE "delayed"
      /\ job'[e].mode = job[e].mode
      /\ job'[e].made = job[e].made + 1
      /\ job'[e].faults = IF slot[s].fault THEN job[e].faults + 1 ELSE job[e].faults
      /\ job'[e].started = job[e].started /\ job'[e].stalls = job[e].stalls
      /\ \A f \in Effects \ {e} : job'[f] = job[f]
  BY <1>2, FailEffect DEF QueueInv
<1>4. /\ slot[s].step \in {"failing", "giving_up"} /\ s \in lock[e]
      /\ lock' = [lock EXCEPT ![e] = {}]
      /\ slot' = [slot EXCEPT ![s] = NoRun]
      /\ Report(s)
      /\ UNCHANGED <<late, effects>>
  BY <1>2 DEF Fail, Locks
<1>5. /\ lock' \in [Effects -> SUBSET Slots]
      /\ lock'[e] = {}
      /\ \A f \in Effects \ {e} : lock'[f] = lock[f]
  BY <1>4, Unlocked DEF QueueInv
<1>6. /\ slot' \in [Slots -> Run \cup {NoRun}]
      /\ slot'[s] = NoRun
      /\ \A t \in Slots \ {s} : slot'[t] = slot[t]
  BY <1>4, Freed DEF QueueInv
<1>7. job[e].state = "active" /\ job[e] \in Job
  BY <1>4 DEF QueueInv, LocksAreActive, QueueTypeOK
<1>8. /\ job[e].made \in Nat /\ job[e].started \in Nat
      /\ job[e].stalls \in Nat /\ job[e].faults \in Nat
      /\ slot[s].fault \in BOOLEAN /\ HomeOf[s] \in Consumers
  BY <1>1, <1>7, JobFields, RunTyped DEF QueueInv
<1>9. /\ job[e].made < JobAttempts
      /\ job[e].started = job[e].made + job[e].stalls + 1
      /\ job[e].mode \in Able => job[e].made <= job[e].faults + Unlucky(job[e].mode)
  BY <1>7 DEF QueueInv, AttemptsAddUp
<1>10. /\ slot[s].step = "giving_up" /\ job[e].mode \in Able
            => job[e].stalls > MaximumStalls \/ job[e].stalls > 1
       /\ slot[s].step = "failing" /\ ~slot[s].fault /\ job[e].mode \in Able
            => job[e].mode = "fail-after-effect-once" /\ job[e].made = 0
  BY <1>2, <1>4 DEF QueueInv, ReportsAreJustified
<1>11. Exhausted(s) <=> slot[s].step = "giving_up" \/ job[e].made + 1 >= JobAttempts
  BY <1>2 DEF Exhausted
<1>12. /\ alarms' \subseteq alarms \cup {e}
       /\ ~Exhausted(s) => alarms' = alarms
       /\ exhaustedJobs' \in [Consumers -> SUBSET Effects]
  BY <1>2, <1>4, <1>8 DEF Report, QueueInv, QueueTypeOK
<1>13. slot[s].step = "failing" /\ job[e].mode \in Able
         => job'[e].made <= job'[e].faults + Unlucky(job'[e].mode)
  BY <1>3, <1>8, <1>9, <1>10 DEF Unlucky
<1>14. QueueTypeOK'
  BY <1>3, <1>4, <1>5, <1>6, <1>12 DEF QueueInv, QueueTypeOK
<1>15. LocksAreActive'
  BY <1>3, <1>5 DEF QueueInv, LocksAreActive
<1>16. CompletingTookEffect'
  BY <1>4, <1>6 DEF QueueInv, CompletingTookEffect, NoRun
<1>17. CompletedTookEffect'
  BY <1>3, <1>4 DEF QueueInv, CompletedTookEffect
<1>18. AlarmsAreTrue'
  <2>1. e \notin alarms
    BY <1>7 DEF QueueInv, AlarmsAreTrue
  <2> QED
    BY <1>3, <1>12, <2>1 DEF QueueInv, AlarmsAreTrue, QueueTypeOK
<1>19. AttemptsAddUp'
  <2> SUFFICES ASSUME NEW f \in Effects, job'[f].state \in {"waiting", "delayed", "active"}
               PROVE  /\ job'[f].made < JobAttempts
                      /\ job'[f].started = job'[f].made + job'[f].stalls
                                            + (IF job'[f].state = "active" THEN 1 ELSE 0)
                      /\ job'[f].mode \in Able
                           => job'[f].made <= job'[f].faults + Unlucky(job'[f].mode)
    BY DEF AttemptsAddUp
  <2>1. CASE f = e
    <3>1. ~Exhausted(s) /\ job'[e].state = "delayed"
      BY <1>3, <2>1
    <3>2. slot[s].step = "failing" /\ job[e].made + 1 < JobAttempts
      BY <1>4, <1>8, <1>11, <3>1, QueueAssumption
    <3> QED
      BY <1>3, <1>8, <1>9, <1>13, <2>1, <3>1, <3>2
  <2>2. CASE f # e
    BY <1>3, <2>2 DEF QueueInv, AttemptsAddUp
  <2> QED
    BY <2>1, <2>2
<1>20. ReportsAreJustified'
  BY <1>3, <1>4, <1>5, ReportsOfOthers
<1>21. GivenUpForAReason'
  <2> SUFFICES ASSUME NEW f \in Effects, job'[f].state = "failed", job'[f].mode \in Able
               PROVE  \/ job'[f].faults + Unlucky(job'[f].mode) >= JobAttempts
                      \/ job'[f].stalls > MaximumStalls
                      \/ job'[f].stalls > 1
    BY DEF GivenUpForAReason
  <2>1. CASE f = e /\ slot[s].step = "giving_up"
    BY <1>3, <1>10, <2>1
  <2>2. CASE f = e /\ slot[s].step = "failing"
    <3>1. job[e].made + 1 >= JobAttempts
      BY <1>3, <1>11, <2>2
    <3>2. Unlucky(job'[e].mode) \in Nat /\ job'[e].faults \in Nat
      BY <1>3, <1>8 DEF Unlucky
    <3> QED
      BY <1>3, <1>8, <1>13, <2>2, <3>1, <3>2, QueueAssumption
  <2>3. CASE f # e
    BY <1>3, <2>3 DEF QueueInv, GivenUpForAReason
  <2> QED
    BY <1>4, <2>1, <2>2, <2>3
<1> QED
  BY <1>14, <1>15, <1>16, <1>17, <1>18, <1>19, <1>20, <1>21 DEF QueueInv

\* Slots are freed without an outcome: EndWithoutLock, LoseProcess.
LEMMA SlotsFreedInv ==
  ASSUME QueueInv,
         slot' \in [Slots -> Run \cup {NoRun}],
         \A s \in Slots : slot'[s] \in {slot[s], NoRun},
         exhaustedJobs' \in [Consumers -> SUBSET Effects],
         UNCHANGED <<job, lock, late, effects, alarms>>
  PROVE  QueueInv'
<1>1. QueueTypeOK'
  BY DEF QueueInv, QueueTypeOK
<1>2. CompletingTookEffect'
  BY DEF QueueInv, CompletingTookEffect, NoRun
<1>3. LocksAreActive' /\ CompletedTookEffect' /\ AlarmsAreTrue' /\ AttemptsAddUp'
      /\ GivenUpForAReason'
  BY DEF QueueInv, LocksAreActive, CompletedTookEffect, AlarmsAreTrue, AttemptsAddUp,
      GivenUpForAReason
<1>4. ReportsAreJustified'
  <2> SUFFICES ASSUME NEW f \in Effects, NEW t \in lock[f], slot'[t].effect = f
               PROVE  /\ slot'[t].step = "giving_up" /\ job[f].mode \in Able
                           => job[f].stalls > MaximumStalls \/ job[f].stalls > 1
                      /\ slot'[t].step = "failing" /\ ~slot'[t].fault /\ job[f].mode \in Able
                           => job[f].mode = "fail-after-effect-once" /\ job[f].made = 0
                      /\ slot'[t].step = "hanging" => job[f].mode \notin Able
    BY DEF ReportsAreJustified
  <2>1. t \in Slots
    BY DEF QueueInv, QueueTypeOK
  <2>2. slot'[t] # NoRun
    BY QueueAssumption DEF NoRun
  <2>3. slot'[t] = slot[t]
    BY <2>1, <2>2
  <2> QED
    BY <2>3 DEF QueueInv, ReportsAreJustified
<1> QED
  BY <1>1, <1>2, <1>3, <1>4 DEF QueueInv

LEMMA EndWithoutLockInv ==
  ASSUME QueueInv, NEW s \in Slots, EndWithoutLock(s)
  PROVE  QueueInv'
<1>1. /\ slot' = [slot EXCEPT ![s] = NoRun]
      /\ UNCHANGED <<job, lock, late, effects, exhaustedJobs, alarms>>
  BY DEF EndWithoutLock
<1>2. /\ slot' \in [Slots -> Run \cup {NoRun}]
      /\ \A t \in Slots : slot'[t] \in {slot[t], NoRun}
  BY <1>1, Freed DEF QueueInv
<1> QED
  BY <1>1, <1>2, SlotsFreedInv DEF QueueInv, QueueTypeOK

LEMMA LoseProcessInv ==
  ASSUME QueueInv, NEW p \in Consumers, LoseProcess(p)
  PROVE  QueueInv'
<1>1. /\ slot' \in [Slots -> Run \cup {NoRun}]
      /\ \A t \in Slots : slot'[t] \in {slot[t], NoRun}
  BY DEF LoseProcess, QueueInv, QueueTypeOK
<1>2. exhaustedJobs' \in [Consumers -> SUBSET Effects]
  BY DEF LoseProcess, QueueInv, QueueTypeOK
<1> QED
  BY <1>1, <1>2, SlotsFreedInv DEF LoseProcess

LEMMA StallInv ==
  ASSUME QueueInv, NEW e \in Effects, Stall(e)
  PROVE  QueueInv'
<1>1. /\ job' \in [Effects -> Job]
      /\ job'[e].state = "waiting" /\ job'[e].mode = job[e].mode
      /\ job'[e].made = job[e].made /\ job'[e].faults = job[e].faults
      /\ job'[e].started = job[e].started /\ job'[e].stalls = job[e].stalls + 1
      /\ \A f \in Effects \ {e} : job'[f] = job[f]
  BY StallEffect DEF QueueInv
<1>2. /\ job[e].state = "active"
      /\ lock' = [lock EXCEPT ![e] = {}]
      /\ UNCHANGED <<slot, late, effects, exhaustedJobs, alarms>>
  BY DEF Stall
<1>3. /\ lock' \in [Effects -> SUBSET Slots]
      /\ lock'[e] = {}
      /\ \A f \in Effects \ {e} : lock'[f] = lock[f]
  BY <1>2, Unlocked DEF QueueInv
<1>4. job[e].made \in Nat /\ job[e].started \in Nat /\ job[e].stalls \in Nat
  BY JobFields DEF QueueInv, QueueTypeOK
<1>5. QueueTypeOK'
  BY <1>1, <1>2, <1>3 DEF QueueInv, QueueTypeOK
<1>6. LocksAreActive' /\ CompletingTookEffect' /\ CompletedTookEffect' /\ GivenUpForAReason'
  BY <1>1, <1>2, <1>3
  DEF QueueInv, LocksAreActive, CompletingTookEffect, CompletedTookEffect, GivenUpForAReason
<1>7. AlarmsAreTrue'
  BY <1>1, <1>2 DEF QueueInv, AlarmsAreTrue, QueueTypeOK
<1>8. AttemptsAddUp'
  <2> SUFFICES ASSUME NEW f \in Effects, job'[f].state \in {"waiting", "delayed", "active"}
               PROVE  /\ job'[f].made < JobAttempts
                      /\ job'[f].started = job'[f].made + job'[f].stalls
                                            + (IF job'[f].state = "active" THEN 1 ELSE 0)
                      /\ job'[f].mode \in Able
                           => job'[f].made <= job'[f].faults + Unlucky(job'[f].mode)
    BY DEF AttemptsAddUp
  <2>1. CASE f = e
    BY <1>1, <1>2, <1>4, <2>1 DEF QueueInv, AttemptsAddUp
  <2>2. CASE f # e
    BY <1>1, <2>2 DEF QueueInv, AttemptsAddUp
  <2> QED
    BY <2>1, <2>2
<1>9. ReportsAreJustified'
  BY <1>1, <1>2, <1>3 DEF QueueInv, ReportsAreJustified
<1> QED
  BY <1>5, <1>6, <1>7, <1>8, <1>9 DEF QueueInv

LEMMA BackoffOverInv ==
  ASSUME QueueInv, NEW e \in Effects, BackoffOver(e)
  PROVE  QueueInv'
<1>1. /\ job' \in [Effects -> Job]
      /\ job'[e].state = "waiting" /\ job'[e].mode = job[e].mode
      /\ job'[e].made = job[e].made /\ job'[e].faults = job[e].faults
      /\ job'[e].started = job[e].started /\ job'[e].stalls = job[e].stalls
      /\ \A f \in Effects \ {e} : job'[f] = job[f]
  BY BackoffEffect DEF QueueInv
<1>2. /\ job[e].state = "delayed"
      /\ UNCHANGED <<lock, slot, late, effects, exhaustedJobs, alarms>>
  BY DEF BackoffOver
<1>3. lock[e] = {}
  BY <1>2 DEF QueueInv, LocksAreActive
<1>4. QueueTypeOK'
  BY <1>1, <1>2 DEF QueueInv, QueueTypeOK
<1>5. LocksAreActive' /\ CompletingTookEffect' /\ CompletedTookEffect' /\ GivenUpForAReason'
  BY <1>1, <1>2, <1>3
  DEF QueueInv, LocksAreActive, CompletingTookEffect, CompletedTookEffect, GivenUpForAReason
<1>6. AlarmsAreTrue'
  BY <1>1, <1>2 DEF QueueInv, AlarmsAreTrue, QueueTypeOK
<1>7. AttemptsAddUp'
  <2> SUFFICES ASSUME NEW f \in Effects, job'[f].state \in {"waiting", "delayed", "active"}
               PROVE  /\ job'[f].made < JobAttempts
                      /\ job'[f].started = job'[f].made + job'[f].stalls
                                            + (IF job'[f].state = "active" THEN 1 ELSE 0)
                      /\ job'[f].mode \in Able
                           => job'[f].made <= job'[f].faults + Unlucky(job'[f].mode)
    BY DEF AttemptsAddUp
  <2>1. CASE f = e
    BY <1>1, <1>2, <2>1 DEF QueueInv, AttemptsAddUp
  <2>2. CASE f # e
    BY <1>1, <2>2 DEF QueueInv, AttemptsAddUp
  <2> QED
    BY <2>1, <2>2
<1>8. ReportsAreJustified'
  BY <1>1, <1>2, <1>3 DEF QueueInv, ReportsAreJustified
<1> QED
  BY <1>4, <1>5, <1>6, <1>7, <1>8 DEF QueueInv

LEMMA RemoveFinishedInv ==
  ASSUME QueueInv, NEW e \in Effects, RemoveFinished(e)
  PROVE  QueueInv'
<1>1. /\ job' \in [Effects -> Job]
      /\ job'[e].state = "absent"
      /\ \A f \in Effects \ {e} : job'[f] = job[f]
  BY RemoveEffect DEF QueueInv
<1>2. /\ job[e].state \in {"completed", "failed"}
      /\ alarms' = alarms \ {e}
      /\ UNCHANGED <<lock, slot, late, effects, exhaustedJobs>>
  BY DEF RemoveFinished, Finished
<1>3. lock[e] = {}
  BY <1>2 DEF QueueInv, LocksAreActive
<1>4. QueueTypeOK'
  BY <1>1, <1>2 DEF QueueInv, QueueTypeOK
<1>5. LocksAreActive' /\ CompletingTookEffect' /\ CompletedTookEffect'
  BY <1>1, <1>2, <1>3 DEF QueueInv, LocksAreActive, CompletingTookEffect, CompletedTookEffect
<1>6. AlarmsAreTrue'
  BY <1>1, <1>2 DEF QueueInv, AlarmsAreTrue, QueueTypeOK
<1>7. AttemptsAddUp' /\ GivenUpForAReason'
  BY <1>1 DEF QueueInv, AttemptsAddUp, GivenUpForAReason
<1>8. ReportsAreJustified'
  BY <1>1, <1>2, <1>3 DEF QueueInv, ReportsAreJustified
<1> QED
  BY <1>4, <1>5, <1>6, <1>7, <1>8 DEF QueueInv
-----------------------------------------------------------------------------
LEMMA QueueNextInv == QueueInv /\ [QueueNext]_queueVars => QueueInv'
<1> SUFFICES ASSUME QueueInv, [QueueNext]_queueVars
             PROVE  QueueInv'
  OBVIOUS
<1>1. CASE QueueEnvironment
  BY <1>1, EnqueueInv, StallInv, BackoffOverInv, RemoveFinishedInv, LateInsertInv
  DEF QueueEnvironment
<1>2. CASE \E s \in Slots : RunStep(s) \/ RunEnds(s) \/ \E e \in Effects : Fetch(s, e)
  BY <1>2, RunStepInv, CompleteInv, FailInv, EndWithoutLockInv, FetchInv DEF RunEnds
<1>3. CASE \E p \in Consumers : LoseProcess(p)
  BY <1>3, LoseProcessInv
<1>4. CASE UNCHANGED queueVars
  BY <1>4 DEF queueVars, QueueInv, QueueTypeOK, LocksAreActive, CompletingTookEffect,
      CompletedTookEffect, AlarmsAreTrue, AttemptsAddUp, ReportsAreJustified, GivenUpForAReason
<1> QED
  BY <1>1, <1>2, <1>3, <1>4 DEF QueueNext

THEOREM QueueInvariant == QueueSpec => []QueueInv
<1>1. QueueInit => QueueInv
  BY QueueInitInv
<1>2. QueueInv /\ [QueueNext]_queueVars => QueueInv'
  BY QueueNextInv
<1> QED
  BY <1>1, <1>2, PTL DEF QueueSpec

\* The variables keep their types.
THEOREM QueueTypeCorrect == QueueSpec => []QueueTypeOK
<1>1. QueueInv => QueueTypeOK
  BY DEF QueueInv
<1> QED
  BY <1>1, QueueInvariant, PTL

\* No job completes without its effect.
THEOREM CompletionImpliesEffect == QueueSpec => []CompletedTookEffect
<1>1. QueueInv => CompletedTookEffect
  BY DEF QueueInv
<1> QED
  BY <1>1, QueueInvariant, PTL

\* Only jobs that failed for good are reported as exhausted.
THEOREM AlarmsHold == QueueSpec => []AlarmsAreTrue
<1>1. QueueInv => AlarmsAreTrue
  BY DEF QueueInv
<1> QED
  BY <1>1, QueueInvariant, PTL

\* With BullMQ's maxStalledCount, which is 1, no job is given up early: the
\* start to spare in maxStartedAttempts is enough for the one stall allowed.
THEOREM GivingUpIsJustified ==
  ASSUME MaximumStalls \in {0, 1}
  PROVE  QueueSpec => []GivenUpOnlyWhenExhausted
<1>1. QueueInv => GivenUpOnlyWhenExhausted
  <2> SUFFICES ASSUME QueueInv, NEW e \in Effects, job[e].state = "failed",
                      job[e].mode \in {"succeed", "fail-after-effect-once"}
               PROVE  \/ job[e].faults + Unlucky(job[e].mode) >= JobAttempts
                      \/ job[e].stalls > MaximumStalls
    BY DEF GivenUpOnlyWhenExhausted
  <2>1. job[e].stalls \in Nat
    BY JobFields DEF QueueInv, QueueTypeOK
  <2> QED
    BY <2>1 DEF QueueInv, GivenUpForAReason, Able
<1> QED
  BY <1>1, QueueInvariant, PTL
=============================================================================
