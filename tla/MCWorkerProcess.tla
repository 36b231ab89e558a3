--------------------------- MODULE MCWorkerProcess ---------------------------
(***************************************************************************)
(* WorkerProcess for TLC in four scopes, chosen at the start, so that      *)
(* their states add up instead of multiplying:                             *)
(*   "outbox"  two workers that stay up and messages from then on;         *)
(*   "jobs"    two workers that stay up and jobs from then on;             *)
(*   "batch"   one worker that is interrupted, and a message;              *)
(*   "run"     one worker that is interrupted, and a job added once.       *)
(***************************************************************************)
EXTENDS WorkerProcess, TLC

CONSTANTS w1, w2, s1, s2, m1

Homes == (s1 :> w1) @@ (s2 :> w2)

VARIABLE scope
mcVars == <<workerVars, scope>>

MCInit ==
  /\ WorkerInit
  /\ scope \in {"outbox", "jobs", "batch", "run"}
  /\ deployed = IF scope \in {"outbox", "jobs"} THEN Workers ELSE {w1}

AllUp == \A w \in deployed : phase[w] = "up"
NoInterruption == interruptions' = 0
NoJobs == job' = job
NoMessages == status' = status
OnlyMessage(m) == \A other \in Messages \ {m} : status'[other] = status[other]
AddedOnce(e) == /\ job[e].state # "absent" => job'[e].state # "absent"
                /\ job'[e].mode \in {"succeed", "timeout"}

InScope ==
  CASE scope = "outbox" -> NoInterruption /\ NoJobs /\ (status' # status => AllUp)
    [] scope = "jobs" -> NoInterruption /\ NoMessages /\ (job' # job => AllUp)
    [] scope = "batch" -> NoJobs /\ OnlyMessage(m1)
    [] scope = "run" -> NoMessages /\ \A e \in Effects : AddedOnce(e)

MCNext == WorkerNext /\ scope' = scope /\ InScope

MCSpec == MCInit /\ [][MCNext]_mcVars /\ WorkerFairness
=============================================================================
