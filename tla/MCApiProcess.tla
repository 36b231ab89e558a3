----------------------------- MODULE MCApiProcess -----------------------------
(***************************************************************************)
(* ApiProcess for TLC in five scopes, chosen at the start, so that their   *)
(* states add up instead of multiplying:                                   *)
(*   "requests"  two requests of a process that stays up, of which one key *)
(*               counts at a time;                                         *)
(*   "realtime"  two sockets and the Redis clients of a process that stays *)
(*               up;                                                       *)
(*   "storage"   two callers of the object storage, one during a shutdown; *)
(*   "shutdown"  a read, a socket and the Redis clients, and a signal or a *)
(*               failure at any time; Redis does not restart;              *)
(*   "draining"  the same with a readiness probe and no request.           *)
(***************************************************************************)
EXTENDS ApiProcess, TLC

CONSTANTS r1, s1, c1

MCLimit == [k \in Scopes |-> IF k = "general" THEN 1 ELSE 2]

VARIABLE scope
mcVars == <<apiVars, scope>>

MCInit == ApiInit /\ scope \in {"requests", "realtime", "storage", "shutdown", "draining"}

StaysUp == closing' = "none" /\ stage' # "failed"
Quiet == request' = request /\ redisUp' = redisUp
NoClients == attached' = attached /\ ready' = ready /\ probe' = 0
NoStorage == call' = call
OneKey == \E k \in Scopes : counter'[k] = 0 /\ ThroughWithin(k)' = 0
NoRestart == restarts' = restarts
OneSocket == \A s \in Sockets \ {s1} : attached'[s] = attached[s]
OnlyUp(vars, next) == next # vars => stage = "listening"

InScope ==
  CASE scope = "requests" -> StaysUp /\ NoClients /\ NoStorage /\ OneKey
         /\ OnlyUp(<<request, redisUp>>, <<request', redisUp'>>)
    [] scope = "realtime" -> StaysUp /\ Quiet /\ NoStorage
    [] scope = "storage" -> Quiet /\ NoClients /\ OnlyUp(call, call')
         /\ stage' # "failed" /\ (closing' # "none" => \A c \in Callers \ {c1} : ~Calling(c)')
    [] scope = "shutdown" -> NoStorage /\ OneSocket /\ probe' = 0 /\ NoRestart
         /\ request'[r1].scope = "general"
         /\ \A r \in Requests \ {r1} : request'[r] = request[r]
    [] scope = "draining" -> NoStorage /\ OneSocket /\ Quiet

MCNext == ApiNext /\ scope' = scope /\ InScope

MCSpec == MCInit /\ [][MCNext]_mcVars /\ ApiFairness
=============================================================================
