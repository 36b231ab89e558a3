------------------------------- MODULE RateLimit -------------------------------
(***************************************************************************)
(* The rate limit of the API: the onRequest hook of mountHttpSecurity      *)
(* (apps/api/src/platform/security/http-security.ts) and the Redis counter *)
(* of rate-limit.ts, for the requests of one client address, which several *)
(* API instances may serve over one Redis.                                 *)
(*                                                                         *)
(* The Lua script is atomic.  A counter is represented up to one past its  *)
(* limit, where more requests make no difference.                          *)
(***************************************************************************)
EXTENDS Naturals

CONSTANTS
  Requests,
  Limit,        \* RATE_LIMIT_AUTH_MAX, _MUTATION_MAX and _GENERAL_MAX
  Window,       \* ticks of RATE_LIMIT_WINDOW_MS
  MaxRestarts   \* bound on the restarts of Redis within a window

Scopes == {"mutation", "general"}   \* "auth-mutation" is as "mutation"

ASSUME LimitAssumption ==
  /\ Limit \in [Scopes -> Nat \ {0}]
  /\ Window \in Nat \ {0}
  /\ MaxRestarts \in Nat

VARIABLES
  counter,    \* the value of each scope's key; 0 without a key
  ttl,        \* ticks until the key expires
  redisUp,    \* the client's status is "ready"
  request,    \* what each request is doing; history: did Redis count it?
  recent,     \* history: how many the limit let through in this tick and the n before
  restarts    \* history: how often Redis restarted in this tick and the n before

limitVars == <<counter, ttl, redisUp, request, recent, restarts>>

Ticks == 0 .. Window - 1

Idling == [step |-> "idle", scope |-> "general", counted |-> FALSE]
Request == [step: {"idle", "consuming", "resending", "admitted"}, scope: Scopes,
            counted: BOOLEAN]

LimitInit ==
  /\ counter = [k \in Scopes |-> 0]
  /\ ttl = [k \in Scopes |-> 0]
  /\ redisUp = FALSE
  /\ request = [r \in Requests |-> Idling]
  /\ recent = [k \in Scopes |-> [n \in Ticks |-> 0]]
  /\ restarts = [n \in Ticks |-> 0]

\* Mutant: a mutation goes on without a count, as a read does.
FailsOpen(scope) == scope \in Scopes
\* ratePolicy: only the general scope is not failClosed.
FailOpen(scope) == scope = "general"

\* The request goes on to its handler, or is answered: 429, 503.
Goes(r, step, scope, counted) ==
  request' = [request EXCEPT ![r] = [step |-> step, scope |-> scope, counted |-> counted]]
Answer(r) == request' = [request EXCEPT ![r] = Idling]
\* The catch of the hook.
Degrade(r, scope) ==
  IF FailOpen(scope) THEN Goes(r, "admitted", scope, request[r].counted) ELSE Answer(r)

Waiting(r) == request[r].step \in {"consuming", "resending"}
-----------------------------------------------------------------------------
\* A request with a policy; consume() throws at once without a ready client.
Arrive(r, scope) ==
  /\ request[r].step = "idle"
  /\ IF redisUp THEN Goes(r, "consuming", scope, FALSE) ELSE Degrade(r, scope)
  /\ UNCHANGED <<counter, ttl, redisUp, restarts, recent>>

\* Mutant: the window starts again with each request.
TtlFromNow(k) == Window
\* PEXPIRE only when INCR made the key.
TtlAfterIncrement(k) == IF counter[k] = 0 THEN Window ELSE ttl[k]

Increment(r) ==
  LET k == request[r].scope IN
  /\ counter' = [counter EXCEPT ![k] = IF @ > Limit[k] THEN @ ELSE @ + 1]
  /\ ttl' = [ttl EXCEPT ![k] = TtlAfterIncrement(k)]

\* Mutant: the comparison is off by one.
AllowedOneMore(k, count) == count <= Limit[k] + 1
\* createRateLimitGuard
Allowed(k, count) == count <= Limit[k]

LetThrough(k) == recent' = [recent EXCEPT ![k] = [n \in Ticks |-> @[n] + 1]]

\* EVAL answers: the request goes on, or is refused with 429.
Consume(r) ==
  /\ redisUp
  /\ Waiting(r)
  /\ Increment(r)
  /\ LET k == request[r].scope IN
     IF Allowed(k, counter'[k])
       THEN /\ Goes(r, "admitted", k, TRUE)
            /\ LetThrough(k)
       ELSE Answer(r) /\ UNCHANGED recent
  /\ UNCHANGED <<redisUp, restarts>>

\* The connection breaks after EVAL, this instance's or another's: ioredis sends
\* the script again on the next one, which may break as well.
ConsumeUnanswered(r) ==
  /\ redisUp
  /\ Waiting(r)
  /\ Increment(r)
  /\ Goes(r, "resending", request[r].scope, TRUE)
  /\ redisUp' \in BOOLEAN
  /\ UNCHANGED <<restarts, recent>>

\* EVAL fails: maxRetriesPerRequest is reached or the client is closed.
ConsumeFails(r) ==
  /\ Waiting(r)
  /\ Degrade(r, request[r].scope)
  /\ UNCHANGED <<counter, ttl, redisUp, restarts, recent>>

\* The handler answers.
Respond(r) ==
  /\ request[r].step = "admitted"
  /\ Answer(r)
  /\ UNCHANGED <<counter, ttl, redisUp, restarts, recent>>

RedisReady ==
  /\ ~redisUp
  /\ redisUp' = TRUE
  /\ UNCHANGED <<counter, ttl, request, restarts, recent>>

\* The connection breaks; the counters are kept.
RedisLost ==
  /\ redisUp
  /\ redisUp' = FALSE
  /\ UNCHANGED <<counter, ttl, request, restarts, recent>>

\* Redis restarts and loses its counters; the client is not ready.
RedisRestarts ==
  /\ restarts[Window - 1] < MaxRestarts
  /\ restarts' = [n \in Ticks |-> restarts[n] + 1]
  /\ redisUp' = FALSE
  /\ counter' = [k \in Scopes |-> 0]
  /\ ttl' = [k \in Scopes |-> 0]
  /\ UNCHANGED <<request, recent>>

\* What happened in this tick and the n - 1 before is a tick further back.
Shifted(history) == [n \in Ticks |-> IF n = 0 THEN 0 ELSE history[n - 1]]

LimitTick ==
  /\ ttl' = [k \in Scopes |-> IF ttl[k] = 0 THEN 0 ELSE ttl[k] - 1]
  /\ counter' = [k \in Scopes |-> IF ttl[k] <= 1 THEN 0 ELSE counter[k]]
  /\ recent' = [k \in Scopes |-> Shifted(recent[k])]
  /\ restarts' = Shifted(restarts)
  /\ UNCHANGED <<redisUp, request>>

Settle(r) == Consume(r) \/ ConsumeFails(r) \/ Respond(r)

LimitNext ==
  \/ \E r \in Requests :
       \/ \E scope \in Scopes : Arrive(r, scope)
       \/ Settle(r)
       \/ ConsumeUnanswered(r)
  \/ RedisReady \/ RedisLost \/ RedisRestarts \/ LimitTick

LimitSpec == LimitInit /\ [][LimitNext]_limitVars
-----------------------------------------------------------------------------

\* In an interval as long as the window.
ThroughWithin(k) == recent[k][Window - 1]
RestartsWithin == restarts[Window - 1]

\* docs/security.md:19, "requisições concorrentes não conseguem ultrapassar o
\* limite": whatever instances, resent scripts and lost answers, an interval as
\* long as the window lets fewer requests through than the limits of the two fixed
\* windows it may touch, as the one that began the first of two came before it.
\* Redis forgets its counters when it restarts: each restart in that interval,
\* but none before it, makes room for one more window.
BurstIsBounded ==
  \A k \in Scopes : ThroughWithin(k) < (2 + RestartsWithin) * Limit[k]

\* docs/security.md:30, "Operações que alteram estado falham fechadas": a
\* mutation reaches its handler only if Redis counted it.
MutationsAreCounted ==
  \A r \in Requests :
    request[r].step = "admitted" /\ request[r].scope # "general" => request[r].counted

\* A client that is refused is served again some time later, even if it keeps
\* asking: the counter always starts anew.
LimitedIsTemporary == \A k \in Scopes : counter[k] > Limit[k] ~> counter[k] = 0
=============================================================================
