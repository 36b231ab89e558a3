------------------------------ MODULE ApiProcess ------------------------------
(***************************************************************************)
(* The API process: startApi (apps/api/src/main.ts) and                    *)
(* createApiApplication (app.ts), its dependencies and their shutdown      *)
(* (platform/dependencies.ts, dependency-lifecycle.ts), the realtime Redis *)
(* runtime with its three clients (platform/realtime/redis-runtime.ts),    *)
(* the requests that pass the rate limit (RateLimit) and the object        *)
(* storage they use (ObjectStorage).                                       *)
(*                                                                         *)
(* Nest registers its signal handlers before anything is started and       *)
(* ignores all signals but the first.  It closes Fastify, which stops      *)
(* accepting, waits for the requests and connections there are, upgraded   *)
(* ones included, and runs the onClose hooks; then it calls                *)
(* onApplicationShutdown.  A Socket.IO socket keeps for good the adapter   *)
(* its namespace has when it connects.                                     *)
(***************************************************************************)
EXTENDS RateLimit, ObjectStorage, Sequences

CONSTANTS
  Sockets,      \* sockets of clients that connect to this process
  MaxAdapters   \* bound on the adapters that are created

ASSUME ApiAssumption == MaxAdapters \in Nat \ {0}

VARIABLES
  stage,        \* how far the start is
  closing,      \* how far the shutdown is
  tasks,        \* shutdownTasks
  toClose,      \* what dependencies.close() has yet to close, in order
  open,         \* what is open
  ready,        \* the realtime clients whose status is "ready"
  adapter,      \* the namespace's adapter: 0 is in memory, n the nth of Redis
  activating,   \* is there an `activation`, waiting for SUBSCRIBE?
  subscribed,
  refused,      \* history: was SUBSCRIBE refused since the last activate()?
  attached,     \* the adapter of each connected socket
  probe,        \* GET /ready: the number of the ping it awaits, 0 without a probe
  answeredReady \* history: has a probe been answered with 200?

bootVars == <<stage, closing, tasks, toClose, open>>
realtimeVars == <<ready, adapter, activating, subscribed, refused, attached>>
probeVars == <<probe, answeredReady>>
apiVars == <<limitVars, storageVars, bootVars, realtimeVars, probeVars>>

Clients == {"publisher", "adapterSubscriber", "eventSubscriber"}
PingOrder == <<"publisher", "adapterSubscriber", "eventSubscriber">>
Unconnected == MaxAdapters + 1   \* no adapter

\* What registerHttpSecurity registers before rateLimit.start(), its first await.
FirstTasks == <<"rateLimit">>

\* createApiDependencies and that part of registerHttpSecurity.
ApiInit ==
  /\ LimitInit
  /\ StorageInit
  /\ stage = "limiting"
  /\ closing = "none"
  /\ tasks = FirstTasks
  /\ toClose = <<>>
  /\ open = {"rateLimit", "storage", "database"}
  /\ ready = {}
  /\ adapter = 0
  /\ activating = FALSE
  /\ subscribed = FALSE
  /\ refused = FALSE
  /\ attached = [s \in Sockets |-> Unconnected]
  /\ probe = 0
  /\ answeredReady = FALSE

Serving == stage = "listening" /\ closing = "none"
Connected(s) == attached[s] # Unconnected
NoRequests == \A r \in Requests : request[r] = Idling
NoConnections == probe = 0 /\ \A s \in Sockets : ~Connected(s)
Ended == closing \in {"done", "expired"}
Closed == closing \in {"dependencies", "done", "expired"}   \* closePromise is set
Live == "socket" \in open   \* the realtime runtime is neither new nor closing

Reversed(list) == [i \in 1 .. Len(list) |-> list[Len(list) + 1 - i]]

\* dependencies.close(): the tasks last to first, then storage and database.
BeginDependencies ==
  /\ closing' = "dependencies"
  /\ toClose' = Reversed(tasks) \o <<"storage", "database">>

\* Mutant: each activation attaches an adapter.
AttachAgain == adapter < MaxAdapters
\* `adapterAttached` keeps the first one.
Attach == adapter = 0

\* activate(), as far as it can tell from the clients it is given.
Activate(clients) ==
  /\ refused' = FALSE
  /\ IF Live /\ clients = Clients /\ ~activating
       THEN /\ adapter' = IF Attach THEN adapter + 1 ELSE adapter
            /\ activating' = ~subscribed
       ELSE UNCHANGED <<adapter, activating>>
-----------------------------------------------------------------------------
\* registerShutdown(() => socket.close()), followed by socket.start(), unless
\* the dependencies are being closed: then the start fails.
RegisterShutdown(task) ==
  IF Closed
    THEN stage' = "failed" /\ UNCHANGED <<tasks, open>>
    ELSE /\ tasks' = Append(tasks, task)
         /\ open' = open \cup {task}
         /\ stage' = "attaching"

\* rateLimit.start() is over, with Redis or without; registerAuthRuntime.
AttachRuntime ==
  /\ stage = "limiting"
  /\ RegisterShutdown("socket")
  /\ UNCHANGED <<closing, toClose, limitVars, storageVars, realtimeVars, probeVars>>

\* The clients connected or STARTUP_GRACE_MS is over; activate(); the rest of
\* createApiApplication.
SocketStarted ==
  /\ stage = "attaching"
  /\ stage' = "binding"
  /\ Activate(ready)
  /\ UNCHANGED <<closing, tasks, toClose, open, limitVars, storageVars, probeVars>>
  /\ UNCHANGED <<ready, subscribed, attached>>

\* application.listen(): Fastify refuses once it is closed.
Listen ==
  /\ stage = "binding"
  /\ stage' = IF closing = "none" THEN "listening" ELSE "failed"
  /\ UNCHANGED <<closing, tasks, toClose, open, limitVars, storageVars, realtimeVars, probeVars>>

\* createApiApplication throws: dependencies.close() in its catch.
CreationFails ==
  /\ stage \in {"limiting", "attaching"}
  /\ stage' = "failed"
  /\ IF Closed THEN UNCHANGED <<closing, toClose>> ELSE BeginDependencies
  /\ UNCHANGED <<tasks, open, limitVars, storageVars, realtimeVars, probeVars>>

\* listen() fails: application.close() in startApi's catch.
BindFails ==
  /\ stage = "binding"
  /\ stage' = "failed"
  /\ closing' = IF closing = "none" THEN "disposing" ELSE closing
  /\ UNCHANGED <<tasks, toClose, open, limitVars, storageVars, realtimeVars, probeVars>>

\* The first SIGINT or SIGTERM, at any time.
Signal ==
  /\ closing = "none"
  /\ stage # "failed"
  /\ closing' = "disposing"
  /\ UNCHANGED <<stage, tasks, toClose, open, limitVars, storageVars, realtimeVars, probeVars>>

\* Mutant: connections are not waited for.
DisposeAtOnce ==
  /\ closing = "disposing"
  /\ closing' = "flushing"
  /\ UNCHANGED <<stage, tasks, toClose, open, limitVars, storageVars, realtimeVars, probeVars>>
\* Mutant: the start is waited for, which may already have failed.
DisposeOnceStarted ==
  /\ closing = "disposing"
  /\ stage = "listening"
  /\ NoRequests
  /\ NoConnections
  /\ closing' = "flushing"
  /\ UNCHANGED <<stage, tasks, toClose, open, limitVars, storageVars, realtimeVars, probeVars>>
\* fastify.close() is over, up to the onClose hooks.
Dispose ==
  /\ closing = "disposing"
  /\ NoRequests
  /\ NoConnections
  /\ closing' = "flushing"
  /\ UNCHANGED <<stage, tasks, toClose, open, limitVars, storageVars, realtimeVars, probeVars>>

\* The onClose hook has shut telemetry down, or given up within
\* SHUTDOWN_TIMEOUT_MS; onApplicationShutdown.
Flush ==
  /\ closing = "flushing"
  /\ BeginDependencies
  /\ UNCHANGED <<stage, tasks, open, limitVars, storageVars, realtimeVars, probeVars>>

\* The realtime runtime's close(): the sockets, then UNSUBSCRIBE and QUIT.
CloseSocket ==
  /\ attached' = [s \in Sockets |-> Unconnected]
  /\ ready' = {}
  /\ activating' = FALSE
  /\ UNCHANGED <<adapter, subscribed, refused>>

\* The next of the dependencies is closed, or fails to: the loop goes on.
CloseNext ==
  /\ closing = "dependencies" \/ (closing = "expired" /\ stage = "failed")
  /\ toClose # <<>>
  /\ toClose' = Tail(toClose)
  /\ open' = open \ {Head(toClose)}
  /\ CASE Head(toClose) = "socket" -> CloseSocket /\ UNCHANGED <<limitVars, storageVars>>
       [] Head(toClose) = "storage" -> Destroy /\ UNCHANGED <<limitVars, realtimeVars>>
       [] OTHER -> UNCHANGED <<limitVars, storageVars, realtimeVars>>
  /\ UNCHANGED <<stage, closing, tasks, probeVars>>

\* Everything is closed, and the process ends.
Finish ==
  /\ closing = "dependencies"
  /\ toClose = <<>>
  /\ closing' = "done"
  /\ UNCHANGED <<stage, tasks, toClose, open, limitVars, storageVars, realtimeVars, probeVars>>

\* SHUTDOWN_TIMEOUT_MS is over for dependencies.close(), which rejects.  Nest then
\* exits the process; a start that failed only sets its exit code, and what has
\* yet to be closed goes on being closed.
Expire ==
  /\ closing = "dependencies"
  /\ closing' = "expired"
  /\ UNCHANGED <<stage, tasks, toClose, open, limitVars, storageVars, realtimeVars, probeVars>>

Boot == AttachRuntime \/ SocketStarted \/ Listen
Shutdown == Dispose \/ Flush \/ CloseNext \/ Finish
-----------------------------------------------------------------------------
\* Mutant: only start() activates.
ReadyWithoutActivation(clients) == UNCHANGED <<adapter, activating, refused>>
\* The "ready" handler of each client.
OnReady(clients) == Activate(clients)

\* ioredis connects a client, for the first time or again.
ClientReady(c) ==
  /\ Live
  /\ c \notin ready
  /\ ready' = ready \cup {c}
  /\ OnReady(ready')
  /\ UNCHANGED <<subscribed, attached, probeVars, bootVars, limitVars, storageVars>>

\* The connection is lost; ioredis keeps the SUBSCRIBE and tries again.
ClientLost(c) ==
  /\ c \in ready
  /\ ready' = ready \ {c}
  /\ UNCHANGED <<adapter, activating, subscribed, refused, attached, probeVars, bootVars, limitVars, storageVars>>

Subscribe ==
  /\ activating
  /\ "eventSubscriber" \in ready
  /\ subscribed' = TRUE
  /\ activating' = FALSE
  /\ UNCHANGED <<ready, adapter, refused, attached, probeVars, bootVars, limitVars, storageVars>>

\* Redis answers SUBSCRIBE with an error: the activation is over, and only the
\* next activate() tries again.
SubscribeFails ==
  /\ activating
  /\ "eventSubscriber" \in ready
  /\ activating' = FALSE
  /\ refused' = TRUE
  /\ UNCHANGED <<ready, adapter, subscribed, attached, probeVars, bootVars, limitVars, storageVars>>

SocketConnects(s) ==
  /\ Serving
  /\ ~Connected(s)
  /\ attached' = [attached EXCEPT ![s] = adapter]
  /\ UNCHANGED <<ready, adapter, activating, subscribed, refused, probeVars, bootVars, limitVars, storageVars>>

SocketLeaves(s) ==
  /\ Connected(s)
  /\ attached' = [attached EXCEPT ![s] = Unconnected]
  /\ UNCHANGED <<ready, adapter, activating, subscribed, refused, probeVars, bootVars, limitVars, storageVars>>

\* Mutant: only the pings count.
RegisteredAnyway == Live
\* What checkConnection() looks at before it pings.
Registered == adapter # 0 /\ subscribed

\* GET /ready: checkReadiness(), whose pings of the realtime clients follow each
\* other.  If nothing is registered the answer is 503 at once.
ProbeArrives ==
  /\ Serving
  /\ probe = 0
  /\ Registered
  /\ probe' = 1
  /\ UNCHANGED <<answeredReady, bootVars, realtimeVars, limitVars, storageVars>>

\* A ready client answers; after the last one the probe is answered with 200.
Ping ==
  /\ probe # 0
  /\ PingOrder[probe] \in ready
  /\ probe' = (probe + 1) % (Len(PingOrder) + 1)
  /\ answeredReady' = (answeredReady \/ probe' = 0)
  /\ UNCHANGED <<bootVars, realtimeVars, limitVars, storageVars>>

\* A check fails and the answer is 503, or the prober gives up waiting for a
\* ping that is queued until its client is ready.
ProbeFails ==
  /\ probe # 0
  /\ probe' = 0
  /\ UNCHANGED <<answeredReady, bootVars, realtimeVars, limitVars, storageVars>>

Realtime ==
  \/ ProbeArrives \/ Ping \/ ProbeFails
  \/ \E c \in Clients : ClientReady(c) \/ ClientLost(c)
  \/ Subscribe \/ SubscribeFails
  \/ \E s \in Sockets : SocketConnects(s) \/ SocketLeaves(s)

\* Requests arrive while Fastify accepts and go on until they are answered.
Handle(r) ==
  /\ \/ Serving /\ \E scope \in Scopes : Arrive(r, scope)
     \/ ~Ended /\ (Settle(r) \/ ConsumeUnanswered(r))
  /\ UNCHANGED <<bootVars, realtimeVars, probeVars, storageVars>>

RedisStep ==
  /\ RedisReady \/ RedisLost \/ RedisRestarts \/ LimitTick
  /\ UNCHANGED <<bootVars, realtimeVars, probeVars, storageVars>>

\* The bucket outlives the process.
StorageUse ==
  /\ \E c \in Callers : StorageStep(c)
  /\ UNCHANGED <<bootVars, realtimeVars, probeVars, limitVars>>

ApiNext ==
  \/ Boot \/ CreationFails \/ BindFails \/ Signal \/ Shutdown \/ Expire
  \/ Realtime \/ (\E r \in Requests : Handle(r)) \/ RedisStep \/ StorageUse

ApiSpec == ApiInit /\ [][ApiNext]_apiVars

\* The start and the shutdown go on, requests are answered, time passes, and a
\* SUBSCRIBE on a connection that stays is answered, be it with an error.  Clients need not leave,
\* nor Redis be there.
ApiFairness ==
  /\ WF_apiVars(Boot)
  /\ WF_apiVars(Shutdown)
  /\ WF_apiVars(Subscribe \/ SubscribeFails)
  /\ \A r \in Requests : WF_request(Settle(r))
  /\ WF_ttl(LimitTick)
-----------------------------------------------------------------------------

\* No request and no socket is served with its database closed.
DatabaseClosesLast ==
  "database" \notin open =>
    /\ open = {}
    /\ NoRequests
    /\ NoConnections

\* Redis may come up at any time after the start: then the instance attaches
\* its adapter and subscribes, unless Redis goes away again, refuses the
\* SUBSCRIBE since its clients were last ready, or a shutdown comes.
ActivationFollowsRedis ==
  Live /\ ready = Clients /\ stage # "failed" ~>
    (adapter > 0 /\ subscribed) \/ ready # Clients \/ refused \/ closing # "none"

\* A balancer sends clients to an instance that has answered ready.  Those
\* sockets, and all that ever joined a room of the Redis adapter, are in the rooms
\* that events are emitted to, however the Redis clients come and go.
TrafficAfterReadinessIsShared ==
  [][\A s \in Sockets : answeredReady /\ Connected(s)' /\ attached[s] # 0
       => attached'[s] = adapter' /\ adapter' # 0]_apiVars

\* A shutdown ends, in order or by its timeout, unless a client stays connected.
ShutdownEndsWithoutClients ==
  closing # "none" ~> Ended \/ ~NoConnections

\* docs/observability.md:41, "exceder esse limite produz falha explícita de
\* shutdown em vez de manter o processo indefinidamente aberto".
ShutdownEnds == closing # "none" ~> Ended
=============================================================================
