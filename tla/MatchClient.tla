------------------------------ MODULE MatchClient ------------------------------
(***************************************************************************)
(* The browser's side of a match: ConnectedArena                           *)
(* (apps/web/src/components/connected-arena.tsx), its reducers             *)
(* (lib/connection-state.ts, contracts reconcileRealtimeEvent) and         *)
(* requestAuthoritativeSnapshot (lib/match-socket.ts).  One match; the     *)
(* server, the channel and the browser's network are the environment, so   *)
(* the actions take what arrives as parameters (RealtimeSync).             *)
(*                                                                         *)
(* synchronizationVersionRef only tells the latest synchronization from    *)
(* the outdated ones: syncs[s].current.  The projection is the set of the  *)
(* events in it; recentEventIds never holds an event after latestSequence  *)
(* and so decides nothing.                                                 *)
(***************************************************************************)
EXTENDS Integers, FiniteSets

CONSTANTS
  Syncs,  \* bound: synchronizations whose promise is not yet consumed
  None

VARIABLES
  phase,      \* MatchConnectionState.phase
  cursor,     \* cursor.latestSequence
  applied,    \* the events in the projection
  named,      \* is MatchConnectionState.matchId set?
  onLine,     \* navigator.onLine
  noticed,    \* was the "offline" event handled?
  transport,  \* the Socket: "none", "opening", "open" or "closed"
  checking,   \* the attempt awaits getSession
  syncs,      \* the promises of requestAuthoritativeSnapshot
  ref         \* synchronizationRef

shown == <<phase, cursor, applied, named>>
network == <<onLine, noticed, transport, checking>>
pending == <<syncs, ref>>
clientVars == <<shown, network, pending>>

Phases == {"idle", "connecting", "reconciling", "ready", "offline", "error"}

\* "deaf": the socket it listens on was replaced, only the timer is left.
NoSync == [status |-> "none", acked |-> FALSE, snapshot |-> None, current |-> FALSE]
NewSync == [status |-> "waiting", acked |-> FALSE, snapshot |-> None, current |-> TRUE]

ClientInit ==
  /\ phase = "idle" /\ cursor = 0 /\ applied = {} /\ named = FALSE
  /\ onLine = TRUE /\ noticed = FALSE
  /\ transport = "none" /\ checking = FALSE
  /\ syncs = [s \in Syncs |-> NoSync]
  /\ ref = None

Free(s) == syncs[s].status = "none"

\* Mutant: the reference to the outdated synchronization is kept.
OutdateKeepingReference ==
  /\ syncs' = [s \in Syncs |-> [syncs[s] EXCEPT !.current = FALSE]]
  /\ UNCHANGED ref
\* synchronizationVersionRef.current += 1; synchronizationRef.current = undefined
Outdate ==
  /\ syncs' = [s \in Syncs |-> [syncs[s] EXCEPT !.current = FALSE]]
  /\ ref' = None

Show(to) == phase' = to /\ UNCHANGED <<cursor, applied, named>>

\* synchronize: s becomes the running synchronization unless there is one.
Starts == ref = None
Synchronize(s) ==
  IF ref # None THEN UNCHANGED pending
  ELSE /\ Free(s)
       /\ syncs' = [syncs EXCEPT ![s] = NewSync]
       /\ ref' = s

\* What reconcileRealtimeEvent makes of an event.
\* Mutant: duplicates are applied again.
AppliesDuplicates(n) == IF n > cursor + 1 THEN "gap" ELSE "apply"
\* Mutant: gaps are skipped over.
AppliesAcrossGaps(n) == IF n <= cursor THEN "duplicate" ELSE "apply"
\* Mutant: what is not the next event is ignored.
IgnoresGaps(n) == IF n # cursor + 1 THEN "duplicate" ELSE "apply"
Decision(n) ==
  IF n <= cursor THEN "duplicate" ELSE IF n # cursor + 1 THEN "gap" ELSE "apply"
-----------------------------------------------------------------------------
\* The user submits a match: connect, up to getSession.
Connect ==
  /\ phase' = IF onLine THEN "connecting" ELSE "offline"
  /\ cursor' = 0 /\ applied' = {} /\ named' = TRUE
  /\ checking' = onLine
  /\ transport' = "none"
  /\ syncs' = [s \in Syncs |->
       [syncs[s] EXCEPT !.current = FALSE, !.status = IF @ = "waiting" THEN "deaf" ELSE @]]
  /\ ref' = None
  /\ UNCHANGED <<onLine, noticed>>

SessionChecked ==
  /\ checking
  /\ checking' = FALSE
  /\ transport' = "opening"
  /\ UNCHANGED <<shown, onLine, noticed, pending>>

SessionMissing ==
  /\ checking
  /\ checking' = FALSE
  /\ Show("error")
  /\ UNCHANGED <<onLine, noticed, transport, pending>>

\* The socket's "connect" event: synchronize.
Opened(s) ==
  /\ transport = "opening"
  /\ onLine
  /\ transport' = "open"
  /\ Synchronize(s)
  /\ phase' = IF Starts THEN "reconciling" ELSE phase
  /\ named' = (Starts \/ named)
  /\ UNCHANGED <<cursor, applied, onLine, noticed, checking>>

\* "connect_error": socket.io tries again, unless the server denied the session.
ConnectFails(denied) ==
  /\ transport = "opening"
  /\ transport' = IF denied THEN "closed" ELSE "opening"
  /\ Outdate
  /\ Show("error")
  /\ UNCHANGED <<onLine, noticed, checking>>

\* "disconnect": socket.io reconnects unless the server ended the connection.
Disconnected(ended) ==
  /\ transport = "open"
  /\ transport' = IF ended THEN "closed" ELSE "opening"
  /\ Outdate
  /\ Show(IF onLine THEN "connecting" ELSE "offline")
  /\ UNCHANGED <<onLine, noticed, checking>>

\* navigator.onLine turns false; its event is still to come.
GoOffline ==
  /\ onLine
  /\ onLine' = FALSE
  /\ noticed' = FALSE
  /\ UNCHANGED <<shown, transport, checking, pending>>

\* "offline": engine.io closes an open socket first, then onOffline runs.
Offline ==
  /\ ~onLine /\ ~noticed
  /\ noticed' = TRUE
  /\ transport' = IF transport = "open" THEN "opening" ELSE transport
  /\ Outdate
  /\ Show("offline")
  /\ UNCHANGED <<onLine, checking>>

\* "online", handled before any connection can come up again.
Online ==
  /\ ~onLine /\ noticed
  /\ onLine' = TRUE
  /\ noticed' = FALSE
  /\ IF named /\ transport # "none"
     THEN /\ Show("connecting")
          /\ transport' = "opening"
     ELSE /\ phase' = "idle" /\ cursor' = 0 /\ applied' = {} /\ named' = FALSE
          /\ UNCHANGED transport
  /\ UNCHANGED <<checking, pending>>

\* match:event.v1
OnEvent(n, s) ==
  LET decision == IF phase = "ready" THEN Decision(n) ELSE "ignore" IN
  /\ \/ decision \in {"ignore", "duplicate"} /\ UNCHANGED <<shown, pending>>
     \/ /\ decision = "apply"
        /\ cursor' = n /\ applied' = applied \cup {n}
        /\ UNCHANGED <<phase, named, pending>>
     \/ decision = "gap" /\ Show("reconciling") /\ Synchronize(s)
  /\ UNCHANGED network

\* match:snapshot.v1 reaches every synchronization that listens.
OnSnapshot(snapshot) ==
  /\ syncs' = [s \in Syncs |->
       IF syncs[s].status = "waiting"
       THEN [syncs[s] EXCEPT !.snapshot = snapshot,
                             !.status = IF syncs[s].acked THEN "resolved" ELSE "waiting"]
       ELSE syncs[s]]
  /\ UNCHANGED <<shown, network, ref>>

\* The acknowledgement of s; only a snapshot will do.
OnAnswer(s, how) ==
  /\ syncs' = IF syncs[s].status # "waiting" THEN syncs
              ELSE IF how # "snapshot" THEN [syncs EXCEPT ![s].status = "rejected"]
              ELSE [syncs EXCEPT ![s].acked = TRUE,
                      ![s].status = IF syncs[s].snapshot # None THEN "resolved" ELSE "waiting"]
  /\ UNCHANGED <<shown, network, ref>>

\* system:error.v1
OnSystemError ==
  /\ syncs' = [s \in Syncs |->
       [syncs[s] EXCEPT !.status = IF @ = "waiting" THEN "rejected" ELSE @]]
  /\ UNCHANGED <<shown, network, ref>>

Timeout(s) ==
  /\ syncs[s].status \in {"waiting", "deaf"}
  /\ syncs' = [syncs EXCEPT ![s].status = "rejected"]
  /\ UNCHANGED <<shown, network, ref>>

\* acceptSnapshot
Accept(snapshot) ==
  IF phase = "reconciling"
  THEN /\ phase' = "ready"
       /\ cursor' = snapshot.sequence /\ applied' = snapshot.projection /\ named' = TRUE
  ELSE UNCHANGED shown

\* The continuation of the promise: then, or catch, and finally.
Settle(s) ==
  /\ syncs[s].status \in {"resolved", "rejected"}
  /\ syncs' = [syncs EXCEPT ![s] = NoSync]
  /\ ref' = IF ref = s THEN None ELSE ref
  /\ \/ ~syncs[s].current /\ UNCHANGED shown
     \/ /\ syncs[s].current
        /\ \/ syncs[s].status = "rejected" /\ Show("error")
           \/ /\ syncs[s].status = "resolved"
              /\ IF ~onLine THEN Show("offline") ELSE Accept(syncs[s].snapshot)
  /\ UNCHANGED network
=============================================================================
