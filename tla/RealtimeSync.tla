----------------------------- MODULE RealtimeSync -----------------------------
(***************************************************************************)
(* The browser (MatchClient) and its connection to the API (RealtimeJoin). *)
(* `sent` is now the channel: what the server emitted and the browser has  *)
(* not handled, in order.  A synchronization and the match:join it sends   *)
(* share a name.  A reconnection is a new socket for the server: what the  *)
(* handlers of the old one still do reaches nobody and is left out.  The   *)
(* browser never sends lastSequence (match-socket.ts line 38).             *)
(***************************************************************************)
EXTENDS Integers, Sequences

CONSTANTS Joins, MaxSequence, MaxReplay, MaxProjection, MaxCopies, Unrecorded,
          Malformed, NoCursor, None

ASSUME SyncAssumption ==
  /\ MaxSequence \in Nat /\ MaxReplay \in Nat /\ MaxProjection \in Nat
  /\ MaxCopies \in Nat
  /\ NoCursor \notin Nat /\ Malformed \notin Nat /\ NoCursor # Malformed
  /\ None \notin Joins

VARIABLES
  latest, emitted, session, connection, room, handler, sent, told,
  phase, cursor, applied, named, onLine, noticed, transport, checking, syncs, ref

Server == INSTANCE RealtimeJoin WITH Overlapping <- TRUE
Client == INSTANCE MatchClient WITH Syncs <- Joins

facts == <<latest, emitted, session>>
serverVars == <<facts, connection, room, handler, sent, told>>
clientVars == <<phase, cursor, applied, named, onLine, noticed, transport, checking, syncs, ref>>
vars == <<serverVars, clientVars>>

Init == Server!Init /\ Client!ClientInit

\* A handler that no live request uses.
Unused(j) == Client!Free(j) /\ ~Server!Running(j)

\* The browser's synchronize emits match:join, if it starts anything.
Ask(j) ==
  IF connection = "open" /\ ref' # ref
  THEN /\ ~Server!Running(j)
       /\ handler' = [handler EXCEPT ![j] =
                        [step |-> "authenticating", cursor |-> NoCursor, current |-> 0]]
  ELSE UNCHANGED handler

\* A socket of its own for the server: nothing sent, nobody in a room, and the
\* handlers of the socket before it, whatever they still do, reach nobody.
FreshSocket ==
  /\ room' = FALSE
  /\ sent' = <<>>
  /\ told' = NoCursor

\* The browser is done with the connection; what was under way is lost.
Abandon ==
  /\ connection' = IF connection = "open" THEN "lost" ELSE connection
  /\ handler' = [j \in Joins |-> [step |-> "none", cursor |-> NoCursor, current |-> 0]]
  /\ FreshSocket
  /\ UNCHANGED facts

Connect == Client!Connect /\ Abandon

\* The handshake resolves the session; the server has a fresh socket.
Opened(j) ==
  /\ session = "valid"
  /\ Client!Opened(j)
  /\ connection' = "open"
  /\ FreshSocket
  /\ handler' = [i \in Joins |->
       [step |-> IF i = j THEN "authenticating" ELSE "none", cursor |-> NoCursor, current |-> 0]]
  /\ UNCHANGED facts

Disconnected ==
  /\ connection # "open"
  /\ Client!Disconnected(connection = "ended")
  /\ Abandon

Offline ==
  /\ Client!Offline
  /\ IF transport = "open" THEN Abandon ELSE UNCHANGED serverVars

\* Steps of the browser that do not touch the connection.
ClientStep ==
  /\ \/ Client!SessionChecked \/ Client!SessionMissing
     \/ Client!ConnectFails(TRUE) \/ Client!ConnectFails(FALSE)
     \/ Client!GoOffline \/ Client!Online
     \/ \E j \in Joins : Client!Timeout(j) \/ Client!Settle(j)
  /\ UNCHANGED serverVars

\* The next message of the channel is handled.
Receive ==
  /\ transport = "open"
  /\ sent # <<>>
  /\ sent' = Tail(sent)
  /\ UNCHANGED <<facts, connection, room, told>>
  /\ LET m == Head(sent) IN
     \/ /\ m.kind = "event"
        /\ \E j \in Joins : Client!OnEvent(m.sequence, j) /\ Ask(j)
     \/ m.kind = "snapshot" /\ Client!OnSnapshot(m) /\ UNCHANGED handler
     \/ m.kind = "answer" /\ Client!OnAnswer(m.join, m.sync) /\ UNCHANGED handler
     \/ m.kind = "refusal" /\ Client!OnAnswer(m.join, "refused") /\ UNCHANGED handler
     \/ m.kind = "error" /\ Client!OnSystemError /\ UNCHANGED handler

ServerStep ==
  /\ \/ Server!CommitAction
     \/ \E n \in 1 .. MaxSequence : Server!EmitLocal(n)
     \/ \E j \in Joins : Server!Handle(j)
     \/ Server!Drop
     \/ Server!Revoke
  /\ UNCHANGED clientVars

Next == Connect \/ (\E j \in Joins : Unused(j) /\ Opened(j)) \/ Disconnected \/ Offline
        \/ ClientStep \/ Receive \/ ServerStep

Spec == Init /\ [][Next]_vars

\* Timers fire, promises continue, what was emitted arrives, handlers go on,
\* and every published event reaches this API.
Fairness ==
  /\ WF_vars(Disconnected) /\ WF_vars(Offline) /\ WF_vars(Receive)
  /\ WF_vars((\E j \in Joins : Client!Timeout(j) \/ Client!Settle(j)) /\ UNCHANGED serverVars)
  /\ WF_vars((\E j \in Joins : Server!Handle(j)) /\ UNCHANGED clientVars)
  /\ WF_vars((\E n \in 1 .. MaxSequence : emitted[n] = 0 /\ Server!EmitLocal(n))
               /\ UNCHANGED clientVars)

FairSpec == Spec /\ Fairness
-----------------------------------------------------------------------------
\* The scoreboard of a ready client shows every event up to its cursor and no
\* other, whatever snapshots, duplicates, gaps and reconnections it went through.
ReadyShowsAPrefix ==
  phase = "ready" => cursor <= latest /\ applied = (1 .. cursor) \ Unrecorded

\* A ready client on a live connection is in the match's room.
ReadyClientIsListening ==
  phase = "ready" /\ transport = "open" /\ connection = "open" => room

\* Only choosing a match anew takes the scoreboard back.
CursorNeverGoesBack ==
  [][cursor' >= cursor \/ (cursor' = 0 /\ phase' # "ready")]_vars

\* An open connection leads to ready or to an error that is shown; the browser
\* never waits on it for ever.
EveryConnectionSettles ==
  []<>(phase \in {"ready", "error", "offline"} \/ transport # "open")

\* A ready client that is handed an event comes to show it, by applying it or
\* by the snapshot that closes the gap before it, unless the synchronization fails.
EventsHandedAreShown ==
  \A n \in 1 .. MaxSequence :
    (phase = "ready" /\ sent # <<>> /\ Head(sent) = Server!Event(n))
      ~> (cursor >= n \/ phase \notin {"ready", "reconciling"})

\* connected-arena.tsx, "O placar será atualizado pelo evento ao vivo": a client
\* that stays ready comes to show all that was committed.
ReadyClientCatchesUp ==
  <>[](phase = "ready" /\ transport = "open" /\ connection = "open")
    => <>(phase = "ready" /\ cursor = latest)
=============================================================================
