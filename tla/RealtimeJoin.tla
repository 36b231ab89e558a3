----------------------------- MODULE RealtimeJoin -----------------------------
(***************************************************************************)
(* One Socket.IO connection of the /matches namespace                      *)
(* (apps/api/src/platform/realtime/socket.ts) for one match, while         *)
(* commands number new events and Redis brings the published ones to this  *)
(* API instance, at least once and in any order.  handleJoin gives up the  *)
(* processor at every await, so its steps interleave with all the rest.    *)
(*                                                                         *)
(* An event is its sequence number; a projection is the set of the events  *)
(* folded into it.  Rows of match_sequences are never deleted, so the      *)
(* second MATCH_NOT_FOUND of handleJoin (line 140) cannot be reached.      *)
(***************************************************************************)
EXTENDS Integers, Sequences, FiniteSets, SequencesExt

CONSTANTS
  Joins,          \* invocations of match:join
  MaxSequence,    \* bound: sequences of the match
  MaxReplay,      \* MAX_REPLAY_EVENTS
  MaxProjection,  \* MAX_FOUNDATION_PROJECTION_EVENTS
  MaxCopies,      \* bound: times one event arrives from Redis
  Overlapping,    \* TRUE: the client asks again before it has an answer
  Unrecorded,     \* sequences that were numbered without an outbox message
  Malformed,      \* a payload that is no join request
  NoCursor        \* a request without lastSequence

ASSUME JoinAssumption ==
  /\ MaxSequence \in Nat /\ MaxReplay \in Nat /\ MaxProjection \in Nat
  /\ MaxCopies \in Nat
  /\ Overlapping \in BOOLEAN
  /\ NoCursor \notin Nat /\ Malformed \notin Nat /\ NoCursor # Malformed

VARIABLES
  latest,      \* match_sequences.last_sequence, 0 while there is no row
  emitted,     \* how often emitLocal was called for an event
  session,     \* what resolveIdentity finds: "valid" or "revoked"
  connection,  \* "open", "lost" or "ended" (by socket.disconnect())
  room,        \* is this socket in the match's room?
  handler,     \* the invocations of handleJoin
  sent,        \* what was emitted to the socket, in order
  told         \* latestSequence of the last answer, if that was ok

server == <<session, connection, room, handler, sent, told>>
vars == <<latest, emitted, server>>

Events == 1 .. MaxSequence
Cursors == 0 .. MaxSequence \cup {NoCursor, Malformed}
Steps == {"authenticating", "finding", "joining", "reading", "replaying", "projecting"}

\* What is emitted to the socket.
Event(n) == [kind |-> "event", sequence |-> n]
Snapshot(n, folded) == [kind |-> "snapshot", sequence |-> n, projection |-> folded]
Answer(j, how, n) == [kind |-> "answer", join |-> j, sync |-> how, sequence |-> n]
Refusal(j) == [kind |-> "refusal", join |-> j]
SystemError == [kind |-> "error"]

Init ==
  /\ latest = 0
  /\ emitted = [n \in Events |-> 0]
  /\ session = "valid"
  /\ connection = "open"
  /\ room = FALSE
  /\ handler = [j \in Joins |-> [step |-> "none", cursor |-> NoCursor, current |-> 0]]
  /\ sent = <<>>
  /\ told = NoCursor

Running(j) == handler[j].step \in Steps

\* Sequences with an outbox row.
Recorded == (1 .. latest) \ Unrecorded

\* A closed socket swallows what is emitted to it.
Send(messages) == sent' = IF connection = "open" THEN sent \o messages ELSE sent
Goto(j, step) == handler' = [handler EXCEPT ![j].step = step]
Advance(j, step, n) ==
  handler' = [handler EXCEPT ![j] = [step |-> step, cursor |-> @.cursor, current |-> n]]

Confirm(j, messages, how, n) ==
  /\ Send(Append(messages, Answer(j, how, n)))
  /\ told' = IF connection = "open" THEN n ELSE told
  /\ Goto(j, "done")

Refuse(j, messages) ==
  /\ Send(messages)
  /\ told' = NoCursor
  /\ Goto(j, "done")
-----------------------------------------------------------------------------
\* A command commits the next sequence (IdempotentCommand).
CommitAction ==
  /\ latest < MaxSequence
  /\ latest' = latest + 1
  /\ UNCHANGED <<emitted, server>>

\* The Redis subscriber hands a published event to emitLocal.
EmitLocal(n) ==
  /\ n <= latest
  /\ n \notin Unrecorded
  /\ emitted[n] < MaxCopies
  /\ emitted' = [emitted EXCEPT ![n] = @ + 1]
  /\ IF room THEN Send(<<Event(n)>>) ELSE UNCHANGED sent
  /\ UNCHANGED <<latest, session, connection, room, handler, told>>

\* Mutant: the running synchronization is not looked at.
RequestWithoutWaiting(j, cursor) ==
  /\ ~Running(j)
  /\ connection = "open"
  /\ handler' = [handler EXCEPT ![j] =
                   [step |-> "authenticating", cursor |-> cursor, current |-> 0]]
  /\ UNCHANGED <<latest, emitted, session, connection, room, sent, told>>
\* match:join arrives; browsers wait for the synchronization that is running.
Request(j, cursor) ==
  /\ ~Running(j)
  /\ connection = "open"
  /\ Overlapping \/ \A other \in Joins : ~Running(other)
  /\ handler' = [handler EXCEPT ![j] =
                   [step |-> "authenticating", cursor |-> cursor, current |-> 0]]
  /\ UNCHANGED <<latest, emitted, session, connection, room, sent, told>>

\* The acknowledgement argument is no function (line 93).
RejectEnvelope(j) ==
  /\ handler[j].step = "authenticating"
  /\ handler[j].cursor = Malformed
  /\ Refuse(j, <<SystemError>>)
  /\ UNCHANGED <<latest, emitted, session, connection, room>>

Authenticate(j) ==
  /\ handler[j].step = "authenticating"
  /\ session = "valid"
  /\ UNCHANGED <<latest, emitted, session, connection, room>>
  /\ \/ /\ connection # "open"
        /\ Goto(j, "done")
        /\ UNCHANGED <<sent, told>>
     \/ /\ connection = "open"
        /\ handler[j].cursor = Malformed
        /\ Refuse(j, <<Refusal(j)>>)
     \/ /\ connection = "open"
        /\ handler[j].cursor # Malformed
        /\ Goto(j, "finding")
        /\ UNCHANGED <<sent, told>>

\* The session is gone, or cannot be looked up: answer and disconnect.
Expel(j) ==
  /\ handler[j].step = "authenticating"
  /\ Refuse(j, <<Refusal(j)>>)
  /\ connection' = IF connection = "open" THEN "ended" ELSE connection
  /\ room' = FALSE
  /\ UNCHANGED <<latest, emitted, session>>

\* Mutant: the room is never entered.
FindMatchInRoom(j) ==
  /\ handler[j].step = "finding"
  /\ \/ latest = 0 /\ Refuse(j, <<Refusal(j)>>)
     \/ /\ latest # 0
        /\ Advance(j, "reading", latest)
        /\ UNCHANGED <<sent, told>>
  /\ UNCHANGED <<latest, emitted, session, connection, room>>
\* initialState, read before the room is entered, only shows the match exists.
FindMatch(j) ==
  /\ handler[j].step = "finding"
  /\ \/ latest = 0 /\ Refuse(j, <<Refusal(j)>>)
     \/ /\ latest # 0
        /\ Advance(j, "joining", latest)
        /\ UNCHANGED <<sent, told>>
  /\ UNCHANGED <<latest, emitted, session, connection, room>>

EnterRoom(j) ==
  /\ handler[j].step = "joining"
  /\ room' = (connection = "open")
  /\ Goto(j, "reading")
  /\ UNCHANGED <<latest, emitted, session, connection, sent, told>>

Synchronize(j, n) ==
  LET cursor == handler[j].cursor IN
  \/ cursor = n /\ Confirm(j, <<>>, "current", n)
  \/ /\ cursor # n
     /\ Advance(j, IF cursor # NoCursor /\ cursor < n THEN "replaying" ELSE "projecting", n)
     /\ UNCHANGED <<sent, told>>

\* Mutant: the state read before entering the room is used.
ReadInitialState(j) ==
  /\ handler[j].step = "reading"
  /\ Synchronize(j, handler[j].current)
  /\ UNCHANGED <<latest, emitted, session, connection, room>>
\* currentState, read in the room, and the answer it calls for.
ReadState(j) ==
  /\ handler[j].step = "reading"
  /\ Synchronize(j, latest)
  /\ UNCHANGED <<latest, emitted, session, connection, room>>

\* Rows after the cursor: not too many, without a gap, ending at the state read.
Replays(cursor, n) ==
  /\ {m \in Recorded : m > cursor} = cursor + 1 .. n
  /\ n - cursor <= MaxReplay

ReadReplay(j) ==
  LET cursor == handler[j].cursor
      n == handler[j].current
  IN
  /\ handler[j].step = "replaying"
  /\ \/ /\ Replays(cursor, n)
        /\ Confirm(j, [i \in 1 .. n - cursor |-> Event(cursor + i)], "replay", n)
     \/ ~Replays(cursor, n) /\ Goto(j, "projecting") /\ UNCHANGED <<sent, told>>
  /\ UNCHANGED <<latest, emitted, session, connection, room>>

\* Mutant: every row is folded, the ones after the state read too.
WholeProjection(n) == Recorded
\* The rows up to the state read, though more may be there by now.
Projection(n) == {m \in Recorded : m <= n}

ReadProjection(j) ==
  LET n == handler[j].current IN
  /\ handler[j].step = "projecting"
  /\ Cardinality(Projection(n)) <= MaxProjection
  /\ Confirm(j, <<Snapshot(n, Projection(n))>>, "snapshot", n)
  /\ UNCHANGED <<latest, emitted, session, connection, room>>

\* A query fails, or the projection is too long: leave the room and say so.
Fail(j) ==
  /\ handler[j].step \in Steps \ {"authenticating"}
  /\ Refuse(j, <<Refusal(j), SystemError>>)
  /\ room' = FALSE
  /\ UNCHANGED <<latest, emitted, session, connection>>

Drop ==
  /\ connection = "open"
  /\ connection' = "lost"
  /\ room' = FALSE
  /\ UNCHANGED <<latest, emitted, session, handler, sent, told>>

Revoke ==
  /\ session = "valid"
  /\ session' = "revoked"
  /\ UNCHANGED <<latest, emitted, connection, room, handler, sent, told>>

Handle(j) ==
  \/ RejectEnvelope(j) \/ Authenticate(j) \/ Expel(j) \/ FindMatch(j) \/ EnterRoom(j)
  \/ ReadState(j) \/ ReadReplay(j) \/ ReadProjection(j) \/ Fail(j)

\* Here each invocation is used once.
Next ==
  \/ CommitAction
  \/ \E n \in Events : EmitLocal(n)
  \/ \E j \in Joins, cursor \in Cursors : handler[j].step = "none" /\ Request(j, cursor)
  \/ \E j \in Joins : Handle(j)
  \/ Drop
  \/ Revoke

Spec == Init /\ [][Next]_vars
-----------------------------------------------------------------------------
Messages ==
  {Event(n) : n \in Events}
    \cup {Snapshot(n, folded) : n \in Events, folded \in SUBSET Events}
    \cup {Answer(j, how, n) : j \in Joins, how \in {"current", "replay", "snapshot"},
                              n \in Events}
    \cup {Refusal(j) : j \in Joins}
    \cup {SystemError}

\* Every variable keeps its type.
TypeOK ==
  /\ latest \in 0 .. MaxSequence
  /\ emitted \in [Events -> 0 .. MaxCopies]
  /\ session \in {"valid", "revoked"}
  /\ connection \in {"open", "lost", "ended"}
  /\ room \in BOOLEAN
  /\ handler \in [Joins -> [step: Steps \cup {"none", "done"}, cursor: Cursors,
                            current: 0 .. MaxSequence]]
  /\ sent \in Seq(Messages)
  /\ told \in Events \cup {NoCursor}

\* After an answer with latestSequence n the socket is in the room, and every
\* event after n that has reached this API was emitted to the socket: nothing
\* falls between the state that was read and the live stream.
NothingMissed ==
  connection = "open" /\ told # NoCursor =>
    /\ room
    /\ \A n \in Events : n > told /\ emitted[n] > 0 => Event(n) \in Range(sent)

\* A snapshot holds exactly the events up to its latestSequence, and has all of
\* them although later ones may be committed between its two reads.
SnapshotsAreConsistent ==
  \A m \in Range(sent) :
    m.kind = "snapshot" => m.sequence <= latest /\ m.projection = (1 .. m.sequence) \ Unrecorded

\* A later answer never takes the client back.
AnswersNeverGoBack ==
  \A i, k \in DOMAIN sent :
    i < k /\ sent[i].kind = "answer" /\ sent[k].kind = "answer" =>
      sent[i].sequence <= sent[k].sequence

\* docs/realtime.md, "A API entra na sala match:{matchId} e responde": who has
\* an answer is in the room.
AnsweredIsInRoom == connection = "open" /\ told # NoCursor => room
=============================================================================
