-------------------------- MODULE RealtimeJoinProofs --------------------------
(***************************************************************************)
(* Proofs, for any number of joins, any match and any bounds, that the     *)
(* live stream completes the state a join has answered (RealtimeJoin).     *)
(***************************************************************************)
EXTENDS RealtimeJoin, SequenceTheorems, TLAPS

LEMMA RangeOfConcat ==
  ASSUME NEW S, NEW s \in Seq(S), NEW t \in Seq(S)
  PROVE  /\ s \o t \in Seq(S)
         /\ Range(s \o t) = Range(s) \cup Range(t)
<1>1. /\ s \o t \in Seq(S)
      /\ Len(s \o t) = Len(s) + Len(t)
      /\ \A i \in 1 .. Len(s) + Len(t) :
           (s \o t)[i] = IF i <= Len(s) THEN s[i] ELSE t[i - Len(s)]
  BY ConcatProperties
<1>2. DOMAIN s = 1 .. Len(s) /\ DOMAIN t = 1 .. Len(t) /\ Len(s) \in Nat /\ Len(t) \in Nat
  OBVIOUS
<1>3. DOMAIN (s \o t) = 1 .. Len(s) + Len(t)
  BY <1>1
<1>4. Range(s \o t) \subseteq Range(s) \cup Range(t)
  <2> SUFFICES ASSUME NEW i \in 1 .. Len(s) + Len(t)
               PROVE  (s \o t)[i] \in Range(s) \cup Range(t)
    BY <1>3 DEF Range
  <2>1. CASE i <= Len(s)
    BY <1>1, <1>2, <2>1 DEF Range
  <2>2. CASE i > Len(s)
    <3>1. i - Len(s) \in 1 .. Len(t)
      BY <1>2, <2>2
    <3> QED BY <1>1, <1>2, <2>2, <3>1 DEF Range
  <2> QED BY <1>2, <2>1, <2>2
<1>5. Range(s) \subseteq Range(s \o t)
  <2> SUFFICES ASSUME NEW i \in 1 .. Len(s) PROVE s[i] \in Range(s \o t)
    BY <1>2 DEF Range
  <2>1. i \in 1 .. Len(s) + Len(t) /\ (s \o t)[i] = s[i]
    BY <1>1, <1>2
  <2> QED BY <1>3, <2>1 DEF Range
<1>6. Range(t) \subseteq Range(s \o t)
  <2> SUFFICES ASSUME NEW i \in 1 .. Len(t) PROVE t[i] \in Range(s \o t)
    BY <1>2 DEF Range
  <2>1. i + Len(s) \in 1 .. Len(s) + Len(t) /\ (s \o t)[i + Len(s)] = t[i]
    BY <1>1, <1>2
  <2> QED BY <1>3, <2>1 DEF Range
<1> QED BY <1>1, <1>4, <1>5, <1>6

\* The stream only grows, by what is sent, while the connection is open.
LEMMA SendExtends ==
  ASSUME TypeOK, NEW ms \in Seq(Messages), Send(ms)
  PROVE  /\ sent' \in Seq(Messages)
         /\ Range(sent) \subseteq Range(sent')
         /\ Range(sent') \subseteq Range(sent) \cup Range(ms)
         /\ connection = "open" => Range(ms) \subseteq Range(sent')
<1>1. sent \in Seq(Messages)
  BY DEF TypeOK
<1>2. CASE connection = "open"
  <2>1. sent' = sent \o ms
    BY <1>2 DEF Send
  <2> HIDE DEF Messages, Send
  <2>2. sent' \in Seq(Messages) /\ Range(sent') = Range(sent) \cup Range(ms)
    BY <1>1, <2>1, RangeOfConcat
  <2> QED BY <2>2
<1>3. CASE connection # "open"
  BY <1>1, <1>3 DEF Send
<1> QED BY <1>2, <1>3

LEMMA MessagesAreTyped ==
  /\ \A n \in Events : <<Event(n)>> \in Seq(Messages) /\ Range(<<Event(n)>>) = {Event(n)}
  /\ \A j \in Joins : <<Refusal(j)>> \in Seq(Messages) /\ Range(<<Refusal(j)>>) = {Refusal(j)}
  /\ \A j \in Joins : /\ <<Refusal(j), SystemError>> \in Seq(Messages)
                      /\ Range(<<Refusal(j), SystemError>>) = {Refusal(j), SystemError}
  /\ <<SystemError>> \in Seq(Messages) /\ Range(<<SystemError>>) = {SystemError}
<1>1. /\ \A n \in Events : Event(n) \in Messages
      /\ \A j \in Joins : Refusal(j) \in Messages
      /\ SystemError \in Messages
  BY DEF Messages
<1> HIDE DEF Messages
<1>2. \A m : Range(<<m>>) = {m}
  BY DEF Range
<1>3. \A m, k : Range(<<m, k>>) = {m, k}
  <2> TAKE m, k
  <2>1. DOMAIN <<m, k>> = {1, 2} /\ <<m, k>>[1] = m /\ <<m, k>>[2] = k
    OBVIOUS
  <2> QED BY <2>1 DEF Range
<1> QED BY <1>1, <1>2, <1>3

LEMMA ConfirmIsTyped ==
  ASSUME NEW j \in Joins, NEW ms \in Seq(Messages), NEW n \in Events,
         NEW how \in {"current", "replay", "snapshot"}
  PROVE  /\ Append(ms, Answer(j, how, n)) \in Seq(Messages)
         /\ Range(Append(ms, Answer(j, how, n))) = Range(ms) \cup {Answer(j, how, n)}
<1>1. Answer(j, how, n) \in Messages
  BY DEF Messages
<1> HIDE DEF Messages
<1>2. Append(ms, Answer(j, how, n)) = ms \o <<Answer(j, how, n)>>
  BY <1>1, AppendIsConcat
<1>3. /\ <<Answer(j, how, n)>> \in Seq(Messages)
      /\ Range(<<Answer(j, how, n)>>) = {Answer(j, how, n)}
  <2>1. Range(<<Answer(j, how, n)>>) = {Answer(j, how, n)}
    BY DEF Range
  <2> QED BY <1>1, <2>1
<1>4. ms \o <<Answer(j, how, n)>> \in Seq(Messages)
  BY <1>3, ConcatProperties
<1>5. Range(ms \o <<Answer(j, how, n)>>) = Range(ms) \cup Range(<<Answer(j, how, n)>>)
  <2> DEFINE t == <<Answer(j, how, n)>>
  <2>1. t \in Seq(Messages)
    BY <1>3
  <2> HIDE DEF t
  <2>2. Range(ms \o t) = Range(ms) \cup Range(t)
    BY <2>1, RangeOfConcat
  <2> QED BY <2>2 DEF t
<1> QED BY <1>2, <1>3, <1>4, <1>5

LEMMA ReplayIsTyped ==
  ASSUME NEW from \in Nat, NEW n \in Events
  PROVE  /\ [i \in 1 .. n - from |-> Event(from + i)] \in Seq(Messages)
         /\ \A m \in Range([i \in 1 .. n - from |-> Event(from + i)]) : m.kind = "event"
<1> DEFINE replay == [i \in 1 .. n - from |-> Event(from + i)]
<1>1. \A i \in 1 .. n - from : from + i \in Events
  BY JoinAssumption DEF Events
<1>2. \A i \in 1 .. n - from : replay[i] \in Messages /\ replay[i].kind = "event"
  BY <1>1 DEF Messages, Event
<1>3. DOMAIN replay = 1 .. n - from
  OBVIOUS
<1>4. \A m \in Range(replay) : m.kind = "event"
  BY <1>2, <1>3 DEF Range
<1>5. replay \in Seq(Messages)
  <2> DEFINE len == IF n > from THEN n - from ELSE 0
  <2>1. len \in Nat /\ 1 .. n - from = 1 .. len
    BY JoinAssumption DEF Events
  <2> HIDE DEF Messages, len, replay
  <2>2. replay = [i \in 1 .. len |-> replay[i]] /\ \A i \in 1 .. len : replay[i] \in Messages
    BY <1>2, <1>3, <2>1 DEF replay
  <2> QED BY <2>1, <2>2
<1> QED BY <1>4, <1>5
-----------------------------------------------------------------------------
\* Who has found the match has seen a sequence of it.
MatchWasFound ==
  \A j \in Joins :
    handler[j].step \in {"joining", "reading", "replaying", "projecting"} =>
      handler[j].current \in 1 .. latest
RequestsAreParsed ==
  \A j \in Joins :
    /\ handler[j].step \in Steps \ {"authenticating"} => handler[j].cursor # Malformed
    /\ handler[j].step = "replaying" => handler[j].cursor \in Nat
EmittedWasCommitted == \A n \in Events : emitted[n] > 0 => n <= latest
Typed == TypeOK /\ MatchWasFound /\ RequestsAreParsed /\ EmittedWasCommitted

Sound(m) == m.kind = "snapshot" => m.sequence <= latest
                                   /\ m.projection = (1 .. m.sequence) \ Unrecorded

\* What a step adds to the stream.
StreamGrows ==
  /\ sent' \in Seq(Messages)
  /\ Range(sent) \subseteq Range(sent')
  /\ \A m \in Range(sent') : m \in Range(sent) \/ Sound(m)

LEMMA RefuseGrows ==
  ASSUME TypeOK, NEW ms \in Seq(Messages), Send(ms), \A m \in Range(ms) : m.kind # "snapshot"
  PROVE  StreamGrows
BY SendExtends DEF StreamGrows, Sound

LEMMA QuietStep == TypeOK /\ UNCHANGED sent => StreamGrows
BY DEF TypeOK, StreamGrows

LEMMA EmitLocalGrows ==
  ASSUME TypeOK, NEW n \in Events, EmitLocal(n)
  PROVE  StreamGrows /\ (room /\ connection = "open" => Event(n) \in Range(sent'))
<1>1. CASE room
  <2>1. Send(<<Event(n)>>)
    BY <1>1 DEF EmitLocal
  <2>2. <<Event(n)>> \in Seq(Messages) /\ Range(<<Event(n)>>) = {Event(n)}
    BY MessagesAreTyped
  <2>3. Event(n).kind # "snapshot"
    BY DEF Event
  <2> HIDE DEF Messages, Event
  <2>4. StreamGrows
    BY <2>1, <2>2, <2>3, RefuseGrows
  <2>5. connection = "open" => Event(n) \in Range(sent')
    BY <2>1, <2>2, SendExtends
  <2> QED BY <2>4, <2>5
<1>2. CASE ~room
  BY <1>2, QuietStep DEF EmitLocal
<1> QED BY <1>1, <1>2 DEF TypeOK

LEMMA RefusalGrows ==
  ASSUME TypeOK, NEW j \in Joins,
         Send(<<Refusal(j)>>) \/ Send(<<SystemError>>) \/ Send(<<Refusal(j), SystemError>>)
  PROVE  StreamGrows
<1>1. Refusal(j).kind # "snapshot" /\ SystemError.kind # "snapshot"
  BY DEF Refusal, SystemError
<1> HIDE DEF Messages, Refusal, SystemError
<1>2. CASE Send(<<Refusal(j)>>)
  BY <1>1, <1>2, MessagesAreTyped, RefuseGrows
<1>3. CASE Send(<<SystemError>>)
  BY <1>1, <1>3, MessagesAreTyped, RefuseGrows
<1>4. CASE Send(<<Refusal(j), SystemError>>)
  BY <1>1, <1>4, MessagesAreTyped, RefuseGrows
<1> QED BY <1>2, <1>3, <1>4

LEMMA ConfirmGrows ==
  ASSUME TypeOK, NEW j \in Joins, NEW ms \in Seq(Messages), NEW n \in Events,
         NEW how \in {"current", "replay", "snapshot"},
         Send(Append(ms, Answer(j, how, n))),
         \A m \in Range(ms) : Sound(m)
  PROVE  StreamGrows
<1>1. Sound(Answer(j, how, n))
  BY DEF Sound, Answer
<1> HIDE DEF Messages, Answer, Sound
<1>2. /\ Append(ms, Answer(j, how, n)) \in Seq(Messages)
      /\ Range(Append(ms, Answer(j, how, n))) = Range(ms) \cup {Answer(j, how, n)}
  BY ConfirmIsTyped
<1> QED BY <1>1, <1>2, SendExtends DEF StreamGrows
LEMMA SequenceIsNumber == \A m \in Messages : m.kind = "snapshot" => m.sequence \in Nat
BY JoinAssumption DEF Messages, Event, Snapshot, Answer, Refusal, SystemError, Events

LEMMA StepGrows == Typed /\ [Next]_vars => StreamGrows
<1> SUFFICES ASSUME Typed, [Next]_vars PROVE StreamGrows
  OBVIOUS
<1>1. TypeOK
  BY DEF Typed
<1>2. QED
  <2> USE <1>1
  <2>1. CASE CommitAction
    BY <2>1, QuietStep DEF CommitAction, server
  <2>2. ASSUME NEW n \in Events, EmitLocal(n) PROVE StreamGrows
    BY <2>2, EmitLocalGrows
  <2>3. ASSUME NEW j \in Joins, NEW cursor \in Cursors, Request(j, cursor)
         PROVE StreamGrows
    BY <2>3, QuietStep DEF Request
  <2>4. ASSUME NEW j \in Joins, RejectEnvelope(j) PROVE StreamGrows
    BY <2>4, RefusalGrows DEF RejectEnvelope, Refuse
  <2>5. ASSUME NEW j \in Joins, Authenticate(j) PROVE StreamGrows
    BY <2>5, RefusalGrows, QuietStep DEF Authenticate, Refuse
  <2>6. ASSUME NEW j \in Joins, Expel(j) PROVE StreamGrows
    BY <2>6, RefusalGrows DEF Expel, Refuse
  <2>7. ASSUME NEW j \in Joins, FindMatch(j) PROVE StreamGrows
    BY <2>7, RefusalGrows, QuietStep DEF FindMatch, Refuse
  <2>8. ASSUME NEW j \in Joins, EnterRoom(j) PROVE StreamGrows
    BY <2>8, QuietStep DEF EnterRoom
  <2>9. ASSUME NEW j \in Joins, ReadState(j) PROVE StreamGrows
    <3>1. CASE UNCHANGED sent
      BY <3>1, QuietStep
    <3>2. CASE Confirm(j, <<>>, "current", latest)
      <4>1. latest \in Events
        BY <2>9, JoinAssumption DEF ReadState, Typed, MatchWasFound, TypeOK, Events
      <4>2. <<>> \in Seq(Messages) /\ \A m \in Range(<<>>) : Sound(m)
        BY DEF Range
      <4>3. Send(Append(<<>>, Answer(j, "current", latest)))
        BY <3>2 DEF Confirm
      <4> HIDE DEF Messages, Answer, Sound, Send
      <4> QED BY <4>1, <4>2, <4>3, ConfirmGrows
    <3> QED BY <2>9, <3>1, <3>2 DEF ReadState, Synchronize
  <2>10. ASSUME NEW j \in Joins, ReadReplay(j) PROVE StreamGrows
    <3> DEFINE from == handler[j].cursor
               n == handler[j].current
               replay == [k \in 1 .. n - from |-> Event(from + k)]
    <3>1. CASE UNCHANGED sent
      BY <3>1, QuietStep
    <3>2. CASE Confirm(j, replay, "replay", n)
      <4>1. n \in Events
        BY <2>10, JoinAssumption DEF ReadReplay, Typed, MatchWasFound, TypeOK, Events
      <4>2. from \in Nat
        BY <2>10 DEF ReadReplay, Typed, RequestsAreParsed
      <4>3. replay \in Seq(Messages) /\ \A m \in Range(replay) : m.kind = "event"
        BY <4>1, <4>2, ReplayIsTyped
      <4>4. Send(Append(replay, Answer(j, "replay", n)))
        BY <3>2 DEF Confirm
      <4>5. \A m \in Range(replay) : Sound(m)
        BY <4>3 DEF Sound
      <4> HIDE DEF Messages, Answer, Sound, Send, replay, n
      <4> QED BY <4>1, <4>3, <4>4, <4>5, ConfirmGrows
    <3> QED BY <2>10, <3>1, <3>2 DEF ReadReplay
  <2>11. ASSUME NEW j \in Joins, ReadProjection(j) PROVE StreamGrows
    <3> DEFINE n == handler[j].current
               snapshot == Snapshot(n, Projection(n))
    <3>1. n \in Events /\ n <= latest
      BY <2>11, JoinAssumption DEF ReadProjection, Typed, MatchWasFound, TypeOK, Events
    <3>2. Projection(n) = (1 .. n) \ Unrecorded
      BY <3>1 DEF Projection, Recorded, Typed, TypeOK, Events
    <3>3. Projection(n) \in SUBSET Events
      BY <3>1, <3>2, JoinAssumption DEF Events
    <3>4. snapshot \in Messages
      BY <3>1, <3>3 DEF Messages
    <3>5. Sound(snapshot)
      BY <3>1, <3>2 DEF Sound, Snapshot
    <3>6. Send(Append(<<snapshot>>, Answer(j, "snapshot", n)))
      BY <2>11 DEF ReadProjection, Confirm
    <3> HIDE DEF Messages, Answer, Sound, Send, snapshot, n
    <3>7. <<snapshot>> \in Seq(Messages) /\ \A m \in Range(<<snapshot>>) : Sound(m)
      BY <3>4, <3>5 DEF Range
    <3> QED BY <3>1, <3>6, <3>7, ConfirmGrows
  <2>12. ASSUME NEW j \in Joins, Fail(j) PROVE StreamGrows
    BY <2>12, RefusalGrows DEF Fail, Refuse
  <2>13. CASE Drop
    BY <2>13, QuietStep DEF Drop
  <2>14. CASE Revoke
    BY <2>14, QuietStep DEF Revoke
  <2>15. CASE UNCHANGED vars
    BY <2>15, QuietStep DEF vars, server
  <2> QED
    BY <2>1, <2>2, <2>3, <2>4, <2>5, <2>6, <2>7, <2>8, <2>9, <2>10, <2>11, <2>12, <2>13, <2>14, <2>15 DEF Next, Handle

\* An invocation goes on with the state it has read; the others stand still.
HandlerMoves(j, step, current) ==
  /\ handler' \in [Joins -> [step: Steps \cup {"none", "done"}, cursor: Cursors,
                             current: 0 .. MaxSequence]]
  /\ handler'[j].step = step
  /\ handler'[j].cursor = handler[j].cursor
  /\ handler'[j].current = current
  /\ \A i \in Joins \ {j} : handler'[i] = handler[i]

LEMMA GotoMoves ==
  ASSUME TypeOK, NEW j \in Joins, NEW step \in Steps \cup {"none", "done"}, Goto(j, step)
  PROVE  HandlerMoves(j, step, handler[j].current)
BY DEF TypeOK, Goto, HandlerMoves

LEMMA AdvanceMoves ==
  ASSUME TypeOK, NEW j \in Joins, NEW step \in Steps, NEW n \in 0 .. MaxSequence,
         Advance(j, step, n)
  PROVE  HandlerMoves(j, step, n)
BY DEF TypeOK, Advance, HandlerMoves

\* The steps of handleJoin that choose how to go on.
LEMMA AuthenticateMoves ==
  ASSUME TypeOK, NEW j \in Joins, Authenticate(j)
  PROVE  /\ \/ HandlerMoves(j, "done", handler[j].current)
            \/ HandlerMoves(j, "finding", handler[j].current) /\ handler[j].cursor # Malformed
         /\ UNCHANGED <<latest, emitted, session, connection, room>>
         /\ told' \in {told, NoCursor}
<1>1. /\ \/ Goto(j, "done")
         \/ Goto(j, "finding") /\ handler[j].cursor # Malformed
      /\ UNCHANGED <<latest, emitted, session, connection, room>>
      /\ told' \in {told, NoCursor}
  BY DEF Authenticate, Refuse
<1> QED BY <1>1, GotoMoves DEF Steps

LEMMA FindMatchMoves ==
  ASSUME TypeOK, NEW j \in Joins, FindMatch(j)
  PROVE  /\ \/ HandlerMoves(j, "done", handler[j].current)
            \/ latest \in 1 .. MaxSequence /\ HandlerMoves(j, "joining", latest)
         /\ UNCHANGED <<latest, emitted, session, connection, room>>
         /\ told' \in {told, NoCursor}
<1>1. latest \in 0 .. MaxSequence
  BY DEF TypeOK
<1>2. /\ \/ Goto(j, "done")
         \/ latest # 0 /\ Advance(j, "joining", latest)
      /\ UNCHANGED <<latest, emitted, session, connection, room>>
      /\ told' \in {told, NoCursor}
  BY DEF FindMatch, Refuse
<1>3. CASE Goto(j, "done")
  BY <1>2, <1>3, GotoMoves
<1>4. CASE latest # 0 /\ Advance(j, "joining", latest)
  <2>1. latest \in 1 .. MaxSequence
    BY <1>1, <1>4, JoinAssumption
  <2>2. HandlerMoves(j, "joining", latest)
    BY <1>1, <1>4, AdvanceMoves DEF Steps
  <2> QED BY <1>2, <2>1, <2>2
<1> QED BY <1>2, <1>3, <1>4

LEMMA ReadStateMoves ==
  ASSUME TypeOK, NEW j \in Joins, ReadState(j)
  PROVE  /\ \/ /\ HandlerMoves(j, "done", handler[j].current)
               /\ told' = IF connection = "open" THEN latest ELSE told
            \/ /\ HandlerMoves(j, "replaying", latest)
               /\ handler[j].cursor # NoCursor
               /\ told' = told
            \/ HandlerMoves(j, "projecting", latest) /\ told' = told
         /\ UNCHANGED <<latest, emitted, session, connection, room>>
         /\ handler[j].step = "reading"
<1>1. latest \in 0 .. MaxSequence
  BY DEF TypeOK
<1>2. /\ UNCHANGED <<latest, emitted, session, connection, room>>
      /\ handler[j].step = "reading"
      /\ \/ /\ Goto(j, "done")
            /\ told' = IF connection = "open" THEN latest ELSE told
         \/ Advance(j, "replaying", latest) /\ handler[j].cursor # NoCursor /\ told' = told
         \/ Advance(j, "projecting", latest) /\ told' = told
  BY DEF ReadState, Synchronize, Confirm
<1> QED BY <1>1, <1>2, GotoMoves, AdvanceMoves DEF Steps

LEMMA MovesKeepFound ==
  ASSUME MatchWasFound, NEW j \in Joins, NEW step, NEW n, HandlerMoves(j, step, n),
         latest' = latest,
         step \in {"joining", "reading", "replaying", "projecting"} => n \in 1 .. latest
  PROVE  MatchWasFound'
BY DEF MatchWasFound, HandlerMoves

LEMMA MovesKeepParsed ==
  ASSUME RequestsAreParsed, NEW j \in Joins, NEW step, NEW n, HandlerMoves(j, step, n),
         handler[j].cursor # Malformed,
         step = "replaying" => handler[j].cursor \in Nat
  PROVE  RequestsAreParsed'
BY DEF RequestsAreParsed, HandlerMoves

\* The variables keep their types.
THEOREM TypedAlways == Spec => []Typed
<1> USE JoinAssumption
<1>1. Init => Typed
  <2> SUFFICES ASSUME Init PROVE Typed
    OBVIOUS
  <2>1. emitted \in [Events -> 0 .. MaxCopies] /\ EmittedWasCommitted
    BY DEF Init, Events, EmittedWasCommitted
  <2>2. handler \in [Joins -> [step: Steps \cup {"none", "done"}, cursor: Cursors,
                              current: 0 .. MaxSequence]]
    BY DEF Init, Steps, Cursors
  <2>3. \A j \in Joins : handler[j].step = "none"
    BY DEF Init
  <2>4. sent \in Seq(Messages)
    BY DEF Init
  <2>5. latest \in 0 .. MaxSequence
    BY DEF Init
  <2>6. MatchWasFound /\ RequestsAreParsed
    BY <2>3 DEF MatchWasFound, RequestsAreParsed, Steps
  <2> QED BY <2>1, <2>2, <2>4, <2>5, <2>6 DEF Init, Typed, TypeOK
<1>2. Typed /\ [Next]_vars => Typed'
  <2> SUFFICES ASSUME Typed, [Next]_vars PROVE Typed'
    OBVIOUS
  <2>0. sent' \in Seq(Messages)
    BY StepGrows DEF StreamGrows
  <2> USE <2>0 DEF Typed, TypeOK, MatchWasFound, RequestsAreParsed, EmittedWasCommitted, Events,
                   Cursors, Steps
  <2> HIDE DEF Messages
  <2>1. CASE CommitAction
    <3>1. TypeOK'
      BY <2>1 DEF CommitAction, server
    <3>2. MatchWasFound'
      BY <2>1 DEF CommitAction, server
    <3>3. RequestsAreParsed'
      BY <2>1 DEF CommitAction, server
    <3>4. EmittedWasCommitted'
      BY <2>1 DEF CommitAction, server
    <3> QED BY <3>1, <3>2, <3>3, <3>4
  <2>2. ASSUME NEW n \in Events, EmitLocal(n) PROVE Typed'
    <3>1. TypeOK'
      BY <2>2 DEF EmitLocal
    <3>2. MatchWasFound'
      BY <2>2 DEF EmitLocal
    <3>3. RequestsAreParsed'
      BY <2>2 DEF EmitLocal
    <3>4. EmittedWasCommitted'
      BY <2>2 DEF EmitLocal
    <3> QED BY <3>1, <3>2, <3>3, <3>4
  <2>3. ASSUME NEW j \in Joins, NEW cursor \in Cursors, Request(j, cursor)
         PROVE Typed'
    BY <2>3 DEF Request, Running
  <2>4. ASSUME NEW j \in Joins, RejectEnvelope(j) PROVE Typed'
    BY <2>4 DEF RejectEnvelope, Refuse, Goto
  <2>5. ASSUME NEW j \in Joins, Authenticate(j) PROVE Typed'
    <3>1. /\ \/ HandlerMoves(j, "done", handler[j].current)
             \/ HandlerMoves(j, "finding", handler[j].current) /\ handler[j].cursor # Malformed
          /\ UNCHANGED <<latest, emitted, session, connection, room>>
          /\ told' \in {told, NoCursor}
      BY <2>5, AuthenticateMoves
    <3>2. TypeOK'
      BY <3>1 DEF HandlerMoves
    <3>3. MatchWasFound'
      BY <3>1 DEF HandlerMoves
    <3>4. RequestsAreParsed'
      BY <3>1 DEF HandlerMoves
    <3> QED BY <3>1, <3>2, <3>3, <3>4
  <2>6. ASSUME NEW j \in Joins, Expel(j) PROVE Typed'
    BY <2>6 DEF Expel, Refuse, Goto
  <2>7. ASSUME NEW j \in Joins, FindMatch(j) PROVE Typed'
    <3>1. /\ \/ HandlerMoves(j, "done", handler[j].current)
             \/ latest \in 1 .. MaxSequence /\ HandlerMoves(j, "joining", latest)
          /\ UNCHANGED <<latest, emitted, session, connection, room>>
          /\ told' \in {told, NoCursor}
          /\ handler[j].step = "finding"
      BY <2>7, FindMatchMoves DEF FindMatch
    <3>2. TypeOK'
      BY <3>1 DEF HandlerMoves
    <3>3. MatchWasFound'
      <4>1. CASE HandlerMoves(j, "done", handler[j].current)
        BY <3>1, <4>1, MovesKeepFound
      <4>2. CASE latest \in 1 .. MaxSequence /\ HandlerMoves(j, "joining", latest)
        <5>1. latest' = latest /\ latest \in 1 .. latest
          BY <3>1, <4>2
        <5> QED BY <4>2, <5>1, MovesKeepFound
      <4> QED BY <3>1, <4>1, <4>2
    <3>4. RequestsAreParsed'
      BY <3>1 DEF HandlerMoves
    <3> QED BY <3>1, <3>2, <3>3, <3>4
  <2>8. ASSUME NEW j \in Joins, EnterRoom(j) PROVE Typed'
    BY <2>8 DEF EnterRoom, Goto
  <2>9. ASSUME NEW j \in Joins, ReadState(j) PROVE Typed'
    <3>1. /\ \/ /\ HandlerMoves(j, "done", handler[j].current)
                /\ told' = IF connection = "open" THEN latest ELSE told
             \/ /\ HandlerMoves(j, "replaying", latest)
                /\ handler[j].cursor # NoCursor
                /\ told' = told
             \/ HandlerMoves(j, "projecting", latest) /\ told' = told
          /\ UNCHANGED <<latest, emitted, session, connection, room>>
          /\ handler[j].step = "reading"
      BY <2>9, ReadStateMoves
    <3>2. latest \in 1 .. MaxSequence /\ latest \in 1 .. latest
      BY <3>1
    <3>3. handler[j].cursor # Malformed
      BY <3>1
    <3>4. TypeOK'
      BY <3>1, <3>2 DEF HandlerMoves
    <3>5. MatchWasFound'
      <4>1. CASE HandlerMoves(j, "done", handler[j].current)
        BY <3>1, <4>1, MovesKeepFound
      <4>2. CASE HandlerMoves(j, "replaying", latest)
        BY <3>1, <3>2, <4>2, MovesKeepFound
      <4>3. CASE HandlerMoves(j, "projecting", latest)
        BY <3>1, <3>2, <4>3, MovesKeepFound
      <4> QED BY <3>1, <4>1, <4>2, <4>3
    <3>6. handler[j].cursor \in 0 .. MaxSequence \/ handler[j].cursor = NoCursor
      BY <3>3
    <3>7. RequestsAreParsed'
      <4>1. CASE HandlerMoves(j, "done", handler[j].current)
        BY <3>3, <4>1, MovesKeepParsed
      <4>2. CASE HandlerMoves(j, "replaying", latest) /\ handler[j].cursor # NoCursor
        <5>1. handler[j].cursor \in Nat
          BY <3>6, <4>2
        <5> QED BY <3>3, <4>2, <5>1, MovesKeepParsed
      <4>3. CASE HandlerMoves(j, "projecting", latest)
        BY <3>3, <4>3, MovesKeepParsed
      <4> QED BY <3>1, <4>1, <4>2, <4>3
    <3> QED BY <3>1, <3>4, <3>5, <3>7
  <2>10. ASSUME NEW j \in Joins, ReadReplay(j) PROVE Typed'
    <3>0. \/ HandlerMoves(j, "done", handler[j].current)
          \/ HandlerMoves(j, "projecting", handler[j].current)
      BY <2>10, GotoMoves DEF ReadReplay, Confirm, Steps
    <3>1. /\ UNCHANGED <<latest, emitted, session, connection, room>>
          /\ told' \in Events \cup {NoCursor}
      BY <2>10 DEF ReadReplay, Confirm
    <3>2. TypeOK'
      BY <3>0, <3>1 DEF HandlerMoves
    <3>3. MatchWasFound'
      BY <2>10, <3>0, <3>1 DEF ReadReplay, HandlerMoves
    <3>4. RequestsAreParsed'
      BY <2>10, <3>0, <3>1 DEF ReadReplay, HandlerMoves
    <3> QED BY <3>1, <3>2, <3>3, <3>4
  <2>11. ASSUME NEW j \in Joins, ReadProjection(j) PROVE Typed'
    <3>0. HandlerMoves(j, "done", handler[j].current)
      BY <2>11, GotoMoves DEF ReadProjection, Confirm, Steps
    <3>1. /\ UNCHANGED <<latest, emitted, session, connection, room>>
          /\ told' \in Events \cup {NoCursor}
      BY <2>11 DEF ReadProjection, Confirm
    <3>2. TypeOK'
      BY <3>0, <3>1 DEF HandlerMoves
    <3>3. MatchWasFound'
      BY <2>11, <3>0, <3>1 DEF ReadProjection, HandlerMoves
    <3>4. RequestsAreParsed'
      BY <2>11, <3>0, <3>1 DEF ReadProjection, HandlerMoves
    <3> QED BY <3>1, <3>2, <3>3, <3>4
  <2>12. ASSUME NEW j \in Joins, Fail(j) PROVE Typed'
    BY <2>12 DEF Fail, Refuse, Goto, Steps
  <2>13. CASE Drop
    BY <2>13 DEF Drop
  <2>14. CASE Revoke
    BY <2>14 DEF Revoke
  <2>15. CASE UNCHANGED vars
    BY <2>15 DEF vars, server
  <2> QED
    BY <2>1, <2>2, <2>3, <2>4, <2>5, <2>6, <2>7, <2>8, <2>9, <2>10, <2>11, <2>12, <2>13, <2>14, <2>15 DEF Next, Handle
<1> QED BY <1>1, <1>2, PTL DEF Spec

THEOREM TypeCorrect == Spec => []TypeOK
BY TypedAlways, PTL DEF Typed

\* Every snapshot ever sent holds the events up to its sequence.
THEOREM SnapshotsStayConsistent == Spec => []SnapshotsAreConsistent
<1>1. Init => SnapshotsAreConsistent
  BY DEF Init, SnapshotsAreConsistent, Range
<1>2. Typed /\ SnapshotsAreConsistent /\ [Next]_vars => SnapshotsAreConsistent'
  <2> SUFFICES ASSUME Typed, SnapshotsAreConsistent, [Next]_vars,
                      NEW m \in Range(sent'), m.kind = "snapshot"
               PROVE  m.sequence <= latest' /\ m.projection = (1 .. m.sequence) \ Unrecorded
    BY DEF SnapshotsAreConsistent
  <2>1. m.sequence <= latest /\ m.projection = (1 .. m.sequence) \ Unrecorded
    BY StepGrows DEF StreamGrows, Sound, SnapshotsAreConsistent
  <2>2. latest' = latest \/ latest' = latest + 1
    BY DEF Next, Handle, CommitAction, EmitLocal, Request, RejectEnvelope, Authenticate, Expel,
       FindMatch, EnterRoom, ReadState, ReadReplay, ReadProjection, Fail, Drop, Revoke,
       vars, server
  <2>3. m \in Messages
    BY StepGrows DEF StreamGrows, Range
  <2>4. m.sequence \in Nat
    BY <2>3, SequenceIsNumber
  <2> QED BY <2>1, <2>2, <2>4 DEF Typed, TypeOK
<1> QED BY <1>1, <1>2, TypedAlways, PTL DEF Spec
-----------------------------------------------------------------------------
\* A client that waits for its answers has one invocation at a time, and what
\* it has read in the room keeps it there.
InRoom ==
  /\ room => connection = "open"
  /\ told # NoCursor /\ connection = "open" => room
  /\ \A j \in Joins :
       handler[j].step \in {"reading", "replaying", "projecting"} /\ connection = "open" => room
  /\ \A i, j \in Joins : Running(i) /\ Running(j) => i = j

\* Events after the state that was read are in the stream.
StreamFollows ==
  /\ told # NoCursor /\ connection = "open" =>
       \A n \in Events : n > told /\ emitted[n] > 0 => Event(n) \in Range(sent)
  /\ \A j \in Joins : handler[j].step \in {"replaying", "projecting"} /\ connection = "open" =>
       \A n \in Events : n > handler[j].current /\ emitted[n] > 0 => Event(n) \in Range(sent)

LEMMA MovesKeepInRoom ==
  ASSUME InRoom, NEW j \in Joins, NEW step, NEW n, HandlerMoves(j, step, n),
         UNCHANGED <<connection, room>>,
         handler[j].step \in {"reading", "replaying", "projecting"},
         step \in {"done", "replaying", "projecting"},
         told' # NoCursor /\ connection = "open" => room
  PROVE  InRoom'
BY DEF InRoom, HandlerMoves, Running, Steps

LEMMA MovesKeepStream ==
  ASSUME Typed, StreamFollows, NEW j \in Joins, NEW step, NEW n, HandlerMoves(j, step, n),
         UNCHANGED <<emitted, connection>>,
         Range(sent) \subseteq Range(sent'),
         \/ step = "done"
         \/ n = latest
         \/ n = handler[j].current /\ handler[j].step = "replaying",
         \/ told' = told
         \/ connection = "open" /\ told' = latest
         \/ /\ connection = "open" /\ told' = handler[j].current
            /\ handler[j].step \in {"replaying", "projecting"}
  PROVE  StreamFollows'
<1>1. \A m \in Events : ~(m > latest /\ emitted[m] > 0)
  BY DEF Typed, TypeOK, EmittedWasCommitted, Events
<1>2. connection = "open" /\ told' # NoCursor =>
        \A m \in Events : m > told' /\ emitted[m] > 0 => Event(m) \in Range(sent')
  BY <1>1 DEF StreamFollows
<1>3. ASSUME NEW i \in Joins, handler'[i].step \in {"replaying", "projecting"},
             connection = "open"
      PROVE  \A m \in Events : m > handler'[i].current /\ emitted[m] > 0
                                 => Event(m) \in Range(sent')
  <2>1. CASE i = j
    BY <1>1, <1>3, <2>1 DEF StreamFollows, HandlerMoves
  <2>2. CASE i # j
    BY <1>3, <2>2 DEF StreamFollows, HandlerMoves
  <2> QED BY <2>1, <2>2
<1> QED BY <1>2, <1>3 DEF StreamFollows

\* An invocation that has read the state in the room stays in it.
THEOREM InRoomAlways == ASSUME ~Overlapping PROVE Spec => []InRoom
<1>1. Init => InRoom
  BY DEF Init, InRoom, Running, Steps
<1>2. Typed /\ InRoom /\ [Next]_vars => InRoom'
  <2> SUFFICES ASSUME Typed, InRoom, [Next]_vars PROVE InRoom'
    OBVIOUS
  <2> USE DEF Typed, TypeOK, InRoom, Running, Steps
  <2>1. CASE CommitAction
    BY <2>1 DEF CommitAction, server
  <2>2. ASSUME NEW n \in Events, EmitLocal(n) PROVE InRoom'
    BY <2>2 DEF EmitLocal
  <2>3. ASSUME NEW j \in Joins, NEW cursor \in Cursors, Request(j, cursor)
         PROVE InRoom'
    BY <2>3 DEF Request, Running
  <2>4. ASSUME NEW j \in Joins, RejectEnvelope(j) PROVE InRoom'
    BY <2>4 DEF RejectEnvelope, Refuse, Goto
  <2>5. ASSUME NEW j \in Joins, Authenticate(j) PROVE InRoom'
    BY <2>5 DEF Authenticate, Refuse, Goto
  <2>6. ASSUME NEW j \in Joins, Expel(j) PROVE InRoom'
    BY <2>6 DEF Expel, Refuse, Goto
  <2>7. ASSUME NEW j \in Joins, FindMatch(j) PROVE InRoom'
    BY <2>7, FindMatchMoves DEF FindMatch, HandlerMoves
  <2>8. ASSUME NEW j \in Joins, EnterRoom(j) PROVE InRoom'
    BY <2>8 DEF EnterRoom, Goto
  <2>9. ASSUME NEW j \in Joins, ReadState(j) PROVE InRoom'
    <3>1. /\ \/ HandlerMoves(j, "done", handler[j].current)
             \/ HandlerMoves(j, "replaying", latest)
             \/ HandlerMoves(j, "projecting", latest)
          /\ UNCHANGED <<connection, room>>
          /\ handler[j].step = "reading"
          /\ told' # NoCursor /\ connection = "open" => room
      BY <2>9, ReadStateMoves
    <3>2. InRoom
      OBVIOUS
    <3> HIDE DEF InRoom, Typed, TypeOK
    <3> QED BY <3>1, <3>2, MovesKeepInRoom
  <2>10. ASSUME NEW j \in Joins, ReadReplay(j) PROVE InRoom'
    BY <2>10 DEF ReadReplay, Confirm, Goto
  <2>11. ASSUME NEW j \in Joins, ReadProjection(j) PROVE InRoom'
    BY <2>11 DEF ReadProjection, Confirm, Goto
  <2>12. ASSUME NEW j \in Joins, Fail(j) PROVE InRoom'
    BY <2>12 DEF Fail, Refuse, Goto, Steps
  <2>13. CASE Drop
    BY <2>13 DEF Drop
  <2>14. CASE Revoke
    BY <2>14 DEF Revoke
  <2>15. CASE UNCHANGED vars
    BY <2>15 DEF vars, server
  <2> QED
    BY <2>1, <2>2, <2>3, <2>4, <2>5, <2>6, <2>7, <2>8, <2>9, <2>10, <2>11, <2>12, <2>13, <2>14, <2>15 DEF Next, Handle
<1> QED BY <1>1, <1>2, TypedAlways, PTL DEF Spec

THEOREM StreamFollowsAlways == ASSUME ~Overlapping PROVE Spec => []StreamFollows
<1> USE JoinAssumption
<1>1. Init => StreamFollows
  BY DEF Init, StreamFollows
<1>2. Typed /\ InRoom /\ StreamFollows /\ [Next]_vars => StreamFollows'
  <2> SUFFICES ASSUME Typed, InRoom, StreamFollows, [Next]_vars PROVE StreamFollows'
    OBVIOUS
  <2>0. Range(sent) \subseteq Range(sent')
    BY StepGrows DEF StreamGrows
  <2> USE <2>0 DEF Typed, TypeOK, EmittedWasCommitted, InRoom, StreamFollows
  <2>1. CASE CommitAction
    BY <2>1 DEF CommitAction, server
  <2>2. ASSUME NEW n \in Events, EmitLocal(n) PROVE StreamFollows'
    <3>1. room /\ connection = "open" => Event(n) \in Range(sent')
      BY <2>2, EmitLocalGrows DEF Typed
    <3> QED BY <2>2, <3>1 DEF EmitLocal
  <2>3. ASSUME NEW j \in Joins, NEW cursor \in Cursors, Request(j, cursor)
         PROVE StreamFollows'
    BY <2>3 DEF Request, Running
  <2>4. ASSUME NEW j \in Joins, RejectEnvelope(j) PROVE StreamFollows'
    BY <2>4 DEF RejectEnvelope, Refuse, Goto
  <2>5. ASSUME NEW j \in Joins, Authenticate(j) PROVE StreamFollows'
    BY <2>5 DEF Authenticate, Refuse, Goto
  <2>6. ASSUME NEW j \in Joins, Expel(j) PROVE StreamFollows'
    BY <2>6 DEF Expel, Refuse, Goto
  <2>7. ASSUME NEW j \in Joins, FindMatch(j) PROVE StreamFollows'
    BY <2>7, FindMatchMoves DEF FindMatch, HandlerMoves
  <2>8. ASSUME NEW j \in Joins, EnterRoom(j) PROVE StreamFollows'
    BY <2>8 DEF EnterRoom, Goto
  <2>9. ASSUME NEW j \in Joins, ReadState(j) PROVE StreamFollows'
    <3>1. /\ \/ /\ HandlerMoves(j, "done", handler[j].current)
                /\ told' = IF connection = "open" THEN latest ELSE told
             \/ HandlerMoves(j, "replaying", latest) /\ told' = told
             \/ HandlerMoves(j, "projecting", latest) /\ told' = told
          /\ UNCHANGED <<emitted, connection>>
      BY <2>9, ReadStateMoves
    <3>2. Typed /\ StreamFollows
      OBVIOUS
    <3> HIDE DEF StreamFollows, InRoom, Typed, TypeOK
    <3>3. told' = told \/ (connection = "open" /\ told' = latest)
      BY <3>1
    <3>4. CASE HandlerMoves(j, "done", handler[j].current)
      BY <2>0, <3>1, <3>2, <3>3, <3>4, MovesKeepStream
    <3>5. CASE HandlerMoves(j, "replaying", latest)
      BY <2>0, <3>1, <3>2, <3>3, <3>5, MovesKeepStream
    <3>6. CASE HandlerMoves(j, "projecting", latest)
      BY <2>0, <3>1, <3>2, <3>3, <3>6, MovesKeepStream
    <3> QED BY <3>1, <3>4, <3>5, <3>6
  <2>10. ASSUME NEW j \in Joins, ReadReplay(j) PROVE StreamFollows'
    <3>1. Typed /\ StreamFollows
      OBVIOUS
    <3> HIDE DEF StreamFollows, InRoom, Typed, TypeOK
    <3>2. /\ \/ /\ Goto(j, "done")
                /\ told' = IF connection = "open" THEN handler[j].current ELSE told
             \/ Goto(j, "projecting") /\ told' = told
          /\ UNCHANGED <<emitted, connection>>
          /\ handler[j].step = "replaying"
      BY <2>10 DEF ReadReplay, Confirm
    <3>3. /\ Goto(j, "done") => HandlerMoves(j, "done", handler[j].current)
          /\ Goto(j, "projecting") => HandlerMoves(j, "projecting", handler[j].current)
      BY <3>1, GotoMoves DEF Typed, Steps
    <3> QED BY <2>0, <3>1, <3>2, <3>3, MovesKeepStream
  <2>11. ASSUME NEW j \in Joins, ReadProjection(j) PROVE StreamFollows'
    <3>1. Typed /\ StreamFollows
      OBVIOUS
    <3> HIDE DEF StreamFollows, InRoom, Typed, TypeOK
    <3>2. /\ Goto(j, "done")
          /\ told' = IF connection = "open" THEN handler[j].current ELSE told
          /\ UNCHANGED <<emitted, connection>>
          /\ handler[j].step = "projecting"
      BY <2>11 DEF ReadProjection, Confirm
    <3>3. HandlerMoves(j, "done", handler[j].current)
      BY <3>1, <3>2, GotoMoves DEF Typed, Steps
    <3> QED BY <2>0, <3>1, <3>2, <3>3, MovesKeepStream
  <2>12. ASSUME NEW j \in Joins, Fail(j) PROVE StreamFollows'
    BY <2>12 DEF Fail, Refuse, Goto, Steps
  <2>13. CASE Drop
    BY <2>13 DEF Drop
  <2>14. CASE Revoke
    BY <2>14 DEF Revoke
  <2>15. CASE UNCHANGED vars
    BY <2>15 DEF vars, server
  <2> QED
    BY <2>1, <2>2, <2>3, <2>4, <2>5, <2>6, <2>7, <2>8, <2>9, <2>10, <2>11, <2>12, <2>13, <2>14, <2>15 DEF Next, Handle
<1> QED BY <1>1, <1>2, TypedAlways, InRoomAlways, PTL DEF Spec

\* Nothing falls between the state that was read and the live stream.
THEOREM JoinMissesNothing == ASSUME ~Overlapping PROVE Spec => []NothingMissed
<1>1. InRoom /\ StreamFollows => NothingMissed
  BY DEF InRoom, StreamFollows, NothingMissed
<1> QED BY <1>1, InRoomAlways, StreamFollowsAlways, PTL
-----------------------------------------------------------------------------
\* The answers of the stream are in order, none is past the sequences of the
\* match, and none is past the state that a running invocation has read.
Behind(n) == \A m \in Range(sent) : m.kind = "answer" => m.sequence <= n
AnswersInOrder ==
  /\ AnswersNeverGoBack
  /\ Behind(latest)
  /\ \A j \in Joins :
       handler[j].step \in {"replaying", "projecting"} => Behind(handler[j].current)

Ordered(list) ==
  \A i, k \in DOMAIN list :
    i < k /\ list[i].kind = "answer" /\ list[k].kind = "answer" =>
      list[i].sequence <= list[k].sequence

LEMMA OrderOfConcat ==
  ASSUME NEW S, NEW s \in Seq(S), NEW t \in Seq(S), Ordered(s), Ordered(t),
         \A x \in Range(s), y \in Range(t) :
           x.kind = "answer" /\ y.kind = "answer" => x.sequence <= y.sequence
  PROVE  Ordered(s \o t)
<1>1. /\ s \o t \in Seq(S)
      /\ Len(s \o t) = Len(s) + Len(t)
      /\ \A i \in 1 .. Len(s) + Len(t) :
           (s \o t)[i] = IF i <= Len(s) THEN s[i] ELSE t[i - Len(s)]
  BY ConcatProperties
<1>2. DOMAIN s = 1 .. Len(s) /\ DOMAIN t = 1 .. Len(t) /\ Len(s) \in Nat /\ Len(t) \in Nat
  OBVIOUS
<1>3. DOMAIN (s \o t) = 1 .. Len(s) + Len(t)
  BY <1>1
<1> DEFINE u == s \o t
<1> HIDE DEF u
<1> SUFFICES ASSUME NEW i \in 1 .. Len(s) + Len(t), NEW k \in 1 .. Len(s) + Len(t), i < k,
                    u[i].kind = "answer", u[k].kind = "answer"
             PROVE  u[i].sequence <= u[k].sequence
  BY <1>3 DEF Ordered, u
<1>4. CASE k <= Len(s)
  <2>1. i \in DOMAIN s /\ k \in DOMAIN s /\ u[i] = s[i] /\ u[k] = s[k]
    BY <1>1, <1>2, <1>4 DEF u
  <2> QED BY <2>1 DEF Ordered
<1>5. CASE i <= Len(s) /\ k > Len(s)
  <2>1. k - Len(s) \in 1 .. Len(t)
    BY <1>2, <1>5
  <2>2. u[i] = s[i] /\ u[k] = t[k - Len(s)] /\ i \in 1 .. Len(s)
    BY <1>1, <1>2, <1>5 DEF u
  <2>3. u[i] \in Range(s) /\ u[k] \in Range(t)
    BY <1>2, <2>1, <2>2 DEF Range
  <2> QED BY <2>3
<1>6. CASE i > Len(s)
  <2>1. i - Len(s) \in 1 .. Len(t) /\ k - Len(s) \in 1 .. Len(t) /\ i - Len(s) < k - Len(s)
    BY <1>2, <1>6
  <2>2. u[i] = t[i - Len(s)] /\ u[k] = t[k - Len(s)]
    BY <1>1, <1>2, <1>6 DEF u
  <2> QED BY <1>2, <2>1, <2>2 DEF Ordered
<1> QED BY <1>2, <1>4, <1>5, <1>6

\* What a step adds to the answers: nothing, or one with the sequence n.
AnswersStay ==
  /\ AnswersNeverGoBack'
  /\ \A m \in Range(sent') : m.kind = "answer" => m \in Range(sent)
AnswersGrow(n) ==
  /\ AnswersNeverGoBack'
  /\ \A m \in Range(sent') : m.kind = "answer" => m \in Range(sent) \/ m.sequence = n

LEMMA QuietKeepsOrder == AnswersNeverGoBack /\ UNCHANGED sent => AnswersStay
BY DEF AnswersNeverGoBack, AnswersStay

LEMMA SendKeepsOrder ==
  ASSUME TypeOK, AnswersNeverGoBack, NEW n, NEW ms \in Seq(Messages), Send(ms),
         Ordered(ms),
         \A m \in Range(ms) : m.kind = "answer" => m.sequence = n /\ Behind(n)
  PROVE  AnswersNeverGoBack' /\ Range(sent') \subseteq Range(sent) \cup Range(ms)
<1>1. sent \in Seq(Messages)
  BY DEF TypeOK
<1>2. CASE connection = "open"
  <2>1. sent' = sent \o ms
    BY <1>2 DEF Send
  <2> HIDE DEF Messages, Send
  <2>2. Range(sent') = Range(sent) \cup Range(ms)
    BY <1>1, <2>1, RangeOfConcat
  <2>3. Ordered(sent)
    BY DEF AnswersNeverGoBack, Ordered
  <2>4. \A x \in Range(sent), y \in Range(ms) :
          x.kind = "answer" /\ y.kind = "answer" => x.sequence <= y.sequence
    BY DEF Behind
  <2>5. Ordered(sent \o ms)
    BY <1>1, <2>3, <2>4, OrderOfConcat
  <2>6. AnswersNeverGoBack'
    BY <2>1, <2>5 DEF AnswersNeverGoBack, Ordered
  <2> QED BY <2>2, <2>6
<1>3. CASE connection # "open"
  BY <1>3, QuietKeepsOrder DEF Send, AnswersStay
<1> QED BY <1>2, <1>3

LEMMA PlainKeepsOrder ==
  ASSUME TypeOK, AnswersNeverGoBack, NEW ms \in Seq(Messages), Send(ms),
         \A m \in Range(ms) : m.kind # "answer"
  PROVE  AnswersStay
<1>1. Ordered(ms)
  <2>1. \A i \in DOMAIN ms : ms[i] \in Range(ms)
    BY DEF Range
  <2> QED BY <2>1 DEF Ordered
<1> QED BY <1>1, SendKeepsOrder DEF AnswersStay

LEMMA EmitLocalKeepsOrder ==
  ASSUME TypeOK, AnswersNeverGoBack, NEW n \in Events, EmitLocal(n)
  PROVE  AnswersStay
<1>1. CASE room
  <2>1. Send(<<Event(n)>>)
    BY <1>1 DEF EmitLocal
  <2>2. <<Event(n)>> \in Seq(Messages) /\ Range(<<Event(n)>>) = {Event(n)}
    BY MessagesAreTyped
  <2>3. Event(n).kind # "answer"
    BY DEF Event
  <2> HIDE DEF Messages, Event
  <2> QED BY <2>1, <2>2, <2>3, PlainKeepsOrder
<1>2. CASE ~room
  BY <1>2, QuietKeepsOrder DEF EmitLocal
<1> QED BY <1>1, <1>2 DEF TypeOK

LEMMA RefusalKeepsOrder ==
  ASSUME TypeOK, AnswersNeverGoBack, NEW j \in Joins,
         Send(<<Refusal(j)>>) \/ Send(<<SystemError>>) \/ Send(<<Refusal(j), SystemError>>)
  PROVE  AnswersStay
<1>1. Refusal(j).kind # "answer" /\ SystemError.kind # "answer"
  BY DEF Refusal, SystemError
<1> HIDE DEF Messages, Refusal, SystemError
<1>2. CASE Send(<<Refusal(j)>>)
  BY <1>1, <1>2, MessagesAreTyped, PlainKeepsOrder
<1>3. CASE Send(<<SystemError>>)
  BY <1>1, <1>3, MessagesAreTyped, PlainKeepsOrder
<1>4. CASE Send(<<Refusal(j), SystemError>>)
  BY <1>1, <1>4, MessagesAreTyped, PlainKeepsOrder
<1> QED BY <1>2, <1>3, <1>4

LEMMA ConfirmKeepsOrder ==
  ASSUME TypeOK, AnswersNeverGoBack, NEW j \in Joins, NEW ms \in Seq(Messages), NEW n \in Events,
         NEW how \in {"current", "replay", "snapshot"},
         Send(Append(ms, Answer(j, how, n))),
         \A m \in Range(ms) : m.kind # "answer",
         Behind(n)
  PROVE  AnswersGrow(n)
<1> DEFINE answer == Answer(j, how, n)
           all == Append(ms, answer)
<1>1. answer.kind = "answer" /\ answer.sequence = n
  BY DEF Answer
<1>2. answer \in Messages
  BY DEF Messages
<1>3. all \in Seq(Messages) /\ Range(all) = Range(ms) \cup {answer}
  BY ConfirmIsTyped
<1> HIDE DEF answer, Messages
<1>4. /\ Len(all) = Len(ms) + 1
      /\ \A i \in 1 .. Len(ms) : all[i] = ms[i]
  BY <1>2
<1>5. Ordered(all)
  <2> SUFFICES ASSUME NEW i \in DOMAIN all, NEW k \in DOMAIN all, i < k,
                      all[i].kind = "answer"
               PROVE  FALSE
    BY DEF Ordered
  <2> HIDE DEF all
  <2>1. i \in 1 .. Len(ms)
    BY <1>3, <1>4
  <2>2. all[i] \in Range(ms)
    BY <1>4, <2>1 DEF Range
  <2> QED BY <2>2
<1> HIDE DEF all
<1>6. Send(all)
  BY DEF all, answer
<1> QED BY <1>1, <1>3, <1>5, <1>6, SendKeepsOrder DEF AnswersGrow

LEMMA AnswersAreNumbers == \A m \in Messages : m.kind = "answer" => m.sequence \in Nat
BY JoinAssumption DEF Messages, Event, Snapshot, Answer, Refusal, SystemError, Events

\* A step that answers nothing and reads no state.
LEMMA PlainStepKeepsOrder ==
  ASSUME AnswersInOrder, AnswersStay, UNCHANGED latest,
         \A j \in Joins : handler'[j].step \in {"replaying", "projecting"} =>
           /\ handler[j].step \in {"replaying", "projecting"}
           /\ handler'[j].current = handler[j].current
  PROVE  AnswersInOrder'
BY DEF AnswersInOrder, AnswersStay, Behind

\* An invocation answers with the state it has read: it is the only one.
LEMMA AnswerKeepsOrder ==
  ASSUME InRoom, AnswersInOrder, UNCHANGED latest, NEW n \in Nat, n <= latest, latest \in Nat,
         AnswersGrow(n), NEW j \in Joins, Running(j),
         HandlerMoves(j, "done", handler[j].current)
  PROVE  AnswersInOrder'
<1>1. ASSUME NEW i \in Joins PROVE handler'[i].step \notin {"replaying", "projecting"}
  BY DEF HandlerMoves, InRoom, Running, Steps
<1> QED BY <1>1 DEF AnswersInOrder, AnswersGrow, Behind

\* Or it goes on with it, and has seen no answer after it.
LEMMA ReadingKeepsOrder ==
  ASSUME InRoom, AnswersInOrder, UNCHANGED <<latest, sent>>, NEW n, Behind(n),
         NEW j \in Joins, Running(j), NEW step, HandlerMoves(j, step, n)
  PROVE  AnswersInOrder'
<1>1. ASSUME NEW i \in Joins, handler'[i].step \in {"replaying", "projecting"}
      PROVE  i = j
  BY <1>1 DEF HandlerMoves, InRoom, Running, Steps
<1>2. \A i \in Joins : handler'[i].step \in {"replaying", "projecting"} =>
        Behind(handler[i].current)'
  BY <1>1 DEF HandlerMoves, Behind
<1> QED BY <1>2 DEF AnswersInOrder, AnswersNeverGoBack, Behind

\* The answers are in order, as far as the state each running invocation holds.
THEOREM AnswersInOrderAlways == ASSUME ~Overlapping PROVE Spec => []AnswersInOrder
<1>1. Init => AnswersInOrder
  <2> SUFFICES ASSUME Init PROVE AnswersInOrder
    OBVIOUS
  <2>1. DOMAIN sent = {} /\ \A j \in Joins : handler[j].step = "none"
    BY DEF Init
  <2> QED BY <2>1 DEF AnswersInOrder, AnswersNeverGoBack, Behind, Range
<1>2. Typed /\ InRoom /\ AnswersInOrder /\ [Next]_vars => AnswersInOrder'
  <2> SUFFICES ASSUME Typed, InRoom, AnswersInOrder, [Next]_vars PROVE AnswersInOrder'
    OBVIOUS
  <2>0. TypeOK /\ AnswersNeverGoBack /\ InRoom /\ AnswersInOrder
    BY DEF Typed, AnswersInOrder
  <2> HIDE DEF Messages
  <2>1. CASE CommitAction
    <3>1. /\ latest' = latest + 1 /\ UNCHANGED <<sent, handler>>
          /\ latest \in Nat /\ sent \in Seq(Messages)
      BY <2>0, <2>1 DEF CommitAction, server, TypeOK
    <3>2. \A m \in Range(sent) : m.kind = "answer" => m.sequence \in Nat
      BY <3>1, AnswersAreNumbers DEF Range
    <3>3. Behind(latest)'
      BY <3>1, <3>2 DEF AnswersInOrder, Behind
    <3>4. \A j \in Joins :
            handler'[j].step \in {"replaying", "projecting"} => Behind(handler[j].current)'
      BY <3>1 DEF AnswersInOrder, Behind
    <3> QED BY <3>1, <3>3, <3>4 DEF AnswersInOrder, AnswersNeverGoBack
  <2>2. ASSUME NEW n \in Events, EmitLocal(n) PROVE AnswersInOrder'
    BY <2>0, <2>2, EmitLocalKeepsOrder, PlainStepKeepsOrder DEF EmitLocal
  <2>3. ASSUME NEW j \in Joins, NEW cursor \in Cursors, Request(j, cursor)
         PROVE AnswersInOrder'
    <3>1. \A i \in Joins : handler'[i].step \in {"replaying", "projecting"} =>
            handler'[i] = handler[i]
      BY <2>0, <2>3 DEF Request, TypeOK
    <3> QED BY <2>0, <2>3, <3>1, QuietKeepsOrder, PlainStepKeepsOrder DEF Request
  <2>4. ASSUME NEW j \in Joins, NEW step \in {"done", "finding"}, Goto(j, step), AnswersStay,
               UNCHANGED latest
         PROVE AnswersInOrder'
    <3>1. HandlerMoves(j, step, handler[j].current)
      BY <2>0, <2>4, GotoMoves DEF Steps
    <3> QED BY <2>0, <2>4, <3>1, PlainStepKeepsOrder DEF HandlerMoves
  <2>5. ASSUME NEW j \in Joins,
               RejectEnvelope(j) \/ Authenticate(j) \/ Expel(j) \/ Fail(j)
         PROVE AnswersInOrder'
    <3>1. /\ UNCHANGED latest
          /\ \/ Refuse(j, <<Refusal(j)>>) \/ Refuse(j, <<SystemError>>)
             \/ Refuse(j, <<Refusal(j), SystemError>>)
             \/ Goto(j, "done") /\ UNCHANGED sent
             \/ Goto(j, "finding") /\ UNCHANGED sent
      BY <2>5 DEF RejectEnvelope, Authenticate, Expel, Fail
    <3>2. CASE UNCHANGED sent /\ (Goto(j, "done") \/ Goto(j, "finding"))
      BY <2>0, <2>4, <3>1, <3>2, QuietKeepsOrder
    <3>3. CASE \/ Refuse(j, <<Refusal(j)>>) \/ Refuse(j, <<SystemError>>)
               \/ Refuse(j, <<Refusal(j), SystemError>>)
      <4>1. Goto(j, "done") /\ AnswersStay
        BY <2>0, <3>3, RefusalKeepsOrder DEF Refuse
      <4> QED BY <2>4, <3>1, <4>1
    <3> QED BY <3>1, <3>2, <3>3
  <2>7. ASSUME NEW j \in Joins, FindMatch(j) PROVE AnswersInOrder'
    <3>1. CASE Refuse(j, <<Refusal(j)>>)
      <4>1. Goto(j, "done") /\ AnswersStay
        BY <2>0, <3>1, RefusalKeepsOrder DEF Refuse
      <4> QED BY <2>4, <2>7, <4>1 DEF FindMatch
    <3>2. CASE Advance(j, "joining", latest) /\ UNCHANGED sent
      <4>1. HandlerMoves(j, "joining", latest)
        BY <2>0, <3>2, AdvanceMoves DEF Steps, TypeOK
      <4> QED BY <2>0, <2>7, <3>2, <4>1, QuietKeepsOrder, PlainStepKeepsOrder
              DEF FindMatch, HandlerMoves
    <3> QED BY <2>7, <3>1, <3>2 DEF FindMatch
  <2>8. ASSUME NEW j \in Joins, EnterRoom(j) PROVE AnswersInOrder'
    <3>1. HandlerMoves(j, "reading", handler[j].current)
      BY <2>0, <2>8, GotoMoves DEF EnterRoom, Steps
    <3> QED BY <2>0, <2>8, <3>1, QuietKeepsOrder, PlainStepKeepsOrder
            DEF EnterRoom, HandlerMoves
  <2>9. ASSUME NEW j \in Joins, ReadState(j) PROVE AnswersInOrder'
    <3>1. /\ handler[j].step = "reading" /\ Running(j) /\ UNCHANGED latest
          /\ latest \in Nat /\ latest \in 0 .. MaxSequence /\ Behind(latest)
      BY <2>0, <2>9 DEF ReadState, Running, Steps, TypeOK, AnswersInOrder
    <3>2. latest \in Events
      BY <2>9, JoinAssumption DEF ReadState, Typed, MatchWasFound, TypeOK, Events
    <3>3. CASE Confirm(j, <<>>, "current", latest)
      <4>1. <<>> \in Seq(Messages) /\ \A m \in Range(<<>>) : m.kind # "answer"
        BY DEF Range
      <4>2. Goto(j, "done") /\ Send(Append(<<>>, Answer(j, "current", latest)))
        BY <3>3 DEF Confirm
      <4>3. HandlerMoves(j, "done", handler[j].current)
        BY <2>0, <4>2, GotoMoves
      <4> HIDE DEF Answer, Send
      <4>4. AnswersGrow(latest)
        BY <2>0, <3>1, <3>2, <4>1, <4>2, ConfirmKeepsOrder
      <4> QED BY <2>0, <3>1, <4>3, <4>4, AnswerKeepsOrder
    <3>4. ASSUME NEW step \in {"replaying", "projecting"}, Advance(j, step, latest),
                 UNCHANGED sent
          PROVE  AnswersInOrder'
      <4>1. HandlerMoves(j, step, latest)
        BY <2>0, <3>1, <3>4, AdvanceMoves DEF Steps
      <4> QED BY <2>0, <3>1, <3>4, <4>1, ReadingKeepsOrder
    <3> QED BY <2>9, <3>3, <3>4 DEF ReadState, Synchronize
  <2>10. ASSUME NEW j \in Joins, ReadReplay(j) PROVE AnswersInOrder'
    <3> DEFINE from == handler[j].cursor
               n == handler[j].current
               replay == [k \in 1 .. n - from |-> Event(from + k)]
    <3>1. /\ handler[j].step = "replaying" /\ Running(j) /\ UNCHANGED latest
          /\ latest \in Nat /\ Behind(n)
      BY <2>0, <2>10 DEF ReadReplay, Running, Steps, TypeOK, AnswersInOrder
    <3>2. n \in Events /\ n \in Nat /\ n <= latest
      BY <2>10, JoinAssumption DEF ReadReplay, Typed, MatchWasFound, TypeOK, Events
    <3>3. CASE Confirm(j, replay, "replay", n)
      <4>1. from \in Nat
        BY <2>10 DEF ReadReplay, Typed, RequestsAreParsed
      <4>2. replay \in Seq(Messages) /\ \A m \in Range(replay) : m.kind = "event"
        BY <3>2, <4>1, ReplayIsTyped
      <4>3. Goto(j, "done") /\ Send(Append(replay, Answer(j, "replay", n)))
        BY <3>3 DEF Confirm
      <4>4. HandlerMoves(j, "done", handler[j].current)
        BY <2>0, <4>3, GotoMoves
      <4> HIDE DEF Answer, Send, replay, n
      <4>5. AnswersGrow(n)
        BY <2>0, <3>1, <3>2, <4>2, <4>3, ConfirmKeepsOrder
      <4> QED BY <2>0, <3>1, <3>2, <4>4, <4>5, AnswerKeepsOrder
    <3>4. CASE Goto(j, "projecting") /\ UNCHANGED sent
      <4>1. HandlerMoves(j, "projecting", n)
        BY <2>0, <3>4, GotoMoves DEF Steps
      <4> QED BY <2>0, <3>1, <3>4, <4>1, ReadingKeepsOrder
    <3> QED BY <2>10, <3>3, <3>4 DEF ReadReplay
  <2>11. ASSUME NEW j \in Joins, ReadProjection(j) PROVE AnswersInOrder'
    <3> DEFINE n == handler[j].current
               snapshot == Snapshot(n, Projection(n))
    <3>1. /\ handler[j].step = "projecting" /\ Running(j) /\ UNCHANGED latest
          /\ latest \in Nat /\ Behind(n)
      BY <2>0, <2>11 DEF ReadProjection, Running, Steps, TypeOK, AnswersInOrder
    <3>2. n \in Events /\ n \in Nat /\ n <= latest
      BY <2>11, JoinAssumption DEF ReadProjection, Typed, MatchWasFound, TypeOK, Events
    <3>3. Projection(n) \in SUBSET Events
      BY <3>2, JoinAssumption DEF Projection, Recorded, Events, Typed, TypeOK
    <3>4. snapshot \in Messages /\ snapshot.kind # "answer"
      BY <3>2, <3>3 DEF Messages, Snapshot
    <3>5. Goto(j, "done") /\ Send(Append(<<snapshot>>, Answer(j, "snapshot", n)))
      BY <2>11 DEF ReadProjection, Confirm
    <3>6. HandlerMoves(j, "done", handler[j].current)
      BY <2>0, <3>5, GotoMoves
    <3> HIDE DEF Answer, Send, snapshot, n
    <3>7. <<snapshot>> \in Seq(Messages) /\ \A m \in Range(<<snapshot>>) : m.kind # "answer"
      BY <3>4 DEF Range
    <3>8. AnswersGrow(n)
      BY <2>0, <3>1, <3>2, <3>5, <3>7, ConfirmKeepsOrder
    <3> QED BY <2>0, <3>1, <3>2, <3>6, <3>8, AnswerKeepsOrder
  <2>12. CASE Drop \/ Revoke \/ UNCHANGED vars
    <3>1. UNCHANGED <<latest, handler, sent>>
      BY <2>12 DEF Drop, Revoke, vars, server
    <3> QED BY <2>0, <3>1, QuietKeepsOrder, PlainStepKeepsOrder
  <2> QED
    BY <2>1, <2>2, <2>3, <2>5, <2>7, <2>8, <2>9, <2>10, <2>11, <2>12 DEF Next, Handle
<1> QED BY <1>1, <1>2, TypedAlways, InRoomAlways, PTL DEF Spec

\* For a client that waits for its answers, a later one never takes it back.
THEOREM AnswersStayInOrder == ASSUME ~Overlapping PROVE Spec => []AnswersNeverGoBack
BY AnswersInOrderAlways, PTL DEF AnswersInOrder
=============================================================================
