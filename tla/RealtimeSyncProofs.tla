-------------------------- MODULE RealtimeSyncProofs --------------------------
(***************************************************************************)
(* Proofs, for any number of synchronizations, any match and any bounds,   *)
(* of what a browser that is "ready" shows and listens to (RealtimeSync).  *)
(*                                                                         *)
(* The argument: from the moment the browser asks until it has settled the *)
(* answer, nothing else is under way on its socket, so that the snapshot   *)
(* it accepts is the one that was read for it, after the room was entered  *)
(* and no earlier than anything it has shown.                              *)
(***************************************************************************)
EXTENDS RealtimeSync, Functions, SequenceTheorems, TLAPS

HandlerSteps ==
  {"none", "authenticating", "finding", "joining", "reading", "projecting", "done"}
Handlers ==
  [Joins -> [step: HandlerSteps, cursor: {NoCursor}, current: 0 .. MaxSequence]]
Snapshots == [kind: {"snapshot"}, sequence: Nat, projection: SUBSET Nat]
Statuses == {"none", "waiting", "deaf", "resolved", "rejected"}
Synchronizations ==
  [Joins -> [status: Statuses, acked: BOOLEAN, snapshot: {None} \cup Snapshots,
             current: BOOLEAN]]

\* The browser sends no lastSequence: no handler ever replays.
ServerTypeOK ==
  /\ latest \in 0 .. MaxSequence
  /\ connection \in {"open", "lost", "ended"}
  /\ room \in BOOLEAN
  /\ handler \in Handlers
  /\ sent \in Seq(Server!Messages)
ClientTypeOK ==
  /\ phase \in Client!Phases
  /\ cursor \in Nat
  /\ transport \in {"none", "opening", "open", "closed"}
  /\ onLine \in BOOLEAN /\ noticed \in BOOLEAN /\ checking \in BOOLEAN
  /\ syncs \in Synchronizations
  /\ ref \in Joins \cup {None}

\* A snapshot of the match, as it was at its sequence.
Good(m) ==
  /\ m \in Snapshots
  /\ m.sequence <= latest
  /\ m.projection = (1 .. m.sequence) \ Unrecorded

\* Nothing is under way on the socket.
IsReply(m) == m.kind \in {"snapshot", "answer"}
NoneRuns == \A j \in Joins : ~Server!Running(j)
NoReply == \A m \in Range(sent) : ~IsReply(m)
InRoom == connection = "open" => room
Settled == NoneRuns /\ NoReply /\ InRoom

\* Nothing is said on a match after an answer, until the browser asks again.
AnswersAreLast(list) ==
  \A i, k \in DOMAIN list : i < k /\ list[i].kind = "answer" => ~IsReply(list[k])

\* What a message in the channel says holds.
Holds(m) ==
  /\ m.kind = "event" => m.sequence \in (1 .. latest) \ Unrecorded
  /\ m.kind = "snapshot" => Good(m) /\ m.sequence >= cursor
  /\ m.kind = "answer" => InRoom

ChannelInv ==
  /\ \A i, j \in Joins : Server!Running(i) /\ Server!Running(j) => i = j
  /\ NoneRuns \/ NoReply
  /\ AnswersAreLast(sent)
  /\ \A m \in Range(sent) : Holds(m)
  /\ transport # "open" => NoneRuns /\ sent = <<>> /\ ~room

HandlerInv ==
  \A j \in Joins :
    /\ handler[j].step \in {"reading", "projecting"} => InRoom
    /\ handler[j].step \in {"joining", "reading", "projecting"} => handler[j].current \in 1 .. latest
    /\ handler[j].step = "projecting" => handler[j].current >= cursor

\* The running synchronization is the one the reference names.
ReferenceInv ==
  /\ \A s \in Joins : syncs[s].current <=> ref = s
  /\ phase = "ready" => transport = "open" /\ ref = None
  /\ transport # "open" => ref = None
  /\ ~onLine /\ noticed => transport # "open"
  /\ checking => transport = "none"

\* What a synchronization was told holds, and its answer ends the exchange.
SyncHolds(sync) ==
  /\ sync.snapshot = None \/ Good(sync.snapshot)
  /\ sync.status = "resolved" => sync.acked /\ Good(sync.snapshot)
  /\ sync.current =>
       /\ sync.snapshot = None \/ sync.snapshot.sequence >= cursor
       /\ sync.status = "resolved" => sync.snapshot.sequence >= cursor
       /\ sync.acked => Settled

SyncInv ==
  /\ \A s \in Joins : SyncHolds(syncs[s])
  /\ cursor <= latest
  /\ phase = "ready" => Settled /\ applied = (1 .. cursor) \ Unrecorded

Inv ==
  /\ ServerTypeOK /\ ClientTypeOK
  /\ ChannelInv /\ HandlerInv /\ ReferenceInv /\ SyncInv
-----------------------------------------------------------------------------
LEMMA ChannelGrows ==
  ASSUME NEW S, NEW s \in Seq(S), NEW t \in Seq(S), AnswersAreLast(s), AnswersAreLast(t),
         (\A m \in Range(s) : m.kind # "answer") \/ (\A m \in Range(t) : ~IsReply(m))
  PROVE  /\ s \o t \in Seq(S)
         /\ AnswersAreLast(s \o t)
         /\ \A m \in Range(s \o t) : m \in Range(s) \/ m \in Range(t)
<1>1. /\ s \o t \in Seq(S)
      /\ Len(s \o t) = Len(s) + Len(t)
      /\ \A i \in 1 .. Len(s) + Len(t) :
           (s \o t)[i] = IF i <= Len(s) THEN s[i] ELSE t[i - Len(s)]
  BY ConcatProperties
<1>2. DOMAIN s = 1 .. Len(s) /\ DOMAIN t = 1 .. Len(t) /\ Len(s) \in Nat /\ Len(t) \in Nat
  OBVIOUS
<1> DEFINE u == s \o t
<1>3. DOMAIN u = 1 .. Len(s) + Len(t)
  BY <1>1
<1>4. ASSUME NEW i \in DOMAIN u
      PROVE  \/ i \in DOMAIN s /\ u[i] = s[i]
             \/ i > Len(s) /\ i - Len(s) \in DOMAIN t /\ u[i] = t[i - Len(s)]
  <2>1. CASE i <= Len(s)
    BY <1>1, <1>2, <1>3, <1>4, <2>1
  <2>2. CASE i > Len(s)
    BY <1>1, <1>2, <1>3, <1>4, <2>2
  <2> QED BY <1>2, <1>3, <2>1, <2>2
<1> HIDE DEF u
<1>5. \A m \in Range(u) : m \in Range(s) \/ m \in Range(t)
  BY <1>4 DEF Range
<1>6. AnswersAreLast(u)
  <2> SUFFICES ASSUME NEW i \in DOMAIN u, NEW k \in DOMAIN u, i < k, u[i].kind = "answer"
               PROVE  ~IsReply(u[k])
    BY DEF AnswersAreLast
  <2>1. i \in Nat /\ k \in Nat
    BY <1>2, <1>3
  <2>2. CASE k \in DOMAIN s /\ u[k] = s[k]
    <3>1. i \in DOMAIN s /\ u[i] = s[i]
      BY <1>2, <1>4, <2>1, <2>2
    <3> QED BY <2>2, <3>1 DEF AnswersAreLast
  <2>3. CASE k > Len(s) /\ k - Len(s) \in DOMAIN t /\ u[k] = t[k - Len(s)]
    <3>1. CASE i \in DOMAIN s /\ u[i] = s[i]
      <4>1. u[i] \in Range(s) /\ u[k] \in Range(t)
        BY <2>3, <3>1 DEF Range
      <4> QED BY <4>1
    <3>2. CASE i - Len(s) \in DOMAIN t /\ u[i] = t[i - Len(s)]
      <4>1. i - Len(s) < k - Len(s)
        BY <1>2, <2>1
      <4> QED BY <2>3, <3>2, <4>1 DEF AnswersAreLast
    <3> QED BY <1>4, <3>1, <3>2
  <2> QED BY <1>4, <2>2, <2>3
<1> QED BY <1>1, <1>5, <1>6 DEF u

LEMMA ChannelShrinks ==
  ASSUME NEW S, NEW s \in Seq(S), s # <<>>, AnswersAreLast(s)
  PROVE  /\ Tail(s) \in Seq(S) /\ Head(s) \in Range(s) /\ Head(s) \in S
         /\ AnswersAreLast(Tail(s))
         /\ \A m \in Range(Tail(s)) : m \in Range(s)
         /\ Head(s).kind = "answer" => \A m \in Range(Tail(s)) : ~IsReply(m)
<1> DEFINE t == Tail(s)
<1>1. /\ t \in Seq(S) /\ Len(t) = Len(s) - 1 /\ Head(s) = s[1]
      /\ \A i \in 1 .. Len(t) : t[i] = s[i + 1]
  OBVIOUS
<1>2. /\ Len(s) \in Nat /\ Len(s) > 0
      /\ DOMAIN s = 1 .. Len(s) /\ DOMAIN t = 1 .. Len(s) - 1
  BY <1>1
<1> HIDE DEF t
<1>3. \A i \in DOMAIN t : i \in Nat /\ i + 1 \in DOMAIN s /\ t[i] = s[i + 1]
  BY <1>1, <1>2
<1>4. Head(s) \in Range(s) /\ Head(s) \in S
  BY <1>1, <1>2 DEF Range
<1>5. \A m \in Range(t) : m \in Range(s)
  BY <1>3 DEF Range
<1>6. AnswersAreLast(t)
  <2> SUFFICES ASSUME NEW i \in DOMAIN t, NEW k \in DOMAIN t, i < k, t[i].kind = "answer"
               PROVE  ~IsReply(t[k])
    BY DEF AnswersAreLast
  <2>1. i + 1 < k + 1
    BY <1>3
  <2> QED BY <1>3, <2>1 DEF AnswersAreLast
<1>7. ASSUME Head(s).kind = "answer", NEW i \in DOMAIN t PROVE ~IsReply(t[i])
  <2>1. 1 \in DOMAIN s /\ 1 < i + 1
    BY <1>2, <1>3
  <2> QED BY <1>1, <1>3, <1>7, <2>1 DEF AnswersAreLast
<1>8. Head(s).kind = "answer" => \A m \in Range(t) : ~IsReply(m)
  BY <1>7 DEF Range
<1> QED BY <1>1, <1>4, <1>5, <1>6, <1>8 DEF t

LEMMA EmptyChannel ==
  /\ <<>> \in Seq(Server!Messages) /\ AnswersAreLast(<<>>)
  /\ \A m \in Range(<<>>) : FALSE
BY DEF AnswersAreLast, Range

\* What comes to hold in later states of the match holds on.
LEMMA GoodStays ==
  ASSUME ServerTypeOK, latest' \in {latest, latest + 1}, NEW m, Good(m)
  PROVE  Good(m)'
BY DEF Good, Snapshots, ServerTypeOK
-----------------------------------------------------------------------------
(* The server's steps.                                                     *)

\* A handler goes on with the state it has read; the others stand still.
HandlerGoes(j, step, n) ==
  /\ handler' \in Handlers
  /\ handler'[j].step = step
  /\ handler'[j].current = n
  /\ \A i \in Joins \ {j} : handler'[i] = handler[i]

LEMMA HandlerSet ==
  ASSUME ServerTypeOK, NEW j \in Joins, NEW step \in HandlerSteps, NEW n \in 0 .. MaxSequence,
         handler' = [handler EXCEPT ![j] = [step |-> step, cursor |-> NoCursor, current |-> n]]
  PROVE  HandlerGoes(j, step, n)
BY DEF HandlerGoes, ServerTypeOK, Handlers

LEMMA GotoGoes ==
  ASSUME ServerTypeOK, NEW j \in Joins, NEW step \in HandlerSteps, Server!Goto(j, step)
  PROVE  HandlerGoes(j, step, handler[j].current)
BY DEF Server!Goto, HandlerGoes, ServerTypeOK, Handlers

LEMMA AdvanceGoes ==
  ASSUME ServerTypeOK, NEW j \in Joins, NEW step \in HandlerSteps, NEW n \in 0 .. MaxSequence,
         Server!Advance(j, step, n)
  PROVE  HandlerGoes(j, step, n)
BY DEF Server!Advance, HandlerGoes, ServerTypeOK, Handlers

\* What a step adds to the channel holds, and is no reply.
Chatters ==
  /\ sent' \in Seq(Server!Messages)
  /\ AnswersAreLast(sent)'
  /\ \A m \in Range(sent') : m \in Range(sent) \/ (~IsReply(m) /\ Holds(m)')

LEMMA SilenceChatters ==
  ASSUME ServerTypeOK, AnswersAreLast(sent), UNCHANGED sent
  PROVE  Chatters
<1>1. AnswersAreLast(sent)'
  BY DEF AnswersAreLast
<1> QED BY <1>1 DEF Chatters, ServerTypeOK

LEMMA SendChatters ==
  ASSUME ServerTypeOK, AnswersAreLast(sent), NEW ms \in Seq(Server!Messages), Server!Send(ms),
         \A m \in Range(ms) : ~IsReply(m) /\ Holds(m)'
  PROVE  Chatters
<1>1. CASE connection = "open"
  <2>1. sent' = sent \o ms /\ sent \in Seq(Server!Messages)
    BY <1>1 DEF Server!Send, ServerTypeOK
  <2>2. AnswersAreLast(ms)
    BY DEF AnswersAreLast, Range
  <2>3. /\ sent \o ms \in Seq(Server!Messages)
        /\ AnswersAreLast(sent \o ms)
        /\ \A m \in Range(sent \o ms) : m \in Range(sent) \/ m \in Range(ms)
    BY <2>1, <2>2, ChannelGrows
  <2>4. AnswersAreLast(sent)'
    BY <2>1, <2>3 DEF AnswersAreLast
  <2> QED BY <2>1, <2>3, <2>4 DEF Chatters
<1>2. CASE connection # "open"
  BY <1>2, SilenceChatters DEF Server!Send
<1> QED BY <1>1, <1>2

\* A running handler is alone on its socket.
LEMMA RunningIsAlone ==
  ASSUME Inv, NEW j \in Joins, Server!Running(j)
  PROVE  /\ NoReply
         /\ transport = "open" /\ phase # "ready"
         /\ \A i \in Joins \ {j} : ~Server!Running(i)
         /\ \A s \in Joins : syncs[s].current => ~syncs[s].acked
BY DEF Inv, ChannelInv, SyncInv, SyncHolds, Settled, NoneRuns

LEMMA HandlerStepKeeps ==
  ASSUME Inv, UNCHANGED <<clientVars, latest>>,
         NEW j \in Joins, Server!Running(j),
         NEW step \in HandlerSteps, NEW n, HandlerGoes(j, step, n),
         step \in {"reading", "projecting"} => InRoom',
         step \in {"joining", "reading", "projecting"} => n \in 1 .. latest,
         step = "projecting" => n >= cursor,
         room' \in BOOLEAN, connection' \in {"open", "lost", "ended"},
         sent' \in Seq(Server!Messages), AnswersAreLast(sent)',
         \A m \in Range(sent') : m \in Range(sent) \/ Holds(m)',
         step = "done" \/ NoReply'
  PROVE  Inv'
<1>1. /\ NoReply /\ transport = "open" /\ phase # "ready"
      /\ \A i \in Joins \ {j} : ~Server!Running(i)
      /\ \A s \in Joins : syncs[s].current => ~syncs[s].acked
  BY RunningIsAlone
<1>2. \A i \in Joins \ {j} : handler'[i] = handler[i]
  BY DEF HandlerGoes
<1>3. \A i \in Joins \ {j} : ~Server!Running(i)'
  BY <1>1, <1>2 DEF Server!Running
<1>4. ServerTypeOK' /\ ClientTypeOK'
  BY DEF Inv, ServerTypeOK, ClientTypeOK, HandlerGoes, clientVars
<1>5. ASSUME NEW m \in Range(sent') PROVE Holds(m)'
  <2>1. CASE m \in Range(sent)
    <3>1. Holds(m) /\ ~IsReply(m)
      BY <1>1, <2>1 DEF Inv, ChannelInv, NoReply
    <3> QED BY <3>1 DEF Holds, IsReply
  <2> QED BY <1>5, <2>1
<1>6. ChannelInv'
  <2>1. step = "done" => NoneRuns'
    BY <1>3 DEF NoneRuns, Server!Running, Server!Steps, HandlerGoes
  <2>2. (\A i, k \in Joins : Server!Running(i) /\ Server!Running(k) => i = k)'
    BY <1>3
  <2>3. transport' = "open"
    BY <1>1 DEF clientVars, Client!clientVars
  <2> QED BY <1>5, <2>1, <2>2, <2>3 DEF ChannelInv
<1>7. HandlerInv'
  <2> SUFFICES ASSUME NEW i \in Joins
               PROVE  /\ handler'[i].step \in {"reading", "projecting"} => InRoom'
                      /\ handler'[i].step \in {"joining", "reading", "projecting"} =>
                           handler'[i].current \in 1 .. latest'
                      /\ handler'[i].step = "projecting" => handler'[i].current >= cursor'
    BY DEF HandlerInv
  <2>1. CASE i = j
    BY <2>1 DEF HandlerGoes, clientVars
  <2>2. CASE i # j
    BY <1>3, <2>2 DEF Server!Running, Server!Steps
  <2> QED BY <2>1, <2>2
<1>8. ReferenceInv'
  BY DEF Inv, ReferenceInv, clientVars
<1>9. SyncInv'
  BY <1>1 DEF Inv, SyncInv, SyncHolds, Good, clientVars
<1> QED BY <1>4, <1>6, <1>7, <1>8, <1>9 DEF Inv

\* Steps of the match, of the network and of Redis.
LEMMA OtherStepKeeps ==
  ASSUME Inv, UNCHANGED <<clientVars, handler>>,
         latest' \in {latest, latest + 1}, latest' \in 0 .. MaxSequence,
         room' \in BOOLEAN, connection' \in {"open", "lost", "ended"}, InRoom => InRoom',
         Chatters, transport # "open" => sent' = <<>> /\ ~room'
  PROVE  Inv'
<1>1. NoneRuns => NoneRuns'
  BY DEF NoneRuns, Server!Running
<1>2. NoReply => NoReply'
  BY DEF NoReply, Chatters
<1>3. Settled => Settled'
  BY <1>1, <1>2 DEF Settled
<1>4. ServerTypeOK' /\ ClientTypeOK'
  BY DEF Inv, ServerTypeOK, ClientTypeOK, Chatters, clientVars
<1>5. \A m : Good(m) => Good(m)'
  BY GoodStays DEF Inv
<1>6. ASSUME NEW m \in Range(sent') PROVE Holds(m)'
  <2>1. CASE m \in Range(sent)
    <3>1. Holds(m) /\ latest \in Nat
      BY <2>1 DEF Inv, ChannelInv, ServerTypeOK
    <3>2. m.kind = "event" => m.sequence \in (1 .. latest') \ Unrecorded
      BY <3>1 DEF Holds
    <3> QED BY <1>5, <3>1, <3>2 DEF Holds, clientVars
  <2> QED BY <1>6, <2>1 DEF Chatters
<1>7. ChannelInv'
  <2>1. (\A i, k \in Joins : Server!Running(i) /\ Server!Running(k) => i = k)'
    BY DEF Inv, ChannelInv, Server!Running
  <2>2. NoneRuns' \/ NoReply'
    BY <1>1, <1>2 DEF Inv, ChannelInv
  <2>3. transport' # "open" => NoneRuns' /\ sent' = <<>> /\ ~room'
    BY <1>1 DEF Inv, ChannelInv, clientVars
  <2> QED BY <1>6, <2>1, <2>2, <2>3 DEF ChannelInv, Chatters
<1>8. HandlerInv'
  BY DEF Inv, HandlerInv, ServerTypeOK, clientVars
<1>9. ReferenceInv'
  BY DEF Inv, ReferenceInv, clientVars
<1>10. SyncInv'
  <2>1. \A s \in Joins : SyncHolds(syncs[s])'
    BY <1>3, <1>5 DEF Inv, SyncInv, SyncHolds, clientVars
  <2>2. cursor' <= latest'
    BY DEF Inv, SyncInv, ServerTypeOK, ClientTypeOK, clientVars
  <2>3. phase' = "ready" => Settled' /\ applied' = (1 .. cursor') \ Unrecorded
    BY <1>3 DEF Inv, SyncInv, clientVars
  <2> QED BY <2>1, <2>2, <2>3 DEF SyncInv
<1> QED BY <1>4, <1>7, <1>8, <1>9, <1>10 DEF Inv

LEMMA MessagesAreTyped ==
  /\ \A n \in 1 .. MaxSequence :
       /\ <<Server!Event(n)>> \in Seq(Server!Messages)
       /\ Range(<<Server!Event(n)>>) = {Server!Event(n)}
  /\ \A j \in Joins :
       /\ <<Server!Refusal(j)>> \in Seq(Server!Messages)
       /\ Range(<<Server!Refusal(j)>>) = {Server!Refusal(j)}
       /\ <<Server!Refusal(j), Server!SystemError>> \in Seq(Server!Messages)
       /\ Range(<<Server!Refusal(j), Server!SystemError>>) =
            {Server!Refusal(j), Server!SystemError}
<1>1. /\ \A n \in 1 .. MaxSequence : Server!Event(n) \in Server!Messages
      /\ \A j \in Joins : Server!Refusal(j) \in Server!Messages
      /\ Server!SystemError \in Server!Messages
  BY DEF Server!Messages, Server!Events
<1>2. \A m : Range(<<m>>) = {m}
  BY DEF Range
<1>3. \A m, k : Range(<<m, k>>) = {m, k}
  <2> TAKE m, k
  <2>1. DOMAIN <<m, k>> = {1, 2} /\ <<m, k>>[1] = m /\ <<m, k>>[2] = k
    OBVIOUS
  <2> QED BY <2>1 DEF Range
<1> QED BY <1>1, <1>2, <1>3

LEMMA EmitLocalKeeps ==
  ASSUME Inv, NEW n \in 1 .. MaxSequence, Server!EmitLocal(n), UNCHANGED clientVars
  PROVE  Inv'
<1> USE SyncAssumption
<1>1. /\ UNCHANGED <<clientVars, handler, latest, connection, room>>
      /\ n \in (1 .. latest) \ Unrecorded
      /\ ServerTypeOK /\ AnswersAreLast(sent)
  BY DEF Server!EmitLocal, Inv, ChannelInv, ServerTypeOK
<1>2. CASE room
  <2>1. Server!Send(<<Server!Event(n)>>)
    BY <1>2 DEF Server!EmitLocal
  <2>2. ~IsReply(Server!Event(n)) /\ Holds(Server!Event(n))'
    BY <1>1 DEF IsReply, Holds, Server!Event
  <2>3. /\ <<Server!Event(n)>> \in Seq(Server!Messages)
        /\ \A m \in Range(<<Server!Event(n)>>) : m = Server!Event(n)
    BY MessagesAreTyped
  <2>4. \A m \in Range(<<Server!Event(n)>>) : ~IsReply(m) /\ Holds(m)'
    BY <2>2, <2>3
  <2>5. Chatters
    BY <1>1, <2>1, <2>3, <2>4, SendChatters
  <2>6. transport = "open"
    BY <1>2 DEF Inv, ChannelInv
  <2> QED BY <1>1, <2>5, <2>6, OtherStepKeeps DEF ServerTypeOK, InRoom
<1>3. CASE ~room
  <2>1. UNCHANGED sent
    BY <1>3 DEF Server!EmitLocal
  <2>2. Chatters
    BY <1>1, <2>1, SilenceChatters
  <2>3. transport # "open" => sent' = <<>> /\ ~room'
    BY <1>1, <2>1 DEF Inv, ChannelInv
  <2> QED BY <1>1, <2>2, <2>3, OtherStepKeeps DEF ServerTypeOK, InRoom
<1> QED BY <1>1, <1>2, <1>3 DEF ServerTypeOK

LEMMA EnvironmentKeeps ==
  ASSUME Inv, Server!CommitAction \/ Server!Drop \/ Server!Revoke, UNCHANGED clientVars
  PROVE  Inv'
<1>1. /\ UNCHANGED <<handler, sent>>
      /\ latest' \in {latest, latest + 1}
      /\ latest' = latest \/ latest < MaxSequence
      /\ \/ room' = room /\ connection' = connection
         \/ room' = FALSE /\ connection' = "lost"
  BY DEF Server!CommitAction, Server!server, Server!Drop, Server!Revoke
<1>2. ServerTypeOK /\ AnswersAreLast(sent)
  BY DEF Inv, ChannelInv
<1>3. Chatters
  BY <1>1, <1>2, SilenceChatters
<1>4. transport # "open" => sent' = <<>> /\ ~room'
  BY <1>1 DEF Inv, ChannelInv
<1>5. latest' \in 0 .. MaxSequence
  BY <1>1, <1>2, SyncAssumption DEF ServerTypeOK
<1>6. room' \in BOOLEAN /\ connection' \in {"open", "lost", "ended"} /\ (InRoom => InRoom')
  BY <1>1, <1>2 DEF ServerTypeOK, InRoom
<1> QED BY <1>1, <1>3, <1>4, <1>5, <1>6, OtherStepKeeps

\* A refusal, or no answer at all, to an invocation that ends.
LEMMA RefusalChatters ==
  ASSUME ServerTypeOK, AnswersAreLast(sent), NEW j \in Joins,
         \/ Server!Send(<<Server!Refusal(j)>>)
         \/ Server!Send(<<Server!Refusal(j), Server!SystemError>>)
         \/ UNCHANGED sent
  PROVE  Chatters
<1>1. ~IsReply(Server!Refusal(j)) /\ Holds(Server!Refusal(j))'
  BY DEF IsReply, Holds, Server!Refusal
<1>2. ~IsReply(Server!SystemError) /\ Holds(Server!SystemError)'
  BY DEF IsReply, Holds, Server!SystemError
<1>3. CASE Server!Send(<<Server!Refusal(j)>>)
  <2>1. \A m \in Range(<<Server!Refusal(j)>>) : ~IsReply(m) /\ Holds(m)'
    BY <1>1, MessagesAreTyped
  <2> QED BY <1>3, <2>1, MessagesAreTyped, SendChatters
<1>4. CASE Server!Send(<<Server!Refusal(j), Server!SystemError>>)
  <2>1. \A m \in Range(<<Server!Refusal(j), Server!SystemError>>) : ~IsReply(m) /\ Holds(m)'
    <3>1. \A m \in Range(<<Server!Refusal(j), Server!SystemError>>) :
            m = Server!Refusal(j) \/ m = Server!SystemError
      BY MessagesAreTyped
    <3> TAKE m \in Range(<<Server!Refusal(j), Server!SystemError>>)
    <3>2. CASE m = Server!Refusal(j)
      BY <1>1, <3>2
    <3>3. CASE m = Server!SystemError
      BY <1>2, <3>3
    <3> QED BY <3>1, <3>2, <3>3
  <2> QED BY <1>4, <2>1, MessagesAreTyped, SendChatters
<1> QED BY <1>3, <1>4, SilenceChatters

\* The steps before the state is read, and the ones that give up.
LEMMA QuietHandlerKeeps ==
  ASSUME Inv, UNCHANGED <<clientVars, latest>>,
         NEW j \in Joins, Server!Running(j),
         NEW step \in {"finding", "joining", "reading", "projecting", "done"}, NEW n,
         HandlerGoes(j, step, n),
         step \in {"reading", "projecting"} => InRoom',
         step \in {"joining", "reading", "projecting"} => n \in 1 .. latest,
         step = "projecting" => n >= cursor,
         room' \in BOOLEAN, connection' \in {"open", "lost", "ended"},
         Chatters
  PROVE  Inv'
<1>1. NoReply'
  BY RunningIsAlone DEF NoReply, Chatters
<1>2. /\ sent' \in Seq(Server!Messages) /\ AnswersAreLast(sent)'
      /\ \A m \in Range(sent') : m \in Range(sent) \/ Holds(m)'
  BY DEF Chatters
<1> QED BY <1>1, <1>2, HandlerStepKeeps DEF HandlerSteps

LEMMA RefuseKeeps ==
  ASSUME Inv, UNCHANGED <<clientVars, latest>>, NEW j \in Joins, Server!Running(j),
         Server!Goto(j, "done"),
         \/ Server!Send(<<Server!Refusal(j)>>)
         \/ Server!Send(<<Server!Refusal(j), Server!SystemError>>)
         \/ UNCHANGED sent,
         room' \in BOOLEAN, connection' \in {"open", "lost", "ended"}
  PROVE  Inv'
<1>1. ServerTypeOK /\ AnswersAreLast(sent)
  BY DEF Inv, ChannelInv
<1>2. HandlerGoes(j, "done", handler[j].current)
  BY <1>1, GotoGoes DEF HandlerSteps
<1>3. Chatters
  BY <1>1, RefusalChatters
<1> QED BY <1>2, <1>3, QuietHandlerKeeps

LEMMA HandleKeeps ==
  ASSUME Inv, NEW j \in Joins, Server!Handle(j), UNCHANGED clientVars
  PROVE  Inv'
<1> USE SyncAssumption
<1>1. /\ ServerTypeOK /\ AnswersAreLast(sent)
      /\ handler[j].cursor = NoCursor /\ handler[j].step \in HandlerSteps
      /\ handler[j].current \in 0 .. MaxSequence /\ handler[j].current \in Nat
      /\ latest \in 0 .. MaxSequence /\ latest \in Nat
      /\ room \in BOOLEAN /\ connection \in {"open", "lost", "ended"}
  BY DEF Inv, ChannelInv, ServerTypeOK, Handlers
<1>2. CASE Server!Authenticate(j)
  <2>1. Server!Running(j) /\ UNCHANGED <<latest, connection, room>>
    BY <1>2 DEF Server!Authenticate, Server!Running, Server!Steps
  <2>2. CASE Server!Goto(j, "finding") /\ UNCHANGED sent
    <3>1. HandlerGoes(j, "finding", handler[j].current)
      BY <1>1, <2>2, GotoGoes DEF HandlerSteps
    <3>2. Chatters
      BY <1>1, <2>2, SilenceChatters
    <3> QED BY <1>1, <2>1, <3>1, <3>2, QuietHandlerKeeps
  <2>3. CASE Server!Goto(j, "done") /\ UNCHANGED sent
    BY <1>1, <2>1, <2>3, RefuseKeeps
  <2> QED BY <1>1, <1>2, <2>2, <2>3 DEF Server!Authenticate
<1>3. CASE Server!Expel(j)
  <2>1. /\ Server!Running(j) /\ UNCHANGED latest
        /\ Server!Goto(j, "done") /\ Server!Send(<<Server!Refusal(j)>>)
        /\ room' = FALSE /\ connection' = IF connection = "open" THEN "ended" ELSE connection
    BY <1>3 DEF Server!Expel, Server!Refuse, Server!Running, Server!Steps
  <2>2. room' \in BOOLEAN /\ connection' \in {"open", "lost", "ended"}
    BY <1>1, <2>1
  <2> QED BY <2>1, <2>2, RefuseKeeps
<1>4. CASE Server!FindMatch(j)
  <2>1. Server!Running(j) /\ UNCHANGED <<latest, connection, room>>
    BY <1>4 DEF Server!FindMatch, Server!Running, Server!Steps
  <2>2. CASE Server!Refuse(j, <<Server!Refusal(j)>>)
    BY <1>1, <2>1, <2>2, RefuseKeeps DEF Server!Refuse
  <2>3. CASE latest # 0 /\ Server!Advance(j, "joining", latest) /\ UNCHANGED sent
    <3>1. HandlerGoes(j, "joining", latest) /\ latest \in 1 .. latest
      BY <1>1, <2>3, AdvanceGoes DEF HandlerSteps
    <3>2. Chatters
      BY <1>1, <2>3, SilenceChatters
    <3> QED BY <1>1, <2>1, <3>1, <3>2, QuietHandlerKeeps
  <2> QED BY <1>4, <2>2, <2>3 DEF Server!FindMatch
<1>5. CASE Server!EnterRoom(j)
  <2>1. /\ Server!Running(j) /\ UNCHANGED <<latest, connection, sent>>
        /\ room' = (connection = "open")
        /\ Server!Goto(j, "reading")
        /\ handler[j].step = "joining"
    BY <1>5 DEF Server!EnterRoom, Server!Running, Server!Steps
  <2>2. HandlerGoes(j, "reading", handler[j].current)
    BY <1>1, <2>1, GotoGoes DEF HandlerSteps
  <2>3. Chatters
    BY <1>1, <2>1, SilenceChatters
  <2>4. InRoom' /\ room' \in BOOLEAN /\ handler[j].current \in 1 .. latest
    BY <2>1 DEF InRoom, Inv, HandlerInv
  <2> QED BY <1>1, <2>1, <2>2, <2>3, <2>4, QuietHandlerKeeps
<1>6. CASE Server!ReadState(j)
  <2>1. /\ Server!Running(j) /\ UNCHANGED <<latest, connection, room, sent>>
        /\ handler[j].step = "reading"
        /\ Server!Advance(j, "projecting", latest)
    BY <1>1, <1>6 DEF Server!ReadState, Server!Synchronize, Server!Running, Server!Steps
  <2>2. HandlerGoes(j, "projecting", latest)
    BY <1>1, <2>1, AdvanceGoes DEF HandlerSteps
  <2>3. Chatters
    BY <1>1, <2>1, SilenceChatters
  <2>4. InRoom' /\ latest \in 1 .. latest /\ latest >= cursor
    BY <1>1, <2>1 DEF InRoom, Inv, HandlerInv, SyncInv, ClientTypeOK
  <2> QED BY <1>1, <2>1, <2>2, <2>3, <2>4, QuietHandlerKeeps
<1>7. CASE Server!ReadProjection(j)
  <2>n. PICK n : n = handler[j].current
    OBVIOUS
  <2>f. PICK folded : folded = Server!Projection(n)
    OBVIOUS
  <2>s. PICK snapshot : snapshot = Server!Snapshot(n, folded)
    OBVIOUS
  <2>a. PICK answer : answer = Server!Answer(j, "snapshot", n)
    OBVIOUS
  <2> DEFINE ms == Append(<<snapshot>>, answer)
  <2>1. /\ Server!Running(j) /\ UNCHANGED <<latest, connection, room>>
        /\ handler[j].step = "projecting"
        /\ Server!Send(ms)
        /\ Server!Goto(j, "done")
    BY <1>7, <2>n, <2>f, <2>s, <2>a
       DEF Server!ReadProjection, Server!Confirm, Server!Running, Server!Steps
  <2>2. HandlerGoes(j, "done", n)
    BY <1>1, <2>1, <2>n, GotoGoes DEF HandlerSteps
  <2>3. InRoom /\ n \in 1 .. latest /\ n >= cursor /\ n \in 1 .. MaxSequence
    BY <1>1, <2>1, <2>n DEF Inv, HandlerInv
  <2>4. folded = (1 .. n) \ Unrecorded
    BY <1>1, <2>3, <2>f DEF Server!Projection, Server!Recorded
  <2>5. /\ snapshot.kind = "snapshot" /\ snapshot.sequence = n
        /\ snapshot \in Snapshots /\ snapshot.projection = folded
        /\ snapshot \in Server!Messages
    <3>1. folded \in SUBSET Server!Events /\ folded \in SUBSET Nat /\ n \in Server!Events
      BY <1>1, <2>3, <2>4 DEF Server!Events
    <3>2. snapshot \in Server!Messages
      BY <2>s, <3>1 DEF Server!Messages
    <3> QED BY <2>3, <2>s, <3>1, <3>2 DEF Server!Snapshot, Snapshots
  <2>6. answer.kind = "answer" /\ answer \in Server!Messages
    BY <2>3, <2>a DEF Server!Answer, Server!Messages, Server!Events
  <2>7. Holds(snapshot)' /\ Holds(answer)'
    <3>1. Good(snapshot)
      BY <2>3, <2>4, <2>5 DEF Good
    <3>2. Good(snapshot)'
      BY <1>1, <2>1, <3>1, GoodStays
    <3> QED BY <2>1, <2>3, <2>5, <2>6, <3>2 DEF Holds, InRoom, clientVars, Client!clientVars, Client!shown
  <2>8. ms \in Seq(Server!Messages) /\ Len(ms) = 2 /\ ms[1] = snapshot /\ ms[2] = answer
    <3>1. /\ <<snapshot>> \in Seq(Server!Messages) /\ Len(<<snapshot>>) = 1
          /\ <<snapshot>>[1] = snapshot
      BY <2>5
    <3> QED BY <2>6, <3>1, AppendProperties
  <2> HIDE DEF ms
  <2>9. /\ ms \in Seq(Server!Messages) /\ AnswersAreLast(ms)
        /\ \A m \in Range(ms) : m = snapshot \/ m = answer
    <3>1. DOMAIN ms = {1, 2} /\ ms[1] = snapshot /\ ms[2] = answer
      BY <2>8
    <3>2. AnswersAreLast(ms)
      BY <2>5, <3>1 DEF AnswersAreLast
    <3> QED BY <2>8, <3>1, <3>2 DEF Range
  <2>10. /\ sent' \in Seq(Server!Messages) /\ AnswersAreLast(sent)'
         /\ \A m \in Range(sent') : m \in Range(sent) \/ m \in Range(ms)
    <3>1. CASE connection = "open"
      <4>1. sent' = sent \o ms /\ sent \in Seq(Server!Messages)
        BY <1>1, <2>1, <3>1 DEF Server!Send, ServerTypeOK
      <4>2. \A m \in Range(sent) : m.kind # "answer"
        BY <2>1, RunningIsAlone DEF NoReply, IsReply
      <4>3. /\ sent \o ms \in Seq(Server!Messages)
            /\ AnswersAreLast(sent \o ms)
            /\ \A m \in Range(sent \o ms) : m \in Range(sent) \/ m \in Range(ms)
        BY <1>1, <2>9, <4>1, <4>2, ChannelGrows
      <4> QED BY <4>1, <4>3 DEF AnswersAreLast
    <3>2. CASE connection # "open"
      <4>1. UNCHANGED sent
        BY <2>1, <3>2 DEF Server!Send
      <4> QED BY <1>1, <4>1 DEF AnswersAreLast, ServerTypeOK
    <3> QED BY <3>1, <3>2
  <2>11. \A m \in Range(sent') : m \in Range(sent) \/ Holds(m)'
    <3>1. ASSUME NEW m \in Range(sent'), m \notin Range(sent) PROVE Holds(m)'
      <4>1. m = snapshot \/ m = answer
        BY <2>9, <2>10, <3>1
      <4>2. CASE m = snapshot
        BY <2>7, <4>2
      <4>3. CASE m = answer
        BY <2>7, <4>3
      <4> QED BY <4>1, <4>2, <4>3
    <3> QED BY <3>1
  <2> QED BY <1>1, <2>1, <2>2, <2>10, <2>11, HandlerStepKeeps DEF HandlerSteps
<1>8. CASE Server!Fail(j)
  <2>1. /\ Server!Running(j) /\ UNCHANGED <<latest, connection>>
        /\ Server!Goto(j, "done") /\ Server!Send(<<Server!Refusal(j), Server!SystemError>>)
        /\ room' = FALSE
    BY <1>8 DEF Server!Fail, Server!Refuse, Server!Running
  <2> QED BY <1>1, <2>1, RefuseKeeps
<1>9. ~Server!RejectEnvelope(j) /\ ~Server!ReadReplay(j)
  BY <1>1 DEF Server!RejectEnvelope, Server!ReadReplay, HandlerSteps
<1> QED BY <1>2, <1>3, <1>4, <1>5, <1>6, <1>7, <1>8, <1>9 DEF Server!Handle
-----------------------------------------------------------------------------
(* The browser's steps.                                                    *)

\* What a synchronization was told, with the status it comes to.
Becomes(sync, status) ==
  [status |-> status, acked |-> sync.acked, snapshot |-> sync.snapshot,
   current |-> sync.current]

LEMMA StatusSet ==
  ASSUME ClientTypeOK, NEW s \in Joins, NEW status \in Statuses,
         syncs' = [syncs EXCEPT ![s].status = status]
  PROVE  /\ syncs' \in Synchronizations
         /\ syncs'[s] = Becomes(syncs[s], status)
         /\ \A i \in Joins \ {s} : syncs'[i] = syncs[i]
BY DEF ClientTypeOK, Synchronizations, Becomes

\* Every synchronization is outdated: it has no say any more.
Outdated ==
  /\ syncs' \in Synchronizations
  /\ \A s \in Joins :
       /\ ~syncs'[s].current
       /\ syncs'[s].acked = syncs[s].acked
       /\ syncs'[s].snapshot = syncs[s].snapshot
       /\ syncs'[s].status = "resolved" => syncs[s].status = "resolved"
  /\ ref' = None

LEMMA OutdateEffect == ClientTypeOK /\ Client!Outdate => Outdated
<1> SUFFICES ASSUME ClientTypeOK, Client!Outdate PROVE Outdated
  OBVIOUS
<1>1. syncs' = [s \in Joins |-> [syncs[s] EXCEPT !.current = FALSE]] /\ ref' = None
  BY DEF Client!Outdate
<1> QED BY <1>1 DEF Outdated, ClientTypeOK, Synchronizations

LEMMA ConnectEffect == ClientTypeOK /\ Client!Connect => Outdated
<1> SUFFICES ASSUME ClientTypeOK, Client!Connect PROVE Outdated
  OBVIOUS
<1>1. /\ syncs' = [s \in Joins |->
           [syncs[s] EXCEPT !.current = FALSE, !.status = IF @ = "waiting" THEN "deaf" ELSE @]]
      /\ ref' = None
  BY DEF Client!Connect
<1>2. ASSUME NEW s \in Joins
      PROVE  /\ syncs'[s] \in [status: Statuses, acked: BOOLEAN, snapshot: {None} \cup Snapshots,
                               current: BOOLEAN]
             /\ ~syncs'[s].current
             /\ syncs'[s].acked = syncs[s].acked
             /\ syncs'[s].snapshot = syncs[s].snapshot
             /\ syncs'[s].status = "resolved" => syncs[s].status = "resolved"
  <2>1. PICK status : status = IF syncs[s].status = "waiting" THEN "deaf" ELSE syncs[s].status
    OBVIOUS
  <2>2. syncs'[s] = [status |-> status, acked |-> syncs[s].acked,
                     snapshot |-> syncs[s].snapshot, current |-> FALSE]
    BY <1>1, <2>1 DEF ClientTypeOK, Synchronizations
  <2>3. /\ syncs[s].status \in Statuses /\ syncs[s].acked \in BOOLEAN
        /\ syncs[s].snapshot \in {None} \cup Snapshots
    BY DEF ClientTypeOK, Synchronizations
  <2>4. status \in Statuses /\ (status = "resolved" => syncs[s].status = "resolved")
    BY <2>1, <2>3 DEF Statuses
  <2> QED BY <2>2, <2>3, <2>4
<1>3. syncs' \in Synchronizations
  BY <1>1, <1>2 DEF Synchronizations
<1> QED BY <1>1, <1>2, <1>3 DEF Outdated

LEMMA OutdatedHolds ==
  ASSUME Inv, Outdated, UNCHANGED latest
  PROVE  \A s \in Joins : SyncHolds(syncs[s])'
BY DEF Inv, SyncInv, SyncHolds, Outdated, Good

\* The running synchronization is new: it was told nothing.
LEMMA SynchronizeEffect ==
  ASSUME Inv, NEW s \in Joins, ref = None, Client!Synchronize(s)
  PROVE  /\ syncs' \in Synchronizations
         /\ ref' = s
         /\ syncs'[s] = [status |-> "waiting", acked |-> FALSE, snapshot |-> None,
                         current |-> TRUE]
         /\ \A i \in Joins \ {s} : syncs'[i] = syncs[i] /\ ~syncs'[i].current
<1>1. syncs' = [syncs EXCEPT ![s] = Client!NewSync] /\ ref' = s
  BY DEF Client!Synchronize
<1>2. /\ syncs \in Synchronizations
      /\ \A i \in Joins : ~syncs[i].current
  BY SyncAssumption DEF Inv, ClientTypeOK, ReferenceInv
<1> QED BY <1>1, <1>2 DEF Synchronizations, Statuses, Client!NewSync

\* A step of the browser alone.
LEMMA LocalStepKeeps ==
  ASSUME Inv, UNCHANGED serverVars, ClientTypeOK', ReferenceInv',
         transport = "open" => transport' = "open",
         cursor' \in {cursor, 0},
         phase' = "ready" => phase = "ready" /\ UNCHANGED <<cursor, applied>>,
         \A s \in Joins : SyncHolds(syncs[s])'
  PROVE  Inv'
<1>1. /\ UNCHANGED <<latest, connection, room, handler, sent>>
      /\ cursor' <= cursor /\ cursor \in Nat /\ cursor' \in Nat /\ latest \in Nat
  BY DEF serverVars, facts, Inv, ServerTypeOK, ClientTypeOK
<1>2. ServerTypeOK'
  BY <1>1 DEF Inv, ServerTypeOK
<1>3. \A m : Good(m) => m.sequence \in Nat
  BY DEF Good, Snapshots
<1>4. \A m : Holds(m) => Holds(m)'
  BY <1>1, <1>3 DEF Holds, Good, InRoom
<1>5. ChannelInv'
  BY <1>1, <1>4 DEF Inv, ChannelInv, Server!Running, NoneRuns, NoReply, AnswersAreLast
<1>6. HandlerInv'
  <2>1. \A j \in Joins : handler[j].current \in Nat
    BY DEF Inv, ServerTypeOK, Handlers
  <2> QED BY <1>1, <2>1 DEF Inv, HandlerInv, InRoom
<1>7. SyncInv'
  <2>1. Settled => Settled'
    BY <1>1 DEF Settled, NoneRuns, NoReply, InRoom, Server!Running
  <2> QED BY <1>1, <2>1 DEF Inv, SyncInv
<1> QED BY <1>2, <1>5, <1>6, <1>7 DEF Inv

\* A step that leaves the socket, or opens a fresh one.
LEMMA FreshSocketKeeps ==
  ASSUME Inv, UNCHANGED facts, FreshSocket, ClientTypeOK', ReferenceInv',
         connection' \in {"open", "lost", "ended"},
         cursor' \in {cursor, 0}, phase' # "ready",
         handler' \in Handlers,
         \A i \in Joins : handler'[i].step \in {"none", "authenticating"},
         \A i, k \in Joins :
           handler'[i].step = "authenticating" /\ handler'[k].step = "authenticating" => i = k,
         transport' # "open" => \A i \in Joins : handler'[i].step = "none",
         \A s \in Joins : SyncHolds(syncs[s])'
  PROVE  Inv'
<1>1. latest' = latest /\ room' = FALSE /\ sent' = <<>>
  BY DEF facts, FreshSocket
<1>2. ServerTypeOK'
  BY <1>1, EmptyChannel DEF Inv, ServerTypeOK
<1>3. \A i \in Joins : Server!Running(i)' <=> handler'[i].step = "authenticating"
  BY DEF Server!Running, Server!Steps
<1>4. NoReply' /\ AnswersAreLast(sent)' /\ \A m \in Range(sent') : Holds(m)'
  BY <1>1, EmptyChannel DEF NoReply, AnswersAreLast
<1>5. ChannelInv'
  BY <1>1, <1>3, <1>4 DEF ChannelInv, NoneRuns
<1>6. HandlerInv'
  BY DEF HandlerInv
<1>7. SyncInv'
  BY <1>1 DEF Inv, SyncInv, ServerTypeOK, ClientTypeOK
<1> QED BY <1>2, <1>5, <1>6, <1>7 DEF Inv

LEMMA AbandonEffect ==
  ASSUME Inv, Abandon
  PROVE  /\ UNCHANGED facts /\ UNCHANGED latest /\ FreshSocket
         /\ connection' \in {"open", "lost", "ended"}
         /\ handler' \in Handlers
         /\ \A i \in Joins : handler'[i].step = "none"
BY SyncAssumption DEF Abandon, facts, Inv, ServerTypeOK, Handlers, HandlerSteps

LEMMA AbandonKeeps ==
  ASSUME Inv, Abandon, ClientTypeOK', ReferenceInv', cursor' \in {cursor, 0}, phase' # "ready",
         \A s \in Joins : SyncHolds(syncs[s])'
  PROVE  Inv'
<1>1. /\ UNCHANGED facts /\ FreshSocket
      /\ connection' \in {"open", "lost", "ended"}
      /\ handler' \in Handlers
      /\ \A i \in Joins : handler'[i].step = "none"
  BY AbandonEffect
<1> QED BY <1>1, FreshSocketKeeps

LEMMA ConnectKeeps ==
  ASSUME Inv, Connect
  PROVE  Inv'
<1>1. ClientTypeOK /\ Client!Connect /\ Abandon
  BY DEF Inv, Connect
<1>2. Outdated /\ UNCHANGED latest
  BY <1>1, ConnectEffect, AbandonEffect
<1>3. /\ phase' = IF onLine THEN "connecting" ELSE "offline"
      /\ cursor' = 0 /\ checking' = onLine /\ transport' = "none"
      /\ UNCHANGED <<onLine, noticed>>
  BY <1>1 DEF Client!Connect
<1>4. ClientTypeOK'
  BY <1>1, <1>2, <1>3 DEF ClientTypeOK, Outdated, Client!Phases
<1>5. ReferenceInv'
  BY <1>2, <1>3, SyncAssumption DEF ReferenceInv, Outdated
<1>6. \A s \in Joins : SyncHolds(syncs[s])'
  BY <1>2, OutdatedHolds
<1> QED BY <1>1, <1>3, <1>4, <1>5, <1>6, AbandonKeeps

LEMMA DisconnectedKeeps ==
  ASSUME Inv, Disconnected
  PROVE  Inv'
<1>1. /\ ClientTypeOK /\ Client!Outdate /\ Abandon
      /\ cursor' = cursor /\ transport' \in {"closed", "opening"}
      /\ phase' \in {"connecting", "offline"}
      /\ transport = "open"
      /\ UNCHANGED <<onLine, noticed, checking>>
  BY DEF Inv, Disconnected, Client!Disconnected, Client!Show
<1>2. Outdated /\ UNCHANGED latest
  BY <1>1, OutdateEffect, AbandonEffect
<1>3. ClientTypeOK'
  BY <1>1, <1>2 DEF ClientTypeOK, Outdated, Client!Phases
<1>4. ReferenceInv'
  BY <1>1, <1>2, SyncAssumption DEF Inv, ReferenceInv, Outdated
<1>5. \A s \in Joins : SyncHolds(syncs[s])'
  BY <1>2, OutdatedHolds
<1> QED BY <1>1, <1>3, <1>4, <1>5, AbandonKeeps

LEMMA OfflineKeeps ==
  ASSUME Inv, Offline
  PROVE  Inv'
<1>1. /\ ClientTypeOK /\ Client!Outdate
      /\ cursor' = cursor /\ phase' = "offline"
      /\ transport' = IF transport = "open" THEN "opening" ELSE transport
      /\ noticed' = TRUE
      /\ UNCHANGED <<onLine, checking>>
      /\ IF transport = "open" THEN Abandon ELSE UNCHANGED serverVars
  BY DEF Inv, Offline, Client!Offline, Client!Show
<1>2. Outdated /\ UNCHANGED latest
  BY <1>1, OutdateEffect, AbandonEffect DEF serverVars, facts
<1>3. ClientTypeOK'
  BY <1>1, <1>2 DEF ClientTypeOK, Outdated, Client!Phases
<1>4. ReferenceInv'
  BY <1>1, <1>2, SyncAssumption DEF Inv, ReferenceInv, Outdated
<1>5. \A s \in Joins : SyncHolds(syncs[s])'
  BY <1>2, OutdatedHolds
<1>6. CASE transport = "open"
  BY <1>1, <1>3, <1>4, <1>5, <1>6, AbandonKeeps
<1>7. CASE transport # "open"
  BY <1>1, <1>3, <1>4, <1>5, <1>7, LocalStepKeeps
<1> QED BY <1>6, <1>7

LEMMA OpenedKeeps ==
  ASSUME Inv, NEW j \in Joins, Opened(j)
  PROVE  Inv'
<1> USE SyncAssumption
<1>1. /\ ClientTypeOK /\ Client!Synchronize(j)
      /\ transport = "opening" /\ transport' = "open" /\ onLine
      /\ phase' = IF Client!Starts THEN "reconciling" ELSE phase
      /\ UNCHANGED <<cursor, onLine, noticed, checking>>
      /\ connection' = "open" /\ FreshSocket /\ UNCHANGED facts
      /\ handler' = [i \in Joins |->
           [step |-> IF i = j THEN "authenticating" ELSE "none", cursor |-> NoCursor,
            current |-> 0]]
  BY DEF Inv, Opened, Client!Opened
<1>2. ref = None /\ phase # "ready"
  BY <1>1 DEF Inv, ReferenceInv
<1>3. /\ syncs' \in Synchronizations
      /\ ref' = j
      /\ syncs'[j] = [status |-> "waiting", acked |-> FALSE, snapshot |-> None,
                      current |-> TRUE]
      /\ \A i \in Joins \ {j} : syncs'[i] = syncs[i] /\ ~syncs'[i].current
  BY <1>1, <1>2, SynchronizeEffect
<1>4. ClientTypeOK'
  BY <1>1, <1>3 DEF ClientTypeOK, Client!Phases
<1>5. ReferenceInv'
  <2>1. \A s \in Joins : syncs'[s].current <=> ref' = s
    BY <1>3
  <2>2. phase' # "ready"
    BY <1>1, <1>2
  <2> QED BY <1>1, <2>1, <2>2 DEF Inv, ReferenceInv
<1>6. \A s \in Joins : SyncHolds(syncs[s])'
  <2> SUFFICES ASSUME NEW s \in Joins PROVE SyncHolds(syncs[s])'
    OBVIOUS
  <2>1. CASE s = j
    BY <1>3, <2>1 DEF SyncHolds
  <2>2. CASE s # j
    <3>1. SyncHolds(syncs[s]) /\ syncs'[s] = syncs[s] /\ ~syncs'[s].current
      BY <1>3, <2>2 DEF Inv, SyncInv
    <3> QED BY <1>1, <3>1 DEF SyncHolds, Good, facts
  <2> QED BY <2>1, <2>2
<1>7. /\ handler' \in Handlers
      /\ \A i \in Joins : handler'[i].step = IF i = j THEN "authenticating" ELSE "none"
  BY <1>1 DEF Handlers, HandlerSteps
<1> QED BY <1>1, <1>2, <1>4, <1>5, <1>6, <1>7, FreshSocketKeeps

\* A synchronization that was told nothing new holds while the cursor stays.
LEMMA SyncHoldsStays ==
  ASSUME Inv, UNCHANGED latest, cursor' \in {cursor, 0}, Settled => Settled', NEW s \in Joins,
         syncs'[s] = syncs[s]
  PROVE  SyncHolds(syncs[s])'
<1>1. SyncHolds(syncs[s]) /\ cursor \in Nat
  BY DEF Inv, SyncInv, ClientTypeOK
<1>2. \A m : Good(m) => Good(m)' /\ m.sequence \in Nat
  BY DEF Good, Snapshots
<1> QED BY <1>1, <1>2 DEF SyncHolds

LEMMA SettledStays == UNCHANGED serverVars => UNCHANGED latest /\ (Settled => Settled')
BY DEF serverVars, facts, Settled, NoneRuns, NoReply, InRoom, Server!Running

\* Steps of the page and of its network.
LEMMA NetworkStepKeeps ==
  ASSUME Inv, UNCHANGED serverVars,
         \/ Client!SessionChecked
         \/ Client!SessionMissing
         \/ Client!ConnectFails(TRUE)
         \/ Client!ConnectFails(FALSE)
         \/ Client!GoOffline
         \/ Client!Online
  PROVE  Inv'
<1> USE SyncAssumption
<1>0. ClientTypeOK /\ ReferenceInv /\ UNCHANGED latest /\ (Settled => Settled')
  BY SettledStays DEF Inv
<1>1. ASSUME UNCHANGED syncs, cursor' \in {cursor, 0}
      PROVE  \A s \in Joins : SyncHolds(syncs[s])'
  BY <1>0, <1>1, SyncHoldsStays
<1>2. CASE Client!SessionChecked
  <2>1. /\ UNCHANGED <<phase, cursor, applied, onLine, noticed, syncs, ref>>
        /\ checking /\ checking' = FALSE /\ transport' = "opening"
    BY <1>2 DEF Client!SessionChecked, Client!shown, Client!pending
  <2>2. ClientTypeOK' /\ ReferenceInv' /\ transport # "open"
    BY <1>0, <2>1 DEF ClientTypeOK, ReferenceInv
  <2> QED BY <1>1, <2>1, <2>2, LocalStepKeeps
<1>3. CASE Client!SessionMissing
  <2>1. /\ UNCHANGED <<cursor, applied, onLine, noticed, transport, syncs, ref>>
        /\ checking' = FALSE /\ phase' = "error"
    BY <1>3 DEF Client!SessionMissing, Client!Show, Client!pending
  <2>2. ClientTypeOK' /\ ReferenceInv'
    BY <1>0, <2>1 DEF ClientTypeOK, ReferenceInv, Client!Phases
  <2> QED BY <1>1, <2>1, <2>2, LocalStepKeeps
<1>4. CASE Client!ConnectFails(TRUE) \/ Client!ConnectFails(FALSE)
  <2>1. /\ UNCHANGED <<cursor, applied, onLine, noticed, checking>>
        /\ transport = "opening" /\ transport' \in {"closed", "opening"}
        /\ phase' = "error" /\ Client!Outdate
    BY <1>4 DEF Client!ConnectFails, Client!Show
  <2>2. Outdated
    BY <1>0, <2>1, OutdateEffect
  <2>3. ClientTypeOK' /\ ReferenceInv'
    BY <1>0, <2>1, <2>2 DEF ClientTypeOK, ReferenceInv, Client!Phases, Outdated
  <2>4. \A s \in Joins : SyncHolds(syncs[s])'
    BY <1>0, <2>2, OutdatedHolds
  <2> QED BY <2>1, <2>3, <2>4, LocalStepKeeps
<1>5. CASE Client!GoOffline
  <2>1. /\ UNCHANGED <<phase, cursor, applied, transport, checking, syncs, ref>>
        /\ onLine' = FALSE /\ noticed' = FALSE
    BY <1>5 DEF Client!GoOffline, Client!shown, Client!pending
  <2>2. ClientTypeOK' /\ ReferenceInv'
    BY <1>0, <2>1 DEF ClientTypeOK, ReferenceInv
  <2> QED BY <1>1, <2>1, <2>2, LocalStepKeeps
<1>6. CASE Client!Online
  <2>1. /\ UNCHANGED <<checking, syncs, ref>>
        /\ ~onLine /\ noticed /\ onLine' = TRUE /\ noticed' = FALSE
        /\ \/ transport # "none" /\ transport' = "opening"
           \/ transport' = transport
        /\ cursor' \in {cursor, 0} /\ phase' \in {"connecting", "idle"}
    BY <1>6 DEF Client!Online, Client!Show, Client!pending
  <2>2. transport # "open" /\ transport' # "open" /\ ref = None
    BY <1>0, <2>1 DEF ReferenceInv
  <2>3. ClientTypeOK'
    <3>1. phase' \in Client!Phases
      BY <2>1 DEF Client!Phases
    <3>2. transport' \in {"none", "opening", "open", "closed"} /\ cursor' \in Nat
      BY <1>0, <2>1 DEF ClientTypeOK
    <3> QED BY <1>0, <2>1, <3>1, <3>2 DEF ClientTypeOK
  <2>4. ReferenceInv'
    BY <1>0, <2>1, <2>2 DEF ReferenceInv
  <2> QED BY <1>1, <2>1, <2>2, <2>3, <2>4, LocalStepKeeps
<1> QED BY <1>2, <1>3, <1>4, <1>5, <1>6

LEMMA TimeoutKeeps ==
  ASSUME Inv, UNCHANGED serverVars, NEW j \in Joins, Client!Timeout(j)
  PROVE  Inv'
<1>0. ClientTypeOK /\ ReferenceInv /\ UNCHANGED latest /\ (Settled => Settled')
  BY SettledStays DEF Inv
<1>1. /\ syncs' = [syncs EXCEPT ![j].status = "rejected"]
      /\ UNCHANGED <<phase, cursor, applied, onLine, noticed, transport, checking, ref>>
  BY DEF Client!Timeout, Client!shown, Client!network
<1>2. /\ syncs' \in Synchronizations
      /\ syncs'[j] = Becomes(syncs[j], "rejected")
      /\ \A i \in Joins \ {j} : syncs'[i] = syncs[i]
  BY <1>0, <1>1, StatusSet DEF Statuses
<1>3. ClientTypeOK'
  BY <1>0, <1>1, <1>2 DEF ClientTypeOK
<1>4. ReferenceInv'
  BY <1>0, <1>1, <1>2 DEF ReferenceInv, Becomes
<1>5. SyncHolds(syncs[j])'
  BY <1>0, <1>1, <1>2 DEF Inv, SyncInv, SyncHolds, Becomes, Good
<1>6. \A s \in Joins : SyncHolds(syncs[s])'
  BY <1>0, <1>1, <1>2, <1>5, SyncHoldsStays
<1> QED BY <1>1, <1>3, <1>4, <1>6, LocalStepKeeps

\* The scoreboard is taken from the snapshot of the running synchronization.
LEMMA SettleEffect ==
  ASSUME Inv, NEW j \in Joins, Client!Settle(j)
  PROVE  /\ syncs' \in Synchronizations
         /\ syncs'[j] = Client!NoSync
         /\ \A i \in Joins \ {j} : syncs'[i] = syncs[i]
         /\ ref' = IF ref = j THEN None ELSE ref
         /\ UNCHANGED <<onLine, noticed, transport, checking>>
         /\ \/ UNCHANGED <<phase, cursor, applied>> /\ ~syncs[j].current
            \/ phase' \in {"error", "offline"} /\ UNCHANGED <<cursor, applied>>
            \/ UNCHANGED <<phase, cursor, applied>> /\ phase # "reconciling"
            \/ /\ syncs[j].current /\ syncs[j].status = "resolved"
               /\ phase = "reconciling" /\ phase' = "ready"
               /\ cursor' = syncs[j].snapshot.sequence
               /\ applied' = syncs[j].snapshot.projection
<1>1. syncs' = [syncs EXCEPT ![j] = Client!NoSync]
  BY DEF Client!Settle
<1>2. syncs \in Synchronizations
  BY DEF Inv, ClientTypeOK
<1>3. /\ syncs' \in Synchronizations
      /\ syncs'[j] = Client!NoSync
      /\ \A i \in Joins \ {j} : syncs'[i] = syncs[i]
  BY <1>1, <1>2 DEF Synchronizations, Statuses, Client!NoSync
<1> QED BY <1>3 DEF Client!Settle, Client!network, Client!shown, Client!Show, Client!Accept

LEMMA SettleKeeps ==
  ASSUME Inv, UNCHANGED serverVars, NEW j \in Joins, Client!Settle(j)
  PROVE  Inv'
<1> USE SyncAssumption
<1>0. /\ ServerTypeOK /\ ClientTypeOK /\ ReferenceInv
      /\ UNCHANGED <<latest, connection, room, handler, sent>> /\ (Settled => Settled')
  BY SettledStays DEF Inv, serverVars, facts
<1>1. /\ syncs' \in Synchronizations
      /\ syncs'[j] = Client!NoSync
      /\ \A i \in Joins \ {j} : syncs'[i] = syncs[i]
      /\ ref' = IF ref = j THEN None ELSE ref
      /\ UNCHANGED <<onLine, noticed, transport, checking>>
  BY SettleEffect
<1>2. syncs'[j].current = FALSE /\ SyncHolds(syncs[j])'
  BY <1>1 DEF Client!NoSync, SyncHolds
<1>3. \A s \in Joins : syncs'[s].current <=> ref' = s
  BY <1>0, <1>1, <1>2 DEF ReferenceInv, ClientTypeOK
<1>4. ASSUME UNCHANGED <<cursor, applied>>,
             phase' = phase \/ phase' \in {"error", "offline"}
      PROVE  Inv'
  <2>1. ClientTypeOK'
    BY <1>0, <1>1, <1>4 DEF ClientTypeOK, Client!Phases
  <2>2. ReferenceInv'
    BY <1>0, <1>1, <1>3, <1>4 DEF ReferenceInv
  <2>3. \A s \in Joins : SyncHolds(syncs[s])'
    BY <1>0, <1>1, <1>2, <1>4, SyncHoldsStays
  <2> QED BY <1>1, <1>4, <2>1, <2>2, <2>3, LocalStepKeeps
<1>5. ASSUME syncs[j].current, syncs[j].status = "resolved",
             phase = "reconciling", phase' = "ready",
             cursor' = syncs[j].snapshot.sequence,
             applied' = syncs[j].snapshot.projection
      PROVE  Inv'
  <2>1. /\ ref = j /\ ref' = None
        /\ Good(syncs[j].snapshot) /\ Settled
        /\ cursor' >= cursor
    BY <1>0, <1>1, <1>5 DEF ReferenceInv, Inv, SyncInv, SyncHolds
  <2>2. /\ cursor' \in Nat /\ cursor' <= latest
        /\ applied' = (1 .. cursor') \ Unrecorded
    BY <1>5, <2>1 DEF Good, Snapshots
  <2>3. transport = "open"
    BY <1>0, <1>5, <2>1 DEF ReferenceInv
  <2>4. ServerTypeOK' /\ ClientTypeOK'
    BY <1>0, <1>1, <1>5, <2>2 DEF ServerTypeOK, ClientTypeOK, Client!Phases
  <2>5. ReferenceInv'
    BY <1>0, <1>1, <1>3, <2>1, <2>3 DEF ReferenceInv
  <2>6. ChannelInv'
    <3>1. \A m \in Range(sent) : Holds(m) /\ ~IsReply(m)
      BY <2>1 DEF Inv, ChannelInv, Settled, NoReply
    <3>2. \A m \in Range(sent) : Holds(m)'
      BY <1>0, <3>1 DEF Holds, IsReply
    <3> QED BY <1>0, <1>1, <2>3, <3>2 DEF Inv, ChannelInv, Server!Running, NoneRuns, NoReply,
                                        AnswersAreLast
  <2>7. HandlerInv'
    <3>1. \A i \in Joins : handler[i].step \notin {"joining", "reading", "projecting"}
      BY <2>1 DEF Settled, NoneRuns, Server!Running, Server!Steps
    <3> QED BY <1>0, <3>1 DEF HandlerInv
  <2>8. SyncInv'
    <3>1. ASSUME NEW s \in Joins \ {j} PROVE SyncHolds(syncs[s])'
      <4>1. SyncHolds(syncs[s]) /\ syncs'[s] = syncs[s] /\ ~syncs'[s].current
        BY <1>1, <1>3, <2>1, <3>1 DEF Inv, SyncInv
      <4> QED BY <1>0, <4>1 DEF SyncHolds, Good
    <3> QED BY <1>0, <1>2, <2>1, <2>2, <3>1 DEF SyncInv
  <2> QED BY <2>4, <2>5, <2>6, <2>7, <2>8 DEF Inv
<1> QED BY <1>4, <1>5, SettleEffect
-----------------------------------------------------------------------------
(* What the browser receives.                                              *)

\* The head of the channel holds; once it is an answer, no reply follows.
LEMMA HeadHolds ==
  ASSUME Inv, sent # <<>>, sent' = Tail(sent)
  PROVE  /\ Holds(Head(sent)) /\ Head(sent) \in Server!Messages
         /\ sent' \in Seq(Server!Messages) /\ AnswersAreLast(sent)'
         /\ \A m \in Range(sent') : m \in Range(sent)
         /\ NoReply => NoReply' /\ ~IsReply(Head(sent))
         /\ Head(sent).kind = "answer" => NoReply' /\ NoneRuns /\ InRoom
         /\ transport = "open"
<1>1. sent \in Seq(Server!Messages) /\ AnswersAreLast(sent)
  BY DEF Inv, ServerTypeOK, ChannelInv
<1>2. /\ Tail(sent) \in Seq(Server!Messages) /\ Head(sent) \in Range(sent)
      /\ Head(sent) \in Server!Messages
      /\ AnswersAreLast(Tail(sent))
      /\ \A m \in Range(Tail(sent)) : m \in Range(sent)
      /\ Head(sent).kind = "answer" => \A m \in Range(Tail(sent)) : ~IsReply(m)
  BY <1>1, ChannelShrinks
<1>3. AnswersAreLast(sent)'
  BY <1>2 DEF AnswersAreLast
<1>4. Holds(Head(sent)) /\ transport = "open" /\ (NoneRuns \/ NoReply)
  BY <1>2 DEF Inv, ChannelInv
<1>5. NoReply => NoReply' /\ ~IsReply(Head(sent))
  BY <1>2 DEF NoReply
<1>6. Head(sent).kind = "answer" => NoReply' /\ NoneRuns /\ InRoom
  BY <1>2, <1>4 DEF NoReply, Holds, IsReply
<1> QED BY <1>2, <1>3, <1>4, <1>5, <1>6

\* A message is taken from the channel, and the scoreboard stays.
LEMMA ReceiveKeeps ==
  ASSUME Inv, sent # <<>>, sent' = Tail(sent),
         UNCHANGED <<facts, connection, room, handler, transport, cursor, applied>>,
         ClientTypeOK', ReferenceInv',
         phase' = "ready" => phase = "ready",
         \A s \in Joins : SyncHolds(syncs[s])'
  PROVE  Inv'
<1>1. /\ sent' \in Seq(Server!Messages) /\ AnswersAreLast(sent)'
      /\ \A m \in Range(sent') : m \in Range(sent)
      /\ NoReply => NoReply'
      /\ transport = "open" /\ latest' = latest
  BY HeadHolds DEF facts
<1>2. NoneRuns => NoneRuns'
  BY DEF NoneRuns, Server!Running
<1>3. ServerTypeOK'
  BY <1>1 DEF Inv, ServerTypeOK
<1>4. \A m \in Range(sent') : Holds(m)'
  BY <1>1 DEF Inv, ChannelInv, Holds, Good, InRoom
<1>5. ChannelInv'
  BY <1>1, <1>2, <1>4 DEF Inv, ChannelInv, Server!Running
<1>6. HandlerInv'
  BY <1>1 DEF Inv, HandlerInv, InRoom
<1>7. SyncInv'
  BY <1>1, <1>2 DEF Inv, SyncInv, Settled, InRoom
<1> QED BY <1>3, <1>5, <1>6, <1>7 DEF Inv

\* The next event is applied: nothing else is under way.
LEMMA ApplyKeeps ==
  ASSUME Inv, sent # <<>>, sent' = Tail(sent),
         UNCHANGED <<facts, connection, room, handler, phase, transport, onLine, noticed,
                     checking, syncs, ref>>,
         phase = "ready", NEW n, n = cursor + 1, n \in (1 .. latest) \ Unrecorded,
         cursor' = n, applied' = applied \cup {n}
  PROVE  Inv'
<1>0. /\ ServerTypeOK /\ ClientTypeOK /\ ReferenceInv /\ latest' = latest /\ latest \in Nat
      /\ Settled /\ applied = (1 .. cursor) \ Unrecorded /\ cursor \in Nat
  BY DEF Inv, SyncInv, facts, ServerTypeOK, ClientTypeOK
<1>1. /\ sent' \in Seq(Server!Messages) /\ AnswersAreLast(sent)'
      /\ \A m \in Range(sent') : m \in Range(sent)
      /\ NoReply' /\ transport = "open"
  BY <1>0, HeadHolds DEF Settled
<1>2. ServerTypeOK' /\ ClientTypeOK' /\ ReferenceInv'
  BY <1>0, <1>1 DEF ServerTypeOK, ClientTypeOK, ReferenceInv
<1>3. \A m \in Range(sent') : Holds(m)'
  <2>1. \A m \in Range(sent') : Holds(m) /\ ~IsReply(m)
    BY <1>0, <1>1 DEF Inv, ChannelInv, Settled, NoReply
  <2> QED BY <1>0, <2>1 DEF Holds, IsReply
<1>4. ChannelInv'
  BY <1>1, <1>3 DEF Inv, ChannelInv, Server!Running, NoneRuns
<1>5. HandlerInv'
  <2>1. \A i \in Joins : handler[i].step \notin {"joining", "reading", "projecting"}
    BY <1>0 DEF Settled, NoneRuns, Server!Running, Server!Steps
  <2> QED BY <2>1 DEF HandlerInv
<1>6. SyncInv'
  <2>1. ASSUME NEW s \in Joins PROVE SyncHolds(syncs[s])'
    <3>1. SyncHolds(syncs[s]) /\ ~syncs[s].current
      BY <1>0, SyncAssumption DEF Inv, SyncInv, ReferenceInv
    <3> QED BY <1>0, <3>1 DEF SyncHolds, Good
  <2>2. Settled'
    BY <1>0, <1>1 DEF Settled, NoneRuns, InRoom, Server!Running
  <2>3. (1 .. cursor) \cup {n} = 1 .. n
    BY <1>0
  <2>4. applied' = (1 .. n) \ Unrecorded /\ n <= latest
    BY <1>0, <2>3
  <2> QED BY <1>0, <2>1, <2>2, <2>4 DEF SyncInv
<1> QED BY <1>2, <1>4, <1>5, <1>6 DEF Inv

\* A gap: the browser asks again, on a socket where nothing is under way.
LEMMA GapKeeps ==
  ASSUME Inv, sent # <<>>, sent' = Tail(sent),
         UNCHANGED <<facts, connection, room, transport, onLine, noticed, checking,
                     cursor, applied>>,
         phase = "ready", phase' = "reconciling", NEW j \in Joins, Client!Synchronize(j), Ask(j)
  PROVE  Inv'
<1>0. /\ ServerTypeOK /\ ClientTypeOK /\ ReferenceInv /\ latest' = latest /\ latest \in Nat
      /\ Settled /\ ref = None /\ cursor \in Nat
  BY DEF Inv, SyncInv, facts, ServerTypeOK, ClientTypeOK, ReferenceInv
<1>1. /\ sent' \in Seq(Server!Messages) /\ AnswersAreLast(sent)'
      /\ \A m \in Range(sent') : m \in Range(sent)
      /\ NoReply' /\ transport = "open"
  BY <1>0, HeadHolds DEF Settled
<1>2. /\ syncs' \in Synchronizations
      /\ ref' = j
      /\ syncs'[j] = [status |-> "waiting", acked |-> FALSE, snapshot |-> None,
                      current |-> TRUE]
      /\ \A i \in Joins \ {j} : syncs'[i] = syncs[i] /\ ~syncs'[i].current
  BY <1>0, SynchronizeEffect
<1>3. /\ handler' \in Handlers
      /\ \A i \in Joins \ {j} : handler'[i] = handler[i]
      /\ handler'[j] = handler[j] \/ handler'[j].step = "authenticating"
  <2>1. CASE UNCHANGED handler
    BY <1>0, <2>1 DEF ServerTypeOK
  <2>2. CASE handler' = [handler EXCEPT ![j] =
               [step |-> "authenticating", cursor |-> NoCursor, current |-> 0]]
    <3>1. HandlerGoes(j, "authenticating", 0)
      <4>1. "authenticating" \in HandlerSteps /\ 0 \in 0 .. MaxSequence
        BY SyncAssumption DEF HandlerSteps
      <4> QED BY <1>0, <2>2, <4>1, HandlerSet
    <3> QED BY <3>1 DEF HandlerGoes
  <2> QED BY <2>1, <2>2 DEF Ask
<1>4. /\ \A i \in Joins \ {j} : ~Server!Running(i)'
      /\ \A i \in Joins : handler'[i].step \notin {"joining", "reading", "projecting"}
  BY <1>0, <1>3 DEF Settled, NoneRuns, Server!Running, Server!Steps
<1>5. ServerTypeOK' /\ ClientTypeOK'
  BY <1>0, <1>1, <1>2, <1>3 DEF ServerTypeOK, ClientTypeOK, Client!Phases
<1>6. ReferenceInv'
  <2>1. \A s \in Joins : syncs'[s].current <=> ref' = s
    BY <1>2
  <2> QED BY <1>0, <1>1, <2>1 DEF ReferenceInv
<1>7. ChannelInv'
  <2>1. \A m \in Range(sent') : Holds(m)'
    BY <1>0, <1>1 DEF Inv, ChannelInv, Holds, Good, InRoom
  <2> QED BY <1>1, <1>4, <2>1 DEF ChannelInv
<1>8. HandlerInv'
  BY <1>4 DEF HandlerInv
<1>9. SyncInv'
  <2>1. SyncHolds(syncs[j])'
    BY <1>2 DEF SyncHolds
  <2>2. ASSUME NEW s \in Joins \ {j} PROVE SyncHolds(syncs[s])'
    <3>1. SyncHolds(syncs[s]) /\ syncs'[s] = syncs[s] /\ ~syncs'[s].current
      BY <1>2, <2>2 DEF Inv, SyncInv
    <3> QED BY <1>0, <3>1 DEF SyncHolds, Good
  <2> QED BY <1>0, <2>1, <2>2 DEF Inv, SyncInv
<1> QED BY <1>5, <1>6, <1>7, <1>8, <1>9 DEF Inv

LEMMA EventKeeps ==
  ASSUME Inv, sent # <<>>, sent' = Tail(sent), UNCHANGED <<facts, connection, room>>,
         Head(sent).kind = "event", NEW j \in Joins,
         Client!OnEvent(Head(sent).sequence, j), Ask(j)
  PROVE  Inv'
<1>0. ClientTypeOK /\ ReferenceInv /\ cursor \in Nat
  BY DEF Inv, ClientTypeOK
<1>n. PICK n : n = Head(sent).sequence
  OBVIOUS
<1>1. n \in (1 .. latest) \ Unrecorded /\ (NoReply => NoReply')
  BY <1>n, HeadHolds DEF Holds
<1>2. UNCHANGED <<onLine, noticed, transport, checking>>
  BY DEF Client!OnEvent, Client!network
<1>3. CASE UNCHANGED <<Client!shown, Client!pending>>
  <2>1. UNCHANGED <<phase, cursor, applied, syncs, ref, handler>>
    BY <1>3 DEF Client!shown, Client!pending, Ask
  <2>2. ClientTypeOK' /\ ReferenceInv'
    BY <1>0, <1>2, <2>1 DEF ClientTypeOK, ReferenceInv
  <2>3. (Settled => Settled') /\ latest' = latest
    BY <1>1, <2>1 DEF Settled, NoneRuns, InRoom, Server!Running, facts
  <2>4. \A s \in Joins : SyncHolds(syncs[s])'
    BY <2>1, <2>3, SyncHoldsStays
  <2> QED BY <1>2, <2>1, <2>2, <2>4, ReceiveKeeps
<1>4. CASE /\ phase = "ready" /\ Client!Decision(n) = "apply"
           /\ cursor' = n /\ applied' = applied \cup {n}
           /\ UNCHANGED <<phase, named, Client!pending>>
  <2>1. UNCHANGED <<phase, syncs, ref, handler>>
    BY <1>4 DEF Client!pending, Ask
  <2>2. n = cursor + 1
    BY <1>0, <1>1, <1>4 DEF Client!Decision
  <2> QED BY <1>1, <1>2, <1>4, <2>1, <2>2, ApplyKeeps
<1>5. CASE /\ phase = "ready" /\ Client!Show("reconciling") /\ Client!Synchronize(j)
  BY <1>2, <1>5, GapKeeps DEF Client!Show
<1> QED BY <1>n, <1>3, <1>4, <1>5 DEF Client!OnEvent

\* A snapshot reaches the synchronizations that listen: none that has its
\* answer is the running one.
LEMMA SnapshotKeeps ==
  ASSUME Inv, sent # <<>>, sent' = Tail(sent), UNCHANGED <<facts, connection, room, handler>>,
         Head(sent).kind = "snapshot", Client!OnSnapshot(Head(sent))
  PROVE  Inv'
<1>0. /\ ClientTypeOK /\ ReferenceInv /\ latest' = latest
      /\ UNCHANGED <<phase, cursor, applied, onLine, noticed, transport, checking, ref>>
  BY DEF Inv, facts, Client!OnSnapshot, Client!shown, Client!network
<1>m. PICK m : m = Head(sent)
  OBVIOUS
<1>1. Good(m) /\ m.sequence >= cursor /\ ~NoReply /\ (NoReply => NoReply')
  BY <1>m, HeadHolds DEF Holds, IsReply
<1>2. Good(m)' /\ m \in Snapshots
  BY <1>0, <1>1 DEF Good
<1>3. ASSUME NEW s \in Joins
      PROVE  /\ syncs'[s] \in [status: Statuses, acked: BOOLEAN, snapshot: {None} \cup Snapshots,
                               current: BOOLEAN]
             /\ syncs'[s].current = syncs[s].current
             /\ SyncHolds(syncs[s])'
  <2>0. /\ SyncHolds(syncs[s]) /\ syncs[s].status \in Statuses
        /\ syncs[s].acked \in BOOLEAN /\ syncs[s].current \in BOOLEAN
    BY <1>0 DEF Inv, SyncInv, ClientTypeOK, Synchronizations
  <2>1. CASE syncs[s].status = "waiting"
    <3>1. PICK status : status = IF syncs[s].acked THEN "resolved" ELSE "waiting"
      OBVIOUS
    <3>2. syncs'[s] = [status |-> status, acked |-> syncs[s].acked, snapshot |-> m,
                       current |-> syncs[s].current]
      BY <1>0, <1>m, <2>1, <3>1 DEF Client!OnSnapshot, ClientTypeOK, Synchronizations
    <3>3. status \in Statuses /\ (status = "resolved" => syncs[s].acked)
      BY <3>1 DEF Statuses
    <3>4. syncs[s].current => ~syncs[s].acked
      BY <1>1, <2>0 DEF SyncHolds, Settled
    <3> QED BY <1>0, <1>1, <1>2, <2>0, <3>2, <3>3, <3>4 DEF SyncHolds
  <2>2. CASE syncs[s].status # "waiting"
    <3>1. syncs'[s] = syncs[s]
      BY <2>2 DEF Client!OnSnapshot
    <3>2. syncs[s].current => ~syncs[s].acked
      BY <1>1, <2>0 DEF SyncHolds, Settled
    <3> QED BY <1>0, <2>0, <3>1, <3>2 DEF SyncHolds, Good, ClientTypeOK, Synchronizations
  <2> QED BY <2>1, <2>2
<1>4. syncs' \in Synchronizations
  BY <1>3 DEF Client!OnSnapshot, Synchronizations
<1>5. ClientTypeOK' /\ ReferenceInv'
  BY <1>0, <1>3, <1>4 DEF ClientTypeOK, ReferenceInv
<1> QED BY <1>0, <1>3, <1>5, ReceiveKeeps

\* An answer: the exchange it belongs to is over.
LEMMA AnswerKeeps ==
  ASSUME Inv, sent # <<>>, sent' = Tail(sent), UNCHANGED <<facts, connection, room, handler>>,
         NEW s \in Joins, NEW how, Client!OnAnswer(s, how),
         how = "snapshot" => Head(sent).kind = "answer"
  PROVE  Inv'
<1>0. /\ ClientTypeOK /\ ReferenceInv /\ latest' = latest
      /\ UNCHANGED <<phase, cursor, applied, onLine, noticed, transport, checking, ref>>
  BY DEF Inv, facts, Client!OnAnswer, Client!shown, Client!network
<1>1. (NoReply => NoReply') /\ (how = "snapshot" => Settled')
  BY HeadHolds DEF Settled, NoneRuns, InRoom, Server!Running
<1>2. Settled => Settled'
  BY <1>1 DEF Settled, NoneRuns, InRoom, Server!Running
<1>3. /\ SyncHolds(syncs[s]) /\ syncs \in Synchronizations
      /\ syncs[s].acked \in BOOLEAN /\ syncs[s].current \in BOOLEAN
      /\ syncs[s].snapshot \in {None} \cup Snapshots
  BY <1>0 DEF Inv, SyncInv, ClientTypeOK, Synchronizations
<1>4. \A m : Good(m) => Good(m)'
  BY <1>0 DEF Good
<1>5. /\ syncs' \in Synchronizations
      /\ \A i \in Joins \ {s} : syncs'[i] = syncs[i]
      /\ syncs'[s].current = syncs[s].current
      /\ SyncHolds(syncs[s])'
  <2>1. CASE syncs' = syncs
    BY <1>0, <1>2, <1>3, <2>1, SyncHoldsStays
  <2>2. CASE syncs' = [syncs EXCEPT ![s].status = "rejected"]
    <3>1. /\ syncs' \in Synchronizations
          /\ syncs'[s] = Becomes(syncs[s], "rejected")
          /\ \A i \in Joins \ {s} : syncs'[i] = syncs[i]
      BY <1>0, <2>2, StatusSet DEF Statuses
    <3> QED BY <1>0, <1>2, <1>3, <1>4, <3>1 DEF SyncHolds, Becomes
  <2>3. CASE /\ how = "snapshot"
             /\ syncs' = [syncs EXCEPT ![s].acked = TRUE,
                  ![s].status = IF syncs[s].snapshot # None THEN "resolved" ELSE "waiting"]
    <3>1. PICK status : status = IF syncs[s].snapshot # None THEN "resolved" ELSE "waiting"
      OBVIOUS
    <3>2. /\ syncs'[s] = [status |-> status, acked |-> TRUE, snapshot |-> syncs[s].snapshot,
                          current |-> syncs[s].current]
          /\ \A i \in Joins \ {s} : syncs'[i] = syncs[i]
          /\ DOMAIN syncs' = Joins /\ syncs' = [i \in Joins |-> syncs'[i]]
      BY <1>3, <2>3, <3>1 DEF Synchronizations
    <3>3. status \in Statuses /\ (status = "resolved" => syncs[s].snapshot # None)
      BY <3>1 DEF Statuses
    <3>4. syncs'[s] \in [status: Statuses, acked: BOOLEAN, snapshot: {None} \cup Snapshots,
                         current: BOOLEAN]
      BY <1>3, <3>2, <3>3
    <3>5. syncs' \in Synchronizations
      BY <1>3, <3>2, <3>4 DEF Synchronizations
    <3>6. SyncHolds(syncs[s])'
      BY <1>0, <1>1, <1>3, <1>4, <2>3, <3>2, <3>3 DEF SyncHolds
    <3> QED BY <3>2, <3>5, <3>6
  <2> QED BY <2>1, <2>2, <2>3 DEF Client!OnAnswer
<1>6. \A i \in Joins : SyncHolds(syncs[i])'
  BY <1>0, <1>2, <1>5, SyncHoldsStays
<1>7. ClientTypeOK' /\ ReferenceInv'
  BY <1>0, <1>5 DEF ClientTypeOK, ReferenceInv
<1> QED BY <1>0, <1>6, <1>7, ReceiveKeeps

LEMMA ErrorKeeps ==
  ASSUME Inv, sent # <<>>, sent' = Tail(sent), UNCHANGED <<facts, connection, room, handler>>,
         Client!OnSystemError
  PROVE  Inv'
<1>0. /\ ClientTypeOK /\ ReferenceInv /\ latest' = latest
      /\ UNCHANGED <<phase, cursor, applied, onLine, noticed, transport, checking, ref>>
  BY DEF Inv, facts, Client!OnSystemError, Client!shown, Client!network
<1>1. NoReply => NoReply'
  BY HeadHolds
<1>2. Settled => Settled'
  BY <1>1 DEF Settled, NoneRuns, InRoom, Server!Running
<1>3. ASSUME NEW s \in Joins
      PROVE  /\ syncs'[s] \in [status: Statuses, acked: BOOLEAN, snapshot: {None} \cup Snapshots,
                               current: BOOLEAN]
             /\ syncs'[s].current = syncs[s].current
             /\ SyncHolds(syncs[s])'
  <2>0. /\ SyncHolds(syncs[s]) /\ syncs[s].status \in Statuses
        /\ syncs[s].acked \in BOOLEAN /\ syncs[s].current \in BOOLEAN
        /\ syncs[s].snapshot \in {None} \cup Snapshots
    BY <1>0 DEF Inv, SyncInv, ClientTypeOK, Synchronizations
  <2>1. PICK status :
          status = IF syncs[s].status = "waiting" THEN "rejected" ELSE syncs[s].status
    OBVIOUS
  <2>2. syncs'[s] = Becomes(syncs[s], status)
    BY <1>0, <2>1 DEF Client!OnSystemError, ClientTypeOK, Synchronizations, Becomes
  <2>3. status \in Statuses /\ (status = "resolved" => syncs[s].status = "resolved")
    BY <2>0, <2>1 DEF Statuses
  <2>4. \A m : Good(m) => Good(m)'
    BY <1>0 DEF Good
  <2> QED BY <1>0, <1>2, <2>0, <2>2, <2>3, <2>4 DEF SyncHolds, Becomes
<1>4. syncs' \in Synchronizations
  BY <1>3 DEF Client!OnSystemError, Synchronizations
<1>5. ClientTypeOK' /\ ReferenceInv'
  BY <1>0, <1>3, <1>4 DEF ClientTypeOK, ReferenceInv
<1> QED BY <1>0, <1>3, <1>5, ReceiveKeeps
-----------------------------------------------------------------------------
LEMMA ReceiveKeepsInv ==
  ASSUME Inv, Receive
  PROVE  Inv'
<1>1. /\ sent # <<>> /\ sent' = Tail(sent) /\ UNCHANGED <<facts, connection, room>>
      /\ Head(sent) \in Server!Messages
  BY HeadHolds DEF Receive
<1>2. ASSUME NEW j \in Joins, Head(sent).kind = "event",
             Client!OnEvent(Head(sent).sequence, j), Ask(j)
      PROVE  Inv'
  BY <1>1, <1>2, EventKeeps
<1>3. CASE /\ Head(sent).kind = "snapshot" /\ Client!OnSnapshot(Head(sent))
           /\ UNCHANGED handler
  BY <1>1, <1>3, SnapshotKeeps
<1>4. CASE /\ Head(sent).kind = "answer"
           /\ Client!OnAnswer(Head(sent).join, Head(sent).sync)
           /\ UNCHANGED handler
  <2>1. Head(sent).join \in Joins
    BY <1>1, <1>4 DEF Server!Messages, Server!Event, Server!Snapshot, Server!Answer,
                      Server!Refusal, Server!SystemError
  <2> QED BY <1>1, <1>4, <2>1, AnswerKeeps
<1>5. CASE /\ Head(sent).kind = "refusal" /\ Client!OnAnswer(Head(sent).join, "refused")
           /\ UNCHANGED handler
  <2>1. Head(sent).join \in Joins
    BY <1>1, <1>5 DEF Server!Messages, Server!Event, Server!Snapshot, Server!Answer,
                      Server!Refusal, Server!SystemError
  <2> QED BY <1>1, <1>5, <2>1, AnswerKeeps
<1>6. CASE Head(sent).kind = "error" /\ Client!OnSystemError /\ UNCHANGED handler
  BY <1>1, <1>6, ErrorKeeps
<1> QED BY <1>2, <1>3, <1>4, <1>5, <1>6 DEF Receive

LEMMA InvStep == Inv /\ [Next]_vars => Inv'
<1> SUFFICES ASSUME Inv, [Next]_vars PROVE Inv'
  OBVIOUS
<1>1. CASE Connect
  BY <1>1, ConnectKeeps
<1>2. ASSUME NEW j \in Joins, Opened(j) PROVE Inv'
  BY <1>2, OpenedKeeps
<1>3. CASE Disconnected
  BY <1>3, DisconnectedKeeps
<1>4. CASE Offline
  BY <1>4, OfflineKeeps
<1>5. CASE ClientStep
  <2>1. ASSUME NEW j \in Joins, Client!Timeout(j) \/ Client!Settle(j) PROVE Inv'
    BY <1>5, <2>1, TimeoutKeeps, SettleKeeps DEF ClientStep
  <2> QED BY <1>5, <2>1, NetworkStepKeeps DEF ClientStep
<1>6. CASE Receive
  BY <1>6, ReceiveKeepsInv
<1>7. CASE ServerStep
  BY <1>7, EnvironmentKeeps, EmitLocalKeeps, HandleKeeps DEF ServerStep
<1>8. CASE UNCHANGED vars
  <2>1. UNCHANGED serverVars /\ UNCHANGED clientVars
    BY <1>8 DEF vars
  <2>2. /\ UNCHANGED <<phase, cursor, applied, onLine, noticed, transport, checking, syncs, ref>>
        /\ ClientTypeOK /\ ReferenceInv
    BY <2>1 DEF clientVars, Inv
  <2>3. ClientTypeOK' /\ ReferenceInv'
    BY <2>2 DEF ClientTypeOK, ReferenceInv
  <2>4. \A s \in Joins : SyncHolds(syncs[s])'
    BY <2>1, <2>2, SettledStays, SyncHoldsStays
  <2> QED BY <2>1, <2>2, <2>3, <2>4, LocalStepKeeps
<1> QED BY <1>1, <1>2, <1>3, <1>4, <1>5, <1>6, <1>7, <1>8 DEF Next

\* The exchange between the browser and the server is in order.
THEOREM SyncInvariant == Spec => []Inv
<1>1. Init => Inv
  <2> SUFFICES ASSUME Init PROVE Inv
    OBVIOUS
  <2> USE SyncAssumption
  <2>1. /\ latest = 0 /\ connection = "open" /\ room = FALSE /\ sent = <<>>
        /\ handler = [j \in Joins |-> [step |-> "none", cursor |-> NoCursor, current |-> 0]]
        /\ phase = "idle" /\ cursor = 0 /\ transport = "none" /\ ref = None
        /\ onLine = TRUE /\ noticed = FALSE /\ checking = FALSE
        /\ syncs = [s \in Joins |-> Client!NoSync]
    BY DEF Init, Server!Init, Client!ClientInit
  <2>2. ServerTypeOK
    <3>1. 0 \in 0 .. MaxSequence
      OBVIOUS
    <3>2. handler \in Handlers
      BY <2>1, <3>1 DEF Handlers, HandlerSteps
    <3> QED BY <2>1, <3>1, <3>2, EmptyChannel DEF ServerTypeOK
  <2>3. ClientTypeOK
    BY <2>1 DEF ClientTypeOK, Client!Phases, Synchronizations, Statuses, Client!NoSync
  <2>4. NoneRuns /\ NoReply
    BY <2>1, EmptyChannel DEF NoneRuns, NoReply, Server!Running, Server!Steps
  <2>5. ChannelInv
    BY <2>1, <2>4, EmptyChannel DEF ChannelInv, NoneRuns
  <2>6. HandlerInv
    BY <2>1 DEF HandlerInv
  <2>7. ReferenceInv
    BY <2>1 DEF ReferenceInv, Client!NoSync
  <2>8. SyncInv
    BY <2>1 DEF SyncInv, SyncHolds, Client!NoSync
  <2> QED BY <2>2, <2>3, <2>5, <2>6, <2>7, <2>8 DEF Inv
<1> QED BY <1>1, InvStep, PTL DEF Spec

\* A browser that is ready shows the events of the match up to its cursor.
THEOREM ReadyScoreboardIsRight == Spec => []ReadyShowsAPrefix
<1>1. Inv => ReadyShowsAPrefix
  BY DEF Inv, SyncInv, ReadyShowsAPrefix
<1> QED BY <1>1, SyncInvariant, PTL

\* And it is in the room, so that the next event is emitted to it.
THEOREM ReadyIsInTheRoom == Spec => []ReadyClientIsListening
<1>1. Inv => ReadyClientIsListening
  BY DEF Inv, SyncInv, Settled, InRoom, ReadyClientIsListening
<1> QED BY <1>1, SyncInvariant, PTL

\* Only choosing a match anew takes the cursor back: the snapshot that closes a
\* gap is no older than what was shown before it.
THEOREM CursorGoesForward == Spec => CursorNeverGoesBack
<1>1. Inv /\ [Next]_vars => (cursor' >= cursor \/ (cursor' = 0 /\ phase' # "ready"))
  <2> SUFFICES ASSUME Inv, [Next]_vars, cursor' # cursor
               PROVE  cursor' >= cursor \/ (cursor' = 0 /\ phase' # "ready")
    BY DEF Inv, ClientTypeOK
  <2>1. CASE Connect
    BY <2>1 DEF Connect, Client!Connect
  <2>2. ASSUME NEW j \in Joins, Opened(j) PROVE FALSE
    BY <2>2 DEF Opened, Client!Opened
  <2>3. CASE Disconnected
    BY <2>3 DEF Disconnected, Client!Disconnected, Client!Show
  <2>4. CASE Offline
    BY <2>4 DEF Offline, Client!Offline, Client!Show
  <2>5. CASE ClientStep
    <3>1. ASSUME NEW j \in Joins, Client!Timeout(j) PROVE FALSE
      BY <3>1 DEF Client!Timeout, Client!shown
    <3>2. ASSUME NEW j \in Joins, Client!Settle(j) PROVE cursor' >= cursor
      <4>1. syncs[j].current /\ syncs[j].status = "resolved"
            /\ cursor' = syncs[j].snapshot.sequence
        BY <3>2, SettleEffect
      <4> QED BY <4>1 DEF Inv, SyncInv, SyncHolds
    <3>3. CASE \/ Client!SessionChecked \/ Client!SessionMissing
               \/ Client!ConnectFails(TRUE) \/ Client!ConnectFails(FALSE)
               \/ Client!GoOffline \/ Client!Online
      BY <3>3 DEF Client!SessionChecked, Client!SessionMissing, Client!ConnectFails,
                  Client!GoOffline, Client!Online, Client!Show, Client!shown
    <3> QED BY <2>5, <3>1, <3>2, <3>3 DEF ClientStep
  <2>6. CASE Receive
    <3>1. ASSUME NEW j \in Joins, Client!OnEvent(Head(sent).sequence, j),
                 Head(sent).kind = "event"
          PROVE  cursor' >= cursor
      <4>1. Client!Decision(Head(sent).sequence) = "apply" /\ cursor' = Head(sent).sequence
        BY <3>1 DEF Client!OnEvent, Client!Show, Client!shown
      <4>2. cursor \in Nat /\ cursor' = cursor + 1
        BY <4>1 DEF Client!Decision, Inv, ClientTypeOK
      <4> QED BY <4>2
    <3> QED BY <2>6, <3>1 DEF Receive, Client!OnSnapshot, Client!OnAnswer,
                             Client!OnSystemError, Client!shown
  <2>7. CASE ServerStep \/ UNCHANGED vars
    BY <2>7 DEF ServerStep, vars, clientVars
  <2> QED BY <2>1, <2>2, <2>3, <2>4, <2>5, <2>6, <2>7 DEF Next
<1> QED BY <1>1, SyncInvariant, PTL DEF Spec, CursorNeverGoesBack
=============================================================================
