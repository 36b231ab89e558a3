----------------------- MODULE IdempotentCommandProofs -----------------------
(***************************************************************************)
(* Proofs, for any requests, keys, matches and clean-ups, that the safety  *)
(* properties of IdempotentCommand hold.  IInv is the inductive invariant. *)
(***************************************************************************)
EXTENDS IdempotentCommandRefinement, SequenceTheorems, TLAPS

\* What a transaction has written follows from the statement it has reached.
StatementOrder ==
  \A r \in Requests :
    /\ pc[r] # "idle" => command[r] # None
    /\ pc[r] \in {"commit", "respond"} => value[r] # None
    /\ pc[r] \in {"idle", "insert", "select", "respond", "done"} => writes[r] = {}
    /\ pc[r] = "sequence" => writes[r] = {"record"}
    /\ pc[r] = "outbox" => writes[r] = {"record", "sequence"}
    /\ pc[r] = "complete" => writes[r] = {"record", "sequence", "message"}
    /\ pc[r] = "commit" => writes[r] = {} \/ writes[r] = Rows

\* An uncommitted insert of a key is the only one, of a key without a row that
\* nobody deletes.
KeyLockExcludes ==
  \A r \in Requests : Holds(r, "record") =>
    /\ records[KeyOf(r)] = None
    /\ \A s \in Requests : Holds(s, "record") /\ KeyOf(s) = KeyOf(r) => s = r
    /\ \A c \in Cleaners : KeyOf(r) \notin deleting[c]

\* One transaction at a time numbers a match, and its number is still the next.
MatchLockExcludes ==
  \A r \in Requests : Holds(r, "sequence") =>
    /\ drawn[r] = lastSequence[MatchTo(r)] + 1
    /\ \A s \in Requests : Holds(s, "sequence") /\ MatchTo(s) = MatchTo(r) => s = r

\* Only rows whose retention is over are being deleted.
DeletionIsDue ==
  \A c \in Cleaners, k \in Keys :
    k \in deleting[c] => records[k] = None \/ records[k].expiresAt <= clock

\* Each message comes from a request whose transaction is over.
EffectIsOver ==
  \A x \in outbox :
    /\ pc[x.event] \in {"respond", "done"}
    /\ x.key = KeyOf(x.event)
    /\ x.match = MatchOf[x.key]
    /\ x.occurredAt = command[x.event].now

\* Numbers in use, element by element.
NumbersInUse ==
  /\ \A x \in outbox : x.sequence \in 1 .. lastSequence[x.match]
  /\ \A m \in Matches : \A n \in 1 .. lastSequence[m] :
       \E x \in outbox : x.match = m /\ x.sequence = n
  /\ \A x, y \in outbox : x.match = y.match /\ x.sequence = y.sequence => x = y

\* A record and its message agree, also on the end of the retention.
RecordMatchesEffect ==
  \A k \in Keys : records[k] # None =>
    \E x \in outbox : /\ x.key = k
                      /\ x.event = records[k].event
                      /\ x.sequence = records[k].sequence
                      /\ x.action = records[k].action
                      /\ records[k].expiresAt = x.occurredAt + Retention

\* Until its retention is over, the record of an effect is committed.
RetentionCovers ==
  \A x \in outbox :
    \/ x.occurredAt + Retention <= clock
    \/ records[x.key] # None /\ records[x.key].event = x.event

\* A request that ran into a record ran into the effect of its key.
SelectFollowsEffect ==
  \A r \in Requests : pc[r] = "select" => \E x \in outbox : x.key = KeyOf(r)

\* The value about to be returned is that of an effect, or of the own one.
ValueHolds(r) ==
  /\ pc[r] = "commit" /\ writes[r] = Rows =>
       value[r] = [event |-> r, sequence |-> drawn[r]]
  /\ pc[r] = "respond" \/ (pc[r] = "commit" /\ writes[r] = {}) =>
       \E x \in outbox : /\ x.key = KeyOf(r) /\ x.action = ActionOf(r)
                         /\ x.event = value[r].event
                         /\ x.sequence = value[r].sequence
ValueIsDurable == \A r \in Requests : ValueHolds(r)

\* Only finished requests were answered.
AnsweredIsDone == \A r \in Requests : reply[r] # None => pc[r] = "done"

Typed == TypeOK /\ StatementOrder
Locks == KeyLockExcludes /\ MatchLockExcludes /\ DeletionIsDue
Effects == EffectIsOver /\ NumbersInUse /\ RecordMatchesEffect /\ RetentionCovers
Answers == /\ SelectFollowsEffect /\ ValueIsDurable /\ AnsweredIsDone
           /\ AcceptedIsDurable /\ RefusalIsJustified

IInv == Typed /\ Locks /\ Effects /\ Answers
-----------------------------------------------------------------------------
\* The variables keep their types and a transaction writes its rows in order.
THEOREM TypedAlways == Spec => []Typed
<1> USE CommandAssumption, NoneAssumption
<1>1. Init => Typed
  BY DEF Init, Typed, TypeOK, StatementOrder
<1>2. Typed /\ [Next]_vars => Typed'
  <2> SUFFICES ASSUME Typed, [Next]_vars PROVE Typed'
    OBVIOUS
  <2> USE DEF Typed, TypeOK, StatementOrder, tables, Value, Command, Rows
  <2>1. ASSUME NEW r \in Requests, Submit(r) PROVE Typed'
    BY <2>1 DEF Submit
  <2>2. ASSUME NEW r \in Requests, InsertRecord(r) PROVE Typed'
    <3>1. CASE Write(r, "record", "sequence")
      BY <2>2, <3>1 DEF InsertRecord, Write
    <3>2. CASE pc' = [pc EXCEPT ![r] = "select"] /\ UNCHANGED writes
      BY <2>2, <3>2 DEF InsertRecord
    <3>. QED
      BY <2>2, <3>1, <3>2 DEF InsertRecord
  <2>3. ASSUME NEW r \in Requests, SelectExisting(r) PROVE Typed'
    <3>1. records[KeyOf(r)] \in Record \cup {None}
      BY <2>3 DEF SelectExisting, KeyOf
    <3>2. CASE Reject(r, "stateError") \/ Reject(r, "conflict")
      <4>1. reply' \in [Requests -> Reply \cup {None}]
        BY <3>2 DEF Reject, Reply
      <4>2. /\ pc' = [pc EXCEPT ![r] = "done"]
            /\ writes' = [writes EXCEPT ![r] = {}]
            /\ UNCHANGED value
        BY <2>3, <3>2 DEF SelectExisting, Reject
      <4>. QED
        BY <2>3, <4>1, <4>2 DEF SelectExisting
    <3>3. CASE /\ Completed(records[KeyOf(r)])
               /\ value' = [value EXCEPT ![r] =
                              [event |-> records[KeyOf(r)].event,
                               sequence |-> records[KeyOf(r)].sequence]]
               /\ pc' = [pc EXCEPT ![r] = "commit"]
               /\ UNCHANGED <<writes, reply>>
      <4>1. /\ records[KeyOf(r)].event \in Requests
            /\ records[KeyOf(r)].sequence \in Nat
        BY <3>1, <3>3 DEF Completed, Record
      <4>2. value'[r] \in Value
        BY <3>3, <4>1
      <4>3. value' \in [Requests -> Value \cup {None}]
        BY <3>3, <4>1
      <4>4. value'[r] # None
        BY <3>3, <4>1
      <4>. QED
        BY <2>3, <3>3, <4>3, <4>4 DEF SelectExisting
    <3>4. QED
      BY <2>3, <3>2, <3>3 DEF SelectExisting
  <2>4. ASSUME NEW r \in Requests, NextMatchSequence(r) PROVE Typed'
    BY <2>4 DEF NextMatchSequence, Write, MatchFree, MatchTo, KeyOf
  <2>5. ASSUME NEW r \in Requests, RecordOutboxMessage(r) PROVE Typed'
    BY <2>5 DEF RecordOutboxMessage, Write
  <2>6. ASSUME NEW r \in Requests, CompleteRecord(r) PROVE Typed'
    <3>1. value' \in [Requests -> Value \cup {None}]
      BY <2>6 DEF CompleteRecord
    <3>2. value'[r] # None
      BY <2>6 DEF CompleteRecord
    <3>3. writes'[r] = Rows
      BY <2>6 DEF CompleteRecord, Write
    <3>. QED
      BY <2>6, <3>1, <3>2, <3>3 DEF CompleteRecord, Write
  <2>7. ASSUME NEW r \in Requests, Commit(r) PROVE Typed'
    BY <2>7 DEF Commit, RecordOf, MessageOf, KeyOf, ActionOf, MatchTo, Holds, Record, Message
  <2>8. ASSUME NEW r \in Requests, Abort(r) PROVE Typed'
    BY <2>8 DEF Abort, Reject, InTransaction, Reply
  <2>9. ASSUME NEW r \in Requests, Respond(r) PROVE Typed'
    <3>1. value[r] \in Value
      BY <2>9 DEF Respond
    <3> DEFINE status == IF value[r].event = r THEN "accepted" ELSE "replayed"
    <3>2. [status |-> status, event |-> value[r].event,
           sequence |-> value[r].sequence] \in Reply
      <4>1. status \in {"accepted", "replayed"}
        OBVIOUS
      <4> HIDE DEF status
      <4>. QED
        BY <3>1, <4>1 DEF Reply
    <3>3. reply' \in [Requests -> Reply \cup {None}]
      BY <2>9, <3>2 DEF Respond
    <3>. QED
      BY <2>9, <3>3 DEF Respond
  <2>10. ASSUME NEW r \in Requests, LoseReply(r) PROVE Typed'
    BY <2>10 DEF LoseReply, Reject, Reply
  <2>11. ASSUME NEW c \in Cleaners, DeleteExpired(c) PROVE Typed'
    BY <2>11 DEF DeleteExpired, Expired, KeyFree
  <2>12. ASSUME NEW c \in Cleaners, CommitDeletion(c) PROVE Typed'
    BY <2>12 DEF CommitDeletion
  <2>13. ASSUME NEW c \in Cleaners, AbortDeletion(c) PROVE Typed'
    BY <2>13 DEF AbortDeletion
  <2>14. CASE Tick
    BY <2>14 DEF Tick
  <2>15. CASE UNCHANGED vars
    BY <2>15 DEF vars
  <2>16. QED
    BY <2>1, <2>2, <2>3, <2>4, <2>5, <2>6, <2>7, <2>8, <2>9, <2>10, <2>11,
       <2>12, <2>13, <2>14, <2>15 DEF Next, Progress
<1>3. QED
  BY <1>1, <1>2, PTL DEF Spec

\* Row locks exclude one another and clean-ups touch only expired rows.
THEOREM LocksAlways == Spec => []Locks
<1> USE CommandAssumption, NoneAssumption
<1>1. Init => Locks
  BY DEF Init, Locks, KeyLockExcludes, MatchLockExcludes, DeletionIsDue, Holds
<1>2. Typed /\ Locks /\ [Next]_vars => Locks'
  <2> SUFFICES ASSUME Typed, Locks, [Next]_vars PROVE Locks'
    OBVIOUS
  <2> USE DEF Typed, TypeOK, StatementOrder, tables, Rows, Command, Locks,
        KeyLockExcludes, MatchLockExcludes, DeletionIsDue, Holds, KeyOf, MatchTo
  <2>1. ASSUME NEW r \in Requests, Submit(r) PROVE Locks'
    BY <2>1 DEF Submit
  <2>2. ASSUME NEW r \in Requests, InsertRecord(r) PROVE Locks'
    <3>1. UNCHANGED <<clock, records, lastSequence, command, drawn, deleting>>
      BY <2>2 DEF InsertRecord
    <3>2. CASE records[KeyOf(r)] = None /\ Write(r, "record", "sequence")
      <4>1. writes' = [writes EXCEPT ![r] = @ \cup {"record"}]
        BY <3>2 DEF Write
      <4>2. KeyLockExcludes'
        BY <2>2, <3>1, <3>2, <4>1 DEF InsertRecord, KeyFree
      <4>3. MatchLockExcludes' /\ DeletionIsDue'
        BY <3>1, <4>1
      <4>. QED
        BY <4>2, <4>3
    <3>3. CASE writes' = writes
      BY <3>1, <3>3
    <3>. QED
      BY <2>2, <3>2, <3>3 DEF InsertRecord
  <2>3. ASSUME NEW r \in Requests, SelectExisting(r) PROVE Locks'
    BY <2>3 DEF SelectExisting, Completed, SameRequest, Reject
  <2>4. ASSUME NEW r \in Requests, NextMatchSequence(r) PROVE Locks'
    BY <2>4 DEF NextMatchSequence, Write, MatchFree
  <2>5. ASSUME NEW r \in Requests, RecordOutboxMessage(r) PROVE Locks'
    BY <2>5 DEF RecordOutboxMessage, Write
  <2>6. ASSUME NEW r \in Requests, CompleteRecord(r) PROVE Locks'
    BY <2>6 DEF CompleteRecord, Write
  <2>7. ASSUME NEW r \in Requests, Commit(r) PROVE Locks'
    BY <2>7 DEF Commit, RecordOf
  <2>8. ASSUME NEW r \in Requests, Abort(r) PROVE Locks'
    BY <2>8 DEF Abort, Reject, InTransaction
  <2>9. ASSUME NEW r \in Requests, Respond(r) PROVE Locks'
    BY <2>9 DEF Respond
  <2>10. ASSUME NEW r \in Requests, LoseReply(r) PROVE Locks'
    BY <2>10 DEF LoseReply, Reject
  <2>11. ASSUME NEW c \in Cleaners, DeleteExpired(c) PROVE Locks'
    BY <2>11 DEF DeleteExpired, Expired, KeyFree
  <2>12. ASSUME NEW c \in Cleaners, CommitDeletion(c) PROVE Locks'
    BY <2>12 DEF CommitDeletion
  <2>13. ASSUME NEW c \in Cleaners, AbortDeletion(c) PROVE Locks'
    BY <2>13 DEF AbortDeletion
  <2>14. CASE Tick
    <3>1. \A k \in Keys : records[k] # None => records[k].expiresAt \in Nat
      BY DEF Record
    <3>2. KeyLockExcludes' /\ MatchLockExcludes'
      BY <2>14 DEF Tick
    <3>3. DeletionIsDue'
      BY <2>14, <3>1 DEF Tick
    <3>. QED
      BY <3>2, <3>3
  <2>15. CASE UNCHANGED vars
    BY <2>15 DEF vars
  <2>16. QED
    BY <2>1, <2>2, <2>3, <2>4, <2>5, <2>6, <2>7, <2>8, <2>9, <2>10, <2>11,
       <2>12, <2>13, <2>14, <2>15 DEF Next, Progress
<1>3. QED
  BY <1>1, <1>2, TypedAlways, PTL DEF Spec

\* Messages are numbered without gaps, agree with their records, and the record
\* of a message stays until its retention is over.
THEOREM EffectsAlways == Spec => []Effects
<1> USE CommandAssumption, NoneAssumption
<1>1. Init => Effects
  BY DEF Init, Effects, EffectIsOver, NumbersInUse, RecordMatchesEffect,
         RetentionCovers
<1>2. Typed /\ Locks /\ Effects /\ [Next]_vars => Effects'
  <2> SUFFICES ASSUME Typed, Locks, Effects, [Next]_vars PROVE Effects'
    OBVIOUS
  <2> USE DEF Typed, TypeOK, StatementOrder, tables, Rows, Command, Message,
        Effects, EffectIsOver, NumbersInUse, RecordMatchesEffect, RetentionCovers,
        KeyOf
  <2>1. ASSUME NEW r \in Requests, Submit(r) PROVE Effects'
    BY <2>1 DEF Submit
  <2>2. ASSUME NEW r \in Requests, InsertRecord(r) PROVE Effects'
    BY <2>2 DEF InsertRecord, Write, KeyFree
  <2>3. ASSUME NEW r \in Requests, SelectExisting(r) PROVE Effects'
    BY <2>3 DEF SelectExisting, Completed, Reject
  <2>4. ASSUME NEW r \in Requests, NextMatchSequence(r) PROVE Effects'
    BY <2>4 DEF NextMatchSequence, Write, MatchFree
  <2>5. ASSUME NEW r \in Requests, RecordOutboxMessage(r) PROVE Effects'
    BY <2>5 DEF RecordOutboxMessage, Write
  <2>6. ASSUME NEW r \in Requests, CompleteRecord(r) PROVE Effects'
    BY <2>6 DEF CompleteRecord, Write
  <2>7. ASSUME NEW r \in Requests, Commit(r) PROVE Effects'
    <3>1. CASE writes[r] = {}
      BY <2>7, <3>1 DEF Commit, Holds
    <3>2. CASE writes[r] = Rows
      <4> DEFINE k == KeyOf(r)  m == MatchTo(r)  new == MessageOf(r)
      <4>1. /\ k \in Keys /\ m = MatchOf[k] /\ m \in Matches
            /\ new \in Message /\ new.event = r /\ new.key = k /\ new.match = m
            /\ new.action = ActionOf(r) /\ new.sequence = drawn[r]
            /\ new.occurredAt = command[r].now
        BY <2>7 DEF Commit, MessageOf, MatchTo, ActionOf
      <4>2. /\ records[k] = None
            /\ drawn[r] = lastSequence[m] + 1
        BY <3>2 DEF Locks, KeyLockExcludes, MatchLockExcludes, Holds
      <4>3. /\ outbox' = outbox \cup {new}
            /\ records' = [records EXCEPT ![k] = RecordOf(r)]
            /\ lastSequence' = [lastSequence EXCEPT ![m] = drawn[r]]
            /\ pc' = [pc EXCEPT ![r] = "respond"]
            /\ UNCHANGED <<clock, command>>
        BY <2>7, <3>2 DEF Commit, Holds
      <4>4. /\ RecordOf(r).event = r /\ RecordOf(r).sequence = drawn[r]
            /\ RecordOf(r).action = ActionOf(r) /\ RecordOf(r) # None
            /\ RecordOf(r).expiresAt = command[r].now + Retention
        BY <2>7, <3>2 DEF RecordOf, Holds, Commit, ActionOf, Record
      <4> HIDE DEF k, m, new
      <4>5. EffectIsOver'
        BY <4>1, <4>3 DEF k
      <4>6. NumbersInUse'
        <5>1. \A q \in Matches : lastSequence'[q] =
                IF q = m THEN lastSequence[m] + 1 ELSE lastSequence[q]
          BY <4>1, <4>2, <4>3
        <5>2. lastSequence[m] \in Nat
          BY <4>1
        <5>3. ASSUME NEW x \in outbox'
              PROVE x.sequence \in 1 .. lastSequence'[x.match]
          BY <4>1, <4>2, <4>3, <5>1, <5>2
        <5>4. ASSUME NEW q \in Matches, NEW n \in 1 .. lastSequence'[q]
              PROVE \E x \in outbox' : x.match = q /\ x.sequence = n
          <6>1. CASE q = m /\ n = lastSequence[m] + 1
            BY <4>1, <4>2, <4>3, <6>1
          <6>2. CASE ~(q = m /\ n = lastSequence[m] + 1)
            <7>1. lastSequence[q] \in Nat /\ n \in Nat /\ n <= lastSequence'[q]
              BY <5>1, <5>2
            <7>2. n \in 1 .. lastSequence[q]
              BY <5>1, <5>2, <6>2, <7>1
            <7>. QED
              BY <4>3, <7>2
          <6>. QED
            BY <6>1, <6>2
        <5>5. ASSUME NEW x \in outbox', NEW y \in outbox',
                     x.match = y.match, x.sequence = y.sequence
              PROVE x = y
          <6>1. \A z \in outbox : z.match = m => z.sequence # lastSequence[m] + 1
            BY <5>2
          <6>. QED
            BY <4>1, <4>2, <4>3, <5>5, <6>1
        <5>. QED
          BY <5>3, <5>4, <5>5
      <4>7. RecordMatchesEffect'
        BY <4>1, <4>2, <4>3, <4>4
      <4>8. RetentionCovers'
        BY <4>1, <4>2, <4>3, <4>4
      <4>. QED
        BY <4>5, <4>6, <4>7, <4>8
    <3>. QED
      BY <2>7, <3>1, <3>2 DEF Commit
  <2>8. ASSUME NEW r \in Requests, Abort(r) PROVE Effects'
    BY <2>8 DEF Abort, Reject, InTransaction
  <2>9. ASSUME NEW r \in Requests, Respond(r) PROVE Effects'
    BY <2>9 DEF Respond
  <2>10. ASSUME NEW r \in Requests, LoseReply(r) PROVE Effects'
    BY <2>10 DEF LoseReply, Reject
  <2>11. ASSUME NEW c \in Cleaners, DeleteExpired(c) PROVE Effects'
    BY <2>11 DEF DeleteExpired, Expired, KeyFree
  <2>12. ASSUME NEW c \in Cleaners, CommitDeletion(c) PROVE Effects'
    <3>1. EffectIsOver' /\ NumbersInUse'
      BY <2>12 DEF CommitDeletion
    <3>2. RecordMatchesEffect'
      BY <2>12 DEF CommitDeletion
    <3>3. ASSUME NEW x \in outbox, x.key \in deleting[c], records[x.key] # None,
                 records[x.key].event = x.event
          PROVE x.occurredAt + Retention <= clock
      <4>1. x.key \in Keys
        OBVIOUS
      <4>2. records[x.key].expiresAt <= clock
        BY <3>3, <4>1 DEF Locks, DeletionIsDue
      <4>3. PICK y \in outbox : /\ y.event = records[x.key].event
                               /\ records[x.key].expiresAt = y.occurredAt + Retention
        BY <3>3, <4>1
      <4>4. y.occurredAt = x.occurredAt
        BY <3>3, <4>3
      <4>. QED
        BY <4>2, <4>3, <4>4
    <3>4. RetentionCovers'
      BY <2>12, <3>3 DEF CommitDeletion
    <3>. QED
      BY <3>1, <3>2, <3>4
  <2>13. ASSUME NEW c \in Cleaners, AbortDeletion(c) PROVE Effects'
    BY <2>13 DEF AbortDeletion
  <2>14. CASE Tick
    BY <2>14 DEF Tick
  <2>15. CASE UNCHANGED vars
    BY <2>15 DEF vars
  <2>16. QED
    BY <2>1, <2>2, <2>3, <2>4, <2>5, <2>6, <2>7, <2>8, <2>9, <2>10, <2>11,
       <2>12, <2>13, <2>14, <2>15 DEF Next, Progress
<1>3. QED
  BY <1>1, <1>2, TypedAlways, LocksAlways, PTL DEF Spec

\* What requests are about to be told, and were told, is in the outbox.
THEOREM AnswersAlways == Spec => []Answers
<1> USE CommandAssumption, NoneAssumption
<1>1. Init => Answers
  BY DEF Init, Answers, SelectFollowsEffect, ValueIsDurable, ValueHolds,
         AnsweredIsDone, AcceptedIsDurable, RefusalIsJustified
<1>2. Typed /\ Locks /\ Effects /\ Answers /\ [Next]_vars => Answers'
  <2> SUFFICES ASSUME Typed, Locks, Effects, Answers, [Next]_vars PROVE Answers'
    OBVIOUS
  <2> USE DEF Typed, TypeOK, StatementOrder, tables, Rows, Command, Answers,
        SelectFollowsEffect, ValueIsDurable, ValueHolds, AnsweredIsDone,
        AcceptedIsDurable, RefusalIsJustified, KeyOf, ActionOf
  <2>1. ASSUME NEW r \in Requests, Submit(r) PROVE Answers'
    BY <2>1 DEF Submit
  <2>2. ASSUME NEW r \in Requests, InsertRecord(r) PROVE Answers'
    BY <2>2 DEF InsertRecord, Write, KeyFree, Effects, RecordMatchesEffect
  <2>3. ASSUME NEW r \in Requests, SelectExisting(r) PROVE Answers'
    <3> DEFINE existing == records[KeyOf(r)]
    <3>1. CASE ~Completed(existing) /\ Reject(r, "stateError") /\ UNCHANGED value
      <4>1. PICK x \in outbox : x.key = KeyOf(r)
        BY <2>3 DEF SelectExisting
      <4>2. existing = None
        BY <2>3, <3>1 DEF SelectExisting, Completed, Effects, RecordMatchesEffect,
                          Message
      <4>3. x.occurredAt + Retention <= clock
        BY <4>1, <4>2 DEF Effects, RetentionCovers
      <4>. QED
        BY <2>3, <3>1, <4>1, <4>3 DEF SelectExisting, Reject
    <3>2. CASE /\ Completed(existing) /\ ~SameRequest(existing, r)
               /\ Reject(r, "conflict") /\ UNCHANGED value
      <4>1. PICK x \in outbox : x.key = KeyOf(r) /\ x.action # ActionOf(r)
        BY <2>3, <3>2 DEF SelectExisting, Completed, SameRequest, Effects,
                          RecordMatchesEffect
      <4>. QED
        BY <2>3, <3>2, <4>1 DEF SelectExisting, Reject
    <3>3. CASE /\ Completed(existing) /\ SameRequest(existing, r)
               /\ value' = [value EXCEPT ![r] = [event |-> existing.event,
                                                 sequence |-> existing.sequence]]
               /\ pc' = [pc EXCEPT ![r] = "commit"]
               /\ UNCHANGED <<writes, reply>>
      <4>1. PICK x \in outbox : /\ x.key = KeyOf(r) /\ x.action = ActionOf(r)
                               /\ x.event = existing.event
                               /\ x.sequence = existing.sequence
        BY <2>3, <3>3 DEF SelectExisting, Completed, SameRequest, Effects,
                          RecordMatchesEffect
      <4>2. writes[r] = {} /\ writes[r] # Rows
        BY <2>3 DEF SelectExisting
      <4>3. ValueIsDurable'
        <5>1. /\ value'[r].event = existing.event
              /\ value'[r].sequence = existing.sequence
          BY <3>3
        <5>2. pc'[r] = "commit" /\ UNCHANGED <<drawn, outbox, command, writes>>
          BY <2>3, <3>3 DEF SelectExisting
        <5>3. \A s \in Requests : s # r =>
                pc'[s] = pc[s] /\ value'[s] = value[s]
          BY <3>3
        <5>4. ValueHolds(r)'
          BY <4>1, <4>2, <5>1, <5>2
        <5>5. ASSUME NEW s \in Requests, s # r PROVE ValueHolds(s)'
          BY <5>2, <5>3, <5>5
        <5> HIDE DEF ValueHolds, Typed, Answers
        <5>. QED
          BY <5>4, <5>5
      <4>4. /\ SelectFollowsEffect' /\ AnsweredIsDone'
            /\ AcceptedIsDurable' /\ RefusalIsJustified'
        BY <2>3, <3>3 DEF SelectExisting
      <4>. QED
        BY <4>3, <4>4
    <3>. QED
      BY <2>3, <3>1, <3>2, <3>3 DEF SelectExisting
  <2>4. ASSUME NEW r \in Requests, NextMatchSequence(r) PROVE Answers'
    BY <2>4 DEF NextMatchSequence, Write, MatchFree
  <2>5. ASSUME NEW r \in Requests, RecordOutboxMessage(r) PROVE Answers'
    BY <2>5 DEF RecordOutboxMessage, Write
  <2>6. ASSUME NEW r \in Requests, CompleteRecord(r) PROVE Answers'
    <3>1. writes'[r] = Rows /\ writes'[r] # {}
      BY <2>6 DEF CompleteRecord, Write
    <3>2. ValueIsDurable'
      <4>1. value'[r] = [event |-> r, sequence |-> drawn[r]]
        BY <2>6 DEF CompleteRecord
      <4>2. pc'[r] = "commit" /\ UNCHANGED <<drawn, outbox, command>>
        BY <2>6 DEF CompleteRecord, Write
      <4>3. \A s \in Requests : s # r =>
              pc'[s] = pc[s] /\ writes'[s] = writes[s] /\ value'[s] = value[s]
        BY <2>6 DEF CompleteRecord, Write
      <4>4. ValueHolds(r)'
        BY <3>1, <4>1, <4>2
      <4>5. ASSUME NEW s \in Requests, s # r PROVE ValueHolds(s)'
        BY <4>2, <4>3, <4>5
      <4> HIDE DEF ValueHolds, Typed, Answers
      <4>. QED
        BY <4>4, <4>5
    <3>3. /\ SelectFollowsEffect' /\ AnsweredIsDone'
          /\ AcceptedIsDurable' /\ RefusalIsJustified'
      BY <2>6 DEF CompleteRecord, Write
    <3>. QED
      BY <3>2, <3>3
  <2>7. ASSUME NEW r \in Requests, Commit(r) PROVE Answers'
    <3>1. outbox \subseteq outbox'
      BY <2>7 DEF Commit
    <3>2. SelectFollowsEffect' /\ AnsweredIsDone' /\ AcceptedIsDurable'
      BY <2>7, <3>1 DEF Commit
    <3>3. RefusalIsJustified'
      BY <2>7, <3>1 DEF Commit
    <3>4. ValueIsDurable'
      <4>1. CASE writes[r] = {}
        BY <2>7, <3>1, <4>1 DEF Commit
      <4>2. CASE writes[r] = Rows
        <5>1. /\ outbox' = outbox \cup {MessageOf(r)}
              /\ MessageOf(r).key = KeyOf(r) /\ MessageOf(r).action = ActionOf(r)
              /\ MessageOf(r).event = r /\ MessageOf(r).sequence = drawn[r]
          BY <2>7, <4>2 DEF Commit, Holds, MessageOf
        <5>2. value[r].event = r /\ value[r].sequence = drawn[r]
          BY <2>7, <4>2 DEF Commit
        <5>. QED
          BY <2>7, <3>1, <5>1, <5>2 DEF Commit
      <4>. QED
        BY <2>7, <4>1, <4>2 DEF Commit
    <3>. QED
      BY <3>2, <3>3, <3>4
  <2>8. ASSUME NEW r \in Requests, Abort(r) PROVE Answers'
    BY <2>8 DEF Abort, Reject, InTransaction
  <2>9. ASSUME NEW r \in Requests, Respond(r) PROVE Answers'
    BY <2>9 DEF Respond
  <2>10. ASSUME NEW r \in Requests, LoseReply(r) PROVE Answers'
    BY <2>10 DEF LoseReply, Reject
  <2>11. ASSUME NEW c \in Cleaners, DeleteExpired(c) PROVE Answers'
    BY <2>11 DEF DeleteExpired, Expired, KeyFree
  <2>12. ASSUME NEW c \in Cleaners, CommitDeletion(c) PROVE Answers'
    BY <2>12 DEF CommitDeletion
  <2>13. ASSUME NEW c \in Cleaners, AbortDeletion(c) PROVE Answers'
    BY <2>13 DEF AbortDeletion
  <2>14. CASE Tick
    <3>1. \A x \in outbox : x.occurredAt \in Nat
      BY DEF Message
    <3>2. RefusalIsJustified'
      BY <2>14, <3>1 DEF Tick
    <3>. QED
      BY <2>14, <3>2 DEF Tick
  <2>15. CASE UNCHANGED vars
    BY <2>15 DEF vars
  <2>16. QED
    BY <2>1, <2>2, <2>3, <2>4, <2>5, <2>6, <2>7, <2>8, <2>9, <2>10, <2>11,
       <2>12, <2>13, <2>14, <2>15 DEF Next, Progress
<1>3. QED
  BY <1>1, <1>2, TypedAlways, LocksAlways, EffectsAlways, PTL DEF Spec
-----------------------------------------------------------------------------
\* A match's committed messages carry the numbers 1 to last_sequence once each.
THEOREM SequencesAreContiguous == Spec => []ContiguousSequences
<1>1. Typed /\ Effects => ContiguousSequences
  <2> SUFFICES ASSUME Typed, Effects PROVE ContiguousSequences
    OBVIOUS
  <2> USE DEF Typed, TypeOK, Effects, NumbersInUse, EffectsOf, Message
  <2>1. ASSUME NEW m \in Matches
        PROVE {x.sequence : x \in EffectsOf(m)} = 1 .. lastSequence[m]
    <3>1. {x.sequence : x \in EffectsOf(m)} \subseteq 1 .. lastSequence[m]
      OBVIOUS
    <3>2. 1 .. lastSequence[m] \subseteq {x.sequence : x \in EffectsOf(m)}
      OBVIOUS
    <3>. QED
      BY <3>1, <3>2
  <2>. QED
    BY <2>1 DEF ContiguousSequences
<1>. QED
  BY <1>1, TypedAlways, EffectsAlways, PTL

\* Record, number and message of a command are visible together.
THEOREM RecordsAnswerForEffects == Spec => []RecordAnswersForEffect
<1>1. Effects => RecordAnswersForEffect
  BY DEF Effects, RecordMatchesEffect, RecordAnswersForEffect
<1>. QED
  BY <1>1, EffectsAlways, PTL

\* An action reported as accepted is committed, with its key and its content.
THEOREM AcceptedActionsAreDurable == Spec => []AcceptedIsDurable
<1>1. Answers => AcceptedIsDurable
  BY DEF Answers
<1>. QED
  BY <1>1, AnswersAlways, PTL

\* Conflicts and state errors have the reason they claim.
THEOREM RefusalsAreJustified == Spec => []RefusalIsJustified
<1>1. Answers => RefusalIsJustified
  BY DEF Answers
<1>. QED
  BY <1>1, AnswersAlways, PTL

\* Only a commit that inserts its record adds a message, and only its own.
LEMMA OnlyCommitAdds ==
  ASSUME Typed, Next, NEW x \in outbox' \ outbox
  PROVE  \E r \in Requests : /\ pc[r] = "commit" /\ writes[r] = Rows
                             /\ x = MessageOf(r)
<1>1. PICK r \in Requests : Commit(r)
  BY DEF Next, Progress, tables, Submit, InsertRecord, SelectExisting,
         NextMatchSequence, RecordOutboxMessage, CompleteRecord, Abort, Respond,
         LoseReply, DeleteExpired, CommitDeletion, AbortDeletion, Tick
<1>. QED
  BY <1>1 DEF Commit, Typed, StatementOrder, Holds

\* A key takes effect again only after the retention of its earlier effect.
THEOREM RetriesWithinRetentionAreSafe == Spec => RetryWithinRetentionIsSafe
<1>1. Typed /\ Locks /\ Effects /\ [Next]_vars =>
        [\A x \in outbox' \ outbox : \A y \in outbox :
           x.key = y.key => y.occurredAt + Retention <= clock]_vars
  <2> SUFFICES ASSUME Typed, Locks, Effects, Next,
                      NEW x \in outbox' \ outbox, NEW y \in outbox, x.key = y.key
               PROVE  y.occurredAt + Retention <= clock
    OBVIOUS
  <2>1. PICK r \in Requests : writes[r] = Rows /\ x = MessageOf(r)
    BY OnlyCommitAdds
  <2>2. records[x.key] = None
    BY <2>1 DEF Locks, KeyLockExcludes, Holds, Rows, MessageOf
  <2>. QED
    BY <2>2 DEF Effects, RetentionCovers
<1>. QED
  BY <1>1, TypedAlways, LocksAlways, EffectsAlways, PTL
     DEF RetryWithinRetentionIsSafe, Spec

\* Messages stay, and new ones appear behind all that are visible.
THEOREM HistoryOnlyGrowsAtTheEnd == Spec => HistoryGrowsAtTheEnd
<1>1. Typed /\ Locks /\ [Next]_vars =>
        [/\ outbox \subseteq outbox'
         /\ \A x \in outbox' \ outbox : x.sequence = lastSequence[x.match] + 1]_vars
  <2> SUFFICES ASSUME Typed, Locks, Next
               PROVE  /\ outbox \subseteq outbox'
                      /\ \A x \in outbox' \ outbox :
                           x.sequence = lastSequence[x.match] + 1
    OBVIOUS
  <2>1. outbox \subseteq outbox'
    BY DEF Next, Progress, tables, Submit, InsertRecord, SelectExisting,
           NextMatchSequence, RecordOutboxMessage, CompleteRecord, Commit, Abort,
           Respond, LoseReply, DeleteExpired, CommitDeletion, AbortDeletion, Tick
  <2>2. ASSUME NEW x \in outbox' \ outbox
        PROVE  x.sequence = lastSequence[x.match] + 1
    <3>1. PICK r \in Requests : writes[r] = Rows /\ x = MessageOf(r)
      BY <2>2, OnlyCommitAdds
    <3>. QED
      BY <3>1 DEF Locks, MatchLockExcludes, Holds, Rows, MessageOf
  <2>. QED
    BY <2>1, <2>2
<1>. QED
  BY <1>1, TypedAlways, LocksAlways, PTL DEF HistoryGrowsAtTheEnd, Spec
-----------------------------------------------------------------------------
\* The refinement of MatchActionLog.

\* Who has not begun has asked for nothing.
IdleAsksNothing == \A r \in Requests : pc[r] = "idle" => command[r] = None

LEMMA IdleNext == Typed /\ IdleAsksNothing /\ [Next]_vars => IdleAsksNothing'
<1> SUFFICES ASSUME Typed, IdleAsksNothing, [Next]_vars, NEW s \in Requests, pc'[s] = "idle"
             PROVE  command'[s] = None
  BY DEF IdleAsksNothing
<1>1. CASE UNCHANGED <<pc, command>>
  BY <1>1 DEF IdleAsksNothing
<1>2. ASSUME NEW r \in Requests, pc'[r] # "idle", command' = command,
             \E next : pc' = [pc EXCEPT ![r] = next]
      PROVE  command'[s] = None
  BY <1>2 DEF IdleAsksNothing, Typed, TypeOK
<1>3. ASSUME NEW r \in Requests, Submit(r)
      PROVE  command'[s] = None
  <2>1. pc' = [pc EXCEPT ![r] = "insert"] /\ s # r
    BY <1>3 DEF Submit, Typed, TypeOK
  <2> QED
    BY <1>3, <2>1 DEF Submit, IdleAsksNothing, Typed, TypeOK
<1>4. ASSUME NEW r \in Requests, Progress(r) \/ Abort(r) \/ LoseReply(r)
      PROVE  /\ pc'[r] # "idle" /\ command' = command
             /\ \E next : pc' = [pc EXCEPT ![r] = next]
  BY <1>4 DEF Progress, InsertRecord, SelectExisting, NextMatchSequence, RecordOutboxMessage,
      CompleteRecord, Commit, Respond, Abort, LoseReply, Write, Reject, Typed, TypeOK
<1>5. ASSUME NEW c \in Cleaners, DeleteExpired(c) \/ CommitDeletion(c) \/ AbortDeletion(c)
      PROVE  UNCHANGED <<pc, command>>
  BY <1>5 DEF DeleteExpired, CommitDeletion, AbortDeletion
<1>6. Tick \/ UNCHANGED vars => UNCHANGED <<pc, command>>
  BY DEF Tick, vars
<1> QED
  BY <1>1, <1>2, <1>3, <1>4, <1>5, <1>6 DEF Next

EntryOf(x) == [event |-> x.event, key |-> x.key, action |-> x.action, at |-> x.occurredAt,
               sequence |-> x.sequence]

\* A number in use names one message.
Numbered ==
  /\ \A m \in Matches : \A n \in 1 .. lastSequence[m] :
       /\ MessageAt(m, n) \in outbox
       /\ MessageAt(m, n).match = m /\ MessageAt(m, n).sequence = n
  /\ \A x \in outbox :
       /\ x.match \in Matches /\ x.sequence \in 1 .. lastSequence[x.match]
       /\ MessageAt(x.match, x.sequence) = x

LEMMA MessageOfNumber == Typed /\ Effects => Numbered
<1> SUFFICES ASSUME Typed, Effects
             PROVE  Numbered
  OBVIOUS
<1>1. ASSUME NEW m \in Matches, NEW n \in 1 .. lastSequence[m]
      PROVE  /\ MessageAt(m, n) \in outbox
             /\ MessageAt(m, n).match = m /\ MessageAt(m, n).sequence = n
  <2>1. \E x \in outbox : x.match = m /\ x.sequence = n
    BY DEF Effects, NumbersInUse
  <2> QED
    BY <2>1 DEF MessageAt
<1>2. ASSUME NEW x \in outbox
      PROVE  /\ x.match \in Matches /\ x.sequence \in 1 .. lastSequence[x.match]
             /\ MessageAt(x.match, x.sequence) = x
  <2>1. x.match \in Matches /\ x.sequence \in 1 .. lastSequence[x.match]
    BY DEF Typed, TypeOK, Message, Effects, NumbersInUse
  <2>2. /\ MessageAt(x.match, x.sequence) \in outbox
        /\ MessageAt(x.match, x.sequence).match = x.match
        /\ MessageAt(x.match, x.sequence).sequence = x.sequence
    BY <1>1, <2>1
  <2> QED
    BY <2>1, <2>2 DEF Effects, NumbersInUse
<1> QED
  BY <1>1, <1>2 DEF Numbered

\* The entries of the log are the messages of the outbox.
LEMMA EntriesAreMessages ==
  ASSUME Typed, Effects
  PROVE  /\ \A x \in outbox : EntryOf(x) \in Abstract!Entries
         /\ \A e \in Abstract!Entries : \E x \in outbox : e = EntryOf(x)
<1> DEFINE log == [m \in Matches |-> LogOf(m)]
<1>1. \A m \in Matches : DOMAIN log[m] = 1 .. lastSequence[m]
  BY DEF LogOf
<1>2. ASSUME NEW m \in Matches, NEW n \in 1 .. lastSequence[m]
      PROVE  Abstract!Entry(m, n) = EntryOf(MessageAt(m, n))
  <2>1. log[m][n] = LogEntry(MessageAt(m, n))
    BY DEF LogOf
  <2>2. MessageAt(m, n).sequence = n
    BY MessageOfNumber DEF Numbered
  <2> HIDE DEF log
  <2> QED
    BY <2>1, <2>2 DEF Abstract!Entry, EntryOf, LogEntry, log
<1>3. \A e : e \in Abstract!Entries <=>
        \E m \in Matches : \E n \in DOMAIN log[m] : e = Abstract!Entry(m, n)
  BY DEF Abstract!Entries
<1> HIDE DEF log
<1>4. ASSUME NEW x \in outbox PROVE EntryOf(x) \in Abstract!Entries
  <2>1. /\ x.match \in Matches /\ x.sequence \in 1 .. lastSequence[x.match]
        /\ MessageAt(x.match, x.sequence) = x
    BY <1>4, MessageOfNumber DEF Numbered
  <2> QED
    BY <1>1, <1>2, <1>3, <2>1
<1>5. ASSUME NEW e \in Abstract!Entries PROVE \E x \in outbox : e = EntryOf(x)
  <2>1. PICK m \in Matches : \E n \in DOMAIN log[m] : e = Abstract!Entry(m, n)
    BY <1>3
  <2>2. PICK n \in 1 .. lastSequence[m] : e = Abstract!Entry(m, n)
    BY <1>1, <2>1
  <2>3. MessageAt(m, n) \in outbox /\ e = EntryOf(MessageAt(m, n))
    BY <1>2, <2>2, MessageOfNumber DEF Numbered
  <2> QED
    BY <2>3
<1> QED
  BY <1>4, <1>5

\* A message keeps its number.
LEMMA NumbersStay ==
  ASSUME Typed, Effects, Typed', Effects', outbox \subseteq outbox',
         NEW m \in Matches, NEW n \in 1 .. lastSequence[m], n \in 1 .. lastSequence'[m]
  PROVE  MessageAt(m, n)' = MessageAt(m, n)
<1>1. Numbered /\ Numbered'
  BY MessageOfNumber, PTL
<1>2. /\ MessageAt(m, n) \in outbox
      /\ MessageAt(m, n).match = m /\ MessageAt(m, n).sequence = n
  BY <1>1 DEF Numbered
<1>3. /\ MessageAt(m, n)' \in outbox'
      /\ MessageAt(m, n)'.match = m /\ MessageAt(m, n)'.sequence = n
  BY <1>1 DEF Numbered
<1> QED
  BY <1>2, <1>3 DEF Effects, NumbersInUse

LEMMA LogStays ==
  ASSUME Typed, Effects, Typed', Effects', outbox \subseteq outbox',
         NEW m \in Matches, lastSequence'[m] = lastSequence[m]
  PROVE  LogOf(m)' = LogOf(m)
<1>1. \A n \in 1 .. lastSequence[m] : MessageAt(m, n)' = MessageAt(m, n)
  BY NumbersStay
<1> QED
  BY <1>1, Zenon DEF LogOf, LogEntry

Logged == [event: Requests, key: Keys, action: Actions, at: Nat]

LEMMA LogIsSequence ==
  ASSUME Typed, Effects, NEW m \in Matches
  PROVE  LogOf(m) \in Seq(Logged) /\ Len(LogOf(m)) = lastSequence[m]
<1>1. lastSequence[m] \in Nat
  BY DEF Typed, TypeOK
<1>2. \A x \in outbox : LogEntry(x) \in Logged
  BY DEF Typed, TypeOK, Message, LogEntry, Logged
<1>3. LogOf(m) \in [1 .. lastSequence[m] -> Logged]
  BY <1>2, MessageOfNumber DEF Numbered, LogOf
<1> HIDE DEF Logged
<1> QED
  BY <1>1, <1>3

Entering(r) == [event |-> r, key |-> KeyOf(r), action |-> ActionOf(r), at |-> command[r].now]

\* What a transaction commits enters the log of its match at the end.
LEMMA CommitAppends ==
  ASSUME Typed, Locks, Effects, Typed', Effects', NEW r \in Requests, Commit(r),
         writes[r] = Rows, NEW m \in Matches, m = MatchTo(r)
  PROVE  /\ LogOf(m)' = Append(LogOf(m), Entering(r))
         /\ \A q \in Matches : q # m => LogOf(q)' = LogOf(q)
<1>1. /\ outbox' = outbox \cup {MessageOf(r)}
      /\ lastSequence' = [lastSequence EXCEPT ![m] = drawn[r]]
  BY DEF Commit, Holds, Rows
<1>2. PICK n \in Nat : lastSequence[m] = n
  BY DEF Typed, TypeOK
<1>3. drawn[r] = n + 1
  BY <1>2 DEF Locks, MatchLockExcludes, Holds, Rows
<1>4. lastSequence'[m] = n + 1 /\ \A q \in Matches : q # m => lastSequence'[q] = lastSequence[q]
  BY <1>1, <1>3 DEF Typed, TypeOK
<1>5. \A q \in Matches : q # m => LogOf(q)' = LogOf(q)
  BY <1>1, <1>4, LogStays
<1>6. MessageAt(m, n + 1)' = MessageOf(r)
  <2>1. /\ MessageOf(r) \in outbox'
        /\ MessageOf(r).match = m /\ MessageOf(r).sequence = n + 1
    BY <1>1, <1>3 DEF MessageOf
  <2>2. n + 1 \in 1 .. lastSequence'[m]
    BY <1>4
  <2>4. Numbered'
    BY MessageOfNumber, PTL
  <2>3. /\ MessageAt(m, n + 1)' \in outbox'
        /\ MessageAt(m, n + 1)'.match = m /\ MessageAt(m, n + 1)'.sequence = n + 1
    BY <2>2, <2>4 DEF Numbered
  <2> QED
    BY <2>1, <2>3 DEF Effects, NumbersInUse
<1>7. LogEntry(MessageOf(r)) = Entering(r)
  BY DEF LogEntry, MessageOf, Entering
<1>8. \A i \in 1 .. n : MessageAt(m, i)' = MessageAt(m, i)
  BY <1>1, <1>2, <1>4, NumbersStay
<1>9. LogOf(m)' = [i \in 1 .. n + 1 |-> IF i = n + 1 THEN Entering(r) ELSE LogOf(m)[i]]
  <2>1. LogOf(m)' = [i \in 1 .. n + 1 |-> LogEntry(MessageAt(m, i)')]
    BY <1>4, Zenon DEF LogOf, LogEntry
  <2>2. ASSUME NEW i \in 1 .. n + 1
        PROVE  LogEntry(MessageAt(m, i)') = IF i = n + 1 THEN Entering(r) ELSE LogOf(m)[i]
    <3>1. CASE i = n + 1
      BY <1>6, <1>7, <3>1
    <3>2. CASE i # n + 1
      <4>1. i \in 1 .. n
        BY <3>2
      <4>2. LogOf(m)[i] = LogEntry(MessageAt(m, i))
        BY <1>2, <4>1 DEF LogOf
      <4> QED
        BY <1>8, <3>2, <4>1, <4>2
    <3> QED
      BY <3>1, <3>2
  <2> QED
    BY <2>1, <2>2, Zenon
<1>10. /\ LogOf(m) \in Seq(Logged) /\ Len(LogOf(m)) = n
       /\ Entering(r) \in Logged
  <2>1. Entering(r) \in Logged
    BY DEF Entering, Logged, Commit, Typed, TypeOK, StatementOrder, Command, KeyOf, ActionOf
  <2> QED
    BY <1>2, <2>1, LogIsSequence
<1> DEFINE longer == Append(LogOf(m), Entering(r))
<1>11. /\ longer \in Seq(Logged) /\ Len(longer) = n + 1
       /\ \A i \in 1 .. n : longer[i] = LogOf(m)[i]
       /\ longer[n + 1] = Entering(r)
  <2>1. /\ longer \in Seq(Logged) /\ Len(longer) = Len(LogOf(m)) + 1
        /\ \A i \in 1 .. Len(LogOf(m)) : longer[i] = LogOf(m)[i]
        /\ longer[Len(LogOf(m)) + 1] = Entering(r)
    <3>1. \A list \in Seq(Logged), e \in Logged :
            /\ Append(list, e) \in Seq(Logged) /\ Len(Append(list, e)) = Len(list) + 1
            /\ \A i \in 1 .. Len(list) : Append(list, e)[i] = list[i]
            /\ Append(list, e)[Len(list) + 1] = e
      BY AppendProperties
    <3> QED
      BY <1>10, <3>1, Zenon
  <2> QED
    BY <1>10, <2>1, Zenon
<1> HIDE DEF longer, Logged
<1>12. longer = [i \in 1 .. n + 1 |-> IF i = n + 1 THEN Entering(r) ELSE LogOf(m)[i]]
  <2>1. longer \in [1 .. n + 1 -> Logged]
    BY <1>11
  <2>2. \A i \in 1 .. n + 1 : longer[i] = IF i = n + 1 THEN Entering(r) ELSE LogOf(m)[i]
    BY <1>11
  <2> QED
    BY <2>1, <2>2
<1> QED
  BY <1>5, <1>9, <1>12 DEF longer

LogNow == [m \in Matches |-> LogOf(m)]
MemoryNow == [k \in Keys |-> MemoryOf(k)]

LEMMA LogNowStays ==
  ASSUME Typed, Effects, Typed', Effects', UNCHANGED <<outbox, lastSequence>>
  PROVE  LogNow' = LogNow
<1>1. \A m \in Matches : LogOf(m)' = LogOf(m)
  BY LogStays
<1> QED
  BY <1>1 DEF LogNow

LEMMA MemoryNowStays ==
  ASSUME records' = records
  PROVE  MemoryNow' = MemoryNow
BY DEF MemoryNow, MemoryOf

\* A transaction that has not ended has no answer yet.
LEMMA NotAnswered ==
  ASSUME Typed, Answers, NEW r \in Requests, pc[r] \notin {"idle", "done"}
  PROVE  Abstract!Waiting(r)
BY DEF Abstract!Waiting, Typed, StatementOrder, Answers, AnsweredIsDone

LEMMA SubmitAsks ==
  ASSUME Typed, IdleAsksNothing, NEW r \in Requests, Submit(r),
         LogNow' = LogNow, MemoryNow' = MemoryNow
  PROVE  Abstract!Ask(r)
BY DEF Submit, IdleAsksNothing, Abstract!Ask, LogNow, MemoryNow

LEMMA CommitAccepts ==
  ASSUME Typed, Locks, Effects, Answers, Typed', Effects', NEW r \in Requests, Commit(r),
         writes[r] = Rows
  PROVE  Abstract!Accept(r)
<1>1. /\ pc[r] = "commit" /\ KeyOf(r) \in Keys /\ records[KeyOf(r)] = None
      /\ UNCHANGED <<clock, command, reply>>
  BY DEF Commit, Typed, TypeOK, StatementOrder, KeyOf, Command, Locks, KeyLockExcludes, Holds, Rows
<1>2. Abstract!Waiting(r)
  BY <1>1, NotAnswered
<1>3. \A x \in Abstract!Entries : x.event # r
  <2>1. \A x \in outbox : x.event # r /\ EntryOf(x).event = x.event
    BY <1>1 DEF Effects, EffectIsOver, EntryOf
  <2> QED
    BY <2>1, EntriesAreMessages
<1>4. PICK m \in Matches : m = MatchTo(r)
  BY <1>1, CommandAssumption DEF MatchTo
<1>5. LogNow' = [LogNow EXCEPT ![m] = Append(@, Entering(r))]
  <2>1. /\ LogOf(m)' = Append(LogOf(m), Entering(r))
        /\ \A q \in Matches : q # m => LogOf(q)' = LogOf(q)
    BY <1>4, CommitAppends
  <2> QED
    BY <2>1 DEF LogNow
<1>6. MemoryNow' = [MemoryNow EXCEPT ![KeyOf(r)] = r]
  <2>1. records' = [records EXCEPT ![KeyOf(r)] = RecordOf(r)]
    BY DEF Commit, Holds, Rows
  <2>2. RecordOf(r).event = r /\ RecordOf(r) \in Record
    <3>1. command[r] \in Command /\ drawn[r] \in Nat
      BY <1>1 DEF Typed, TypeOK, StatementOrder
    <3> QED
      BY <3>1, CommandAssumption DEF RecordOf, Holds, Rows, Record, Command, ActionOf
  <2>3. RecordOf(r) # None
    BY <2>2, NoneAssumption
  <2>4. \A k \in Keys : MemoryOf(k)' = IF k = KeyOf(r) THEN r ELSE MemoryOf(k)
    BY <2>1, <2>2, <2>3 DEF MemoryOf, Typed, TypeOK
  <2> QED
    BY <1>1, <2>4 DEF MemoryNow
<1>7. MemoryNow[KeyOf(r)] = None
  BY <1>1 DEF MemoryNow, MemoryOf
<1> QED
  BY <1>1, <1>2, <1>3, <1>4, <1>5, <1>6, <1>7
  DEF Abstract!Accept, LogNow, MemoryNow, Entering, MatchTo, KeyOf, ActionOf

\* A failed transaction says nothing of the log.
LEMMA ErrorTells ==
  ASSUME Typed, Answers, NEW r \in Requests, pc[r] \notin {"idle", "done"}, Reject(r, "error"),
         LogNow' = LogNow, MemoryNow' = MemoryNow, UNCHANGED <<clock, command>>
  PROVE  Abstract!TellError(r)
BY NotAnswered DEF Abstract!TellError, Abstract!Tell, Reject, LogNow, MemoryNow

LEMMA SelectTells ==
  ASSUME Typed, Effects, Answers, NEW r \in Requests, SelectExisting(r),
         LogNow' = LogNow, MemoryNow' = MemoryNow
  PROVE  Abstract!TellExpired(r) \/ Abstract!TellConflict(r) \/ reply' = reply
<1>1. pc[r] = "select" /\ Abstract!Waiting(r) /\ KeyOf(r) \in Keys
  BY NotAnswered DEF SelectExisting, Typed, TypeOK, StatementOrder, KeyOf, Command
<1>2. CASE ~Completed(records[KeyOf(r)]) /\ Reject(r, "stateError")
  <2>1. PICK x \in outbox : x.key = KeyOf(r)
    BY <1>1 DEF Answers, SelectFollowsEffect
  <2>2. records[KeyOf(r)] = None
    BY <1>1, <1>2, NoneAssumption DEF Completed, Effects, RecordMatchesEffect, Typed, TypeOK, Message
  <2>3. x.occurredAt + Retention <= clock
    BY <2>1, <2>2 DEF Effects, RetentionCovers
  <2>4. /\ EntryOf(x) \in Abstract!Entries
        /\ EntryOf(x).key = KeyOf(r) /\ EntryOf(x).at + Retention <= clock
    BY <2>1, <2>3, EntriesAreMessages DEF EntryOf
  <2>5. Abstract!Tell(r, [status |-> "stateError"])
    BY <1>2 DEF Abstract!Tell, Reject, SelectExisting, LogNow, MemoryNow
  <2> QED
    BY <1>1, <2>4, <2>5 DEF Abstract!TellExpired, KeyOf
<1>3. CASE /\ Completed(records[KeyOf(r)]) /\ ~SameRequest(records[KeyOf(r)], r)
           /\ Reject(r, "conflict")
  <2>1. PICK x \in outbox : x.key = KeyOf(r) /\ x.action # ActionOf(r)
    BY <1>1, <1>3 DEF Completed, SameRequest, Effects, RecordMatchesEffect
  <2>2. /\ EntryOf(x) \in Abstract!Entries
        /\ EntryOf(x).key = KeyOf(r) /\ EntryOf(x).action # ActionOf(r)
    BY <2>1, EntriesAreMessages DEF EntryOf
  <2>3. Abstract!Tell(r, [status |-> "conflict"])
    BY <1>3 DEF Abstract!Tell, Reject, SelectExisting, LogNow, MemoryNow
  <2> QED
    BY <1>1, <2>2, <2>3 DEF Abstract!TellConflict, KeyOf, ActionOf
<1> QED
  BY <1>2, <1>3 DEF SelectExisting

LEMMA RespondTells ==
  ASSUME Typed, Effects, Answers, NEW r \in Requests, Respond(r),
         LogNow' = LogNow, MemoryNow' = MemoryNow
  PROVE  Abstract!TellSuccess(r)
<1>1. Abstract!Waiting(r) /\ pc[r] = "respond"
  BY NotAnswered DEF Respond
<1>2. PICK x \in outbox : /\ x.key = KeyOf(r) /\ x.action = ActionOf(r)
                          /\ x.event = value[r].event /\ x.sequence = value[r].sequence
  BY <1>1 DEF Answers, ValueIsDurable, ValueHolds
<1>3. /\ EntryOf(x) \in Abstract!Entries
      /\ EntryOf(x).key = KeyOf(r) /\ EntryOf(x).action = ActionOf(r)
      /\ EntryOf(x).event = value[r].event /\ EntryOf(x).sequence = value[r].sequence
  BY <1>2, EntriesAreMessages DEF EntryOf
<1>4. Abstract!Tell(r, [status |-> IF EntryOf(x).event = r THEN "accepted" ELSE "replayed",
                        event |-> EntryOf(x).event, sequence |-> EntryOf(x).sequence])
  BY <1>3 DEF Abstract!Tell, Respond, LogNow, MemoryNow, tables
<1> QED
  BY <1>1, <1>3, <1>4 DEF Abstract!TellSuccess, KeyOf, ActionOf

\* A clean-up forgets what it has deleted, all of it at once.
LEMMA DeletionForgets ==
  ASSUME Typed, Locks, Effects, NEW c \in Cleaners, CommitDeletion(c),
         LogNow' = LogNow, MemoryNow' # MemoryNow
  PROVE  Abstract!Forget
<1> DEFINE gone == {k \in deleting[c] : records[k] # None}
<1>1. /\ records' = [k \in Keys |-> IF k \in deleting[c] THEN None ELSE records[k]]
      /\ UNCHANGED <<clock, command, reply>>
      /\ deleting[c] \subseteq Keys
  BY DEF CommitDeletion, Typed, TypeOK
<1>2. \A k \in Keys : MemoryOf(k)' = IF k \in gone THEN None ELSE MemoryOf(k)
  BY <1>1 DEF MemoryOf
<1>3. MemoryNow' = [k \in Keys |-> IF k \in gone THEN None ELSE MemoryNow[k]]
  BY <1>2 DEF MemoryNow
<1>4. gone # {}
  BY <1>3 DEF MemoryNow
<1>5. ASSUME NEW k \in gone
      PROVE  \E x \in Abstract!Entries :
               MemoryNow[k] = x.event /\ x.key = k /\ x.at + Retention <= clock
  <2>1. k \in Keys /\ records[k] # None /\ records[k].expiresAt <= clock
    BY <1>1 DEF Locks, DeletionIsDue
  <2>2. PICK x \in outbox : /\ x.key = k /\ x.event = records[k].event
                            /\ records[k].expiresAt = x.occurredAt + Retention
    BY <2>1 DEF Effects, RecordMatchesEffect
  <2>3. /\ EntryOf(x) \in Abstract!Entries
        /\ EntryOf(x).key = k /\ EntryOf(x).event = records[k].event
        /\ EntryOf(x).at + Retention <= clock
    BY <2>1, <2>2, EntriesAreMessages DEF EntryOf
  <2>4. MemoryNow[k] = records[k].event
    BY <2>1 DEF MemoryNow, MemoryOf
  <2> QED
    BY <2>3, <2>4
<1>6. gone \in (SUBSET Keys) \ {{}}
  BY <1>1, <1>4
<1> HIDE DEF gone
<1> QED
  BY <1>1, <1>3, <1>5, <1>6 DEF Abstract!Forget, LogNow, MemoryNow

LEMMA StepsMapToTheLog ==
  ASSUME Typed, Locks, Effects, Answers, IdleAsksNothing, Typed', Effects', [Next]_vars
  PROVE  [Abstract!Next]_(Abstract!vars)
<1> DEFINE same == UNCHANGED <<clock, LogNow, MemoryNow, command, reply>>
<1>1. same => UNCHANGED Abstract!vars
  BY DEF Abstract!vars, LogNow, MemoryNow
<1>2. UNCHANGED <<outbox, lastSequence>> => LogNow' = LogNow
  BY LogNowStays
<1>3. records' = records => MemoryNow' = MemoryNow
  BY MemoryNowStays
<1>4. ASSUME NEW r \in Requests, Submit(r)
      PROVE  Abstract!Next
  BY <1>2, <1>3, <1>4, SubmitAsks DEF Submit, tables, Abstract!Next
<1>5. ASSUME NEW r \in Requests,
             InsertRecord(r) \/ NextMatchSequence(r) \/ RecordOutboxMessage(r) \/ CompleteRecord(r)
      PROVE  same
  BY <1>2, <1>3, <1>5
  DEF InsertRecord, NextMatchSequence, RecordOutboxMessage, CompleteRecord, tables
<1>6. ASSUME NEW r \in Requests, SelectExisting(r)
      PROVE  Abstract!Next \/ same
  BY <1>2, <1>3, <1>6, SelectTells DEF SelectExisting, tables, Abstract!Next
<1>7. ASSUME NEW r \in Requests, Commit(r)
      PROVE  Abstract!Next \/ same
  <2>1. CASE writes[r] = Rows
    BY <1>7, <2>1, CommitAccepts DEF Abstract!Next
  <2>2. CASE writes[r] = {}
    BY <1>2, <1>3, <1>7, <2>2 DEF Commit, Holds
  <2> QED
    BY <1>7, <2>1, <2>2 DEF Commit, Typed, StatementOrder
<1>8. ASSUME NEW r \in Requests, Abort(r) \/ LoseReply(r)
      PROVE  Abstract!Next
  <2>1. /\ pc[r] \notin {"idle", "done"} /\ Reject(r, "error")
        /\ UNCHANGED <<tables, clock, command>>
    BY <1>8 DEF Abort, LoseReply, InTransaction
  <2> QED
    BY <1>2, <1>3, <2>1, ErrorTells DEF tables, Abstract!Next
<1>9. ASSUME NEW r \in Requests, Respond(r)
      PROVE  Abstract!Next
  BY <1>2, <1>3, <1>9, RespondTells DEF Respond, tables, Abstract!Next
<1>10. ASSUME NEW c \in Cleaners, DeleteExpired(c) \/ AbortDeletion(c)
       PROVE  same
  BY <1>2, <1>3, <1>10 DEF DeleteExpired, AbortDeletion, tables
<1>11. ASSUME NEW c \in Cleaners, CommitDeletion(c)
       PROVE  Abstract!Next \/ same
  BY <1>2, <1>11, DeletionForgets DEF CommitDeletion, Abstract!Next
<1>12. ASSUME Tick
       PROVE  Abstract!Next
  <2>1. clock' = clock + 1 /\ LogNow' = LogNow /\ MemoryNow' = MemoryNow
    BY <1>2, <1>3, <1>12 DEF Tick, tables
  <2>2. Abstract!Tick
    BY <1>12, <2>1 DEF Tick, Abstract!Tick, LogNow, MemoryNow
  <2> QED
    BY <2>2 DEF Abstract!Next
<1>13. ASSUME UNCHANGED vars
       PROVE  same
  BY <1>2, <1>3, <1>13 DEF vars, tables
<1> HIDE DEF same
<1>14. Abstract!Next \/ same
  BY <1>4, <1>5, <1>6, <1>7, <1>8, <1>9, <1>10, <1>11, <1>12, <1>13 DEF Next, Progress
<1> QED
  BY <1>1, <1>14

\* Concurrent callers, retries, roll-backs and clean-ups keep the promise of
\* docs/outbox-and-idempotency.md: the statements of executeIdempotentCommand
\* act as the one step of MatchActionLog that they stand for.
THEOREM CommandImplementsActionLog == Spec => ImplementsActionLog
<1>1. Init => Abstract!Init
  <2> SUFFICES ASSUME Init
               PROVE  Abstract!Init
    OBVIOUS
  <2>1. \A m \in Matches : LogOf(m) = <<>>
    BY DEF Init, LogOf
  <2> QED
    BY <2>1 DEF Init, Abstract!Init, MemoryOf
<1>2. Init => IdleAsksNothing
  BY DEF Init, IdleAsksNothing
<1>3. Spec => []IdleAsksNothing
  BY <1>2, IdleNext, TypedAlways, PTL DEF Spec
<1>4. /\ Typed /\ Locks /\ Effects /\ Answers /\ IdleAsksNothing
      /\ Typed' /\ Effects' /\ [Next]_vars
      => [Abstract!Next]_(Abstract!vars)
  BY StepsMapToTheLog
<1> QED
  BY <1>1, <1>3, <1>4, TypedAlways, LocksAlways, EffectsAlways, AnswersAlways, PTL
  DEF Spec, ImplementsActionLog, Abstract!Spec
=============================================================================
