--------------------------- MODULE ApiProcessProofs ---------------------------
(***************************************************************************)
(* What the API process keeps for every number of requests, sockets,       *)
(* contents and callers, from its start to the end of its shutdown.        *)
(*                                                                         *)
(* Its parts share no variables, so each has an invariant of its own:      *)
(* RequestInv, RealtimeInv and, for the start and the shutdown, BootInv,   *)
(* which looks at the other two.  The object storage comes first, as it is *)
(* specified for itself; the process implements that specification.        *)
(***************************************************************************)
EXTENDS ApiProcess, SequenceTheorems, TLAPS

-----------------------------------------------------------------------------
(***************************************************************************)
(* The object storage.                                                     *)
(*                                                                         *)
(* Promotable is a strict order of the stages.  A promotion that is about  *)
(* to remove its source has copied it to a later stage; another promotion  *)
(* may have removed that copy since, but then it had a copy at a stage     *)
(* that is later still.  So some later copy exists, unless a delete was    *)
(* asked for.                                                              *)
(***************************************************************************)

\* What is asked of the bucket is in order.
Orderly ==
  \A c \in Callers :
    /\ call[c].step \in {"copying", "removing"} => Promotable(call[c].from, call[c].to)
    /\ call[c].step = "deleting" => call[c].content \in discarded
    /\ call[c].step = "putting" => call[c].from = "quarantine"

\* Who is about to remove a source leaves a later copy behind.
LaterCopyExists ==
  \A c \in Callers :
    call[c].step = "removing" /\ call[c].content \notin discarded
      => \E place \in Stages : /\ Promotable(call[c].from, place)
                               /\ <<call[c].content, place>> \in bucket

\* Each content is put once, and everything else comes after.
PutOnce ==
  /\ \A key \in bucket \cup promoted : key[1] \in uploaded
  /\ \A c \in Callers :
       /\ call[c].step = "removing" => call[c].content \in uploaded
       /\ call[c].step = "putting" =>
            /\ call[c].content \notin uploaded
            /\ \A d \in Callers \ {c} :
                 call[d].step = "putting" => call[d].content # call[c].content

StorageInv ==
  /\ StorageTypeOK
  /\ Orderly
  /\ LaterCopyExists
  /\ ContentIsNeverLost
  /\ PutOnce
  /\ PromotedLeavesQuarantine
-----------------------------------------------------------------------------
LEMMA StorageInitInv == StorageInit => StorageInv
BY StorageAssumption
  DEF StorageInit, StorageInv, StorageTypeOK, Orderly, LaterCopyExists, ContentIsNeverLost,
      PutOnce, PromotedLeavesQuarantine, NoCall, Keys, Exists, Call, Stages, Steps

\* A call that is answered leaves its caller idle and the other calls alone.
LEMMA AfterAnswer ==
  ASSUME StorageTypeOK, NEW c \in Callers, Answered(c)
  PROVE  /\ call' \in [Callers -> Call \cup {NoCall}]
         /\ call'[c] = NoCall
         /\ \A d \in Callers \ {c} : call'[d] = call[d]
BY DEF StorageTypeOK, Answered

LEMMA CallTyped ==
  ASSUME StorageTypeOK, NEW c \in Callers, Calling(c)
  PROVE  /\ call[c] \in Call
         /\ KeyOf(c) \in Keys
         /\ TargetOf(c) \in Keys
<1>1. call[c] \in Call
  BY DEF StorageTypeOK, Calling, NoCall
<1>2. /\ call[c].content \in Contents
      /\ call[c].from \in Stages
      /\ call[c].to \in Stages
  BY <1>1 DEF Call
<1> QED
  BY <1>1, <1>2 DEF KeyOf, TargetOf, Keys

\* A new call changes nothing in the bucket.
LEMMA StartStep ==
  ASSUME StorageInv, NEW c \in Callers, NEW id \in Contents,
         NEW step \in Steps \ {"removing"}, NEW from \in Stages, NEW to \in Stages,
         Start(c, step, id, from, to),
         step = "copying" => Promotable(from, to),
         step = "deleting" => id \in discarded',
         step = "putting" =>
           /\ from = "quarantine"
           /\ id \notin uploaded
           /\ \A other \in Callers : call[other].content # id,
         UNCHANGED <<bucket, uploaded, promoted>>, client' = client,
         discarded' \in {discarded, discarded \cup {id}}
  PROVE  StorageInv'
<1> DEFINE new == [step |-> step, content |-> id, from |-> from, to |-> to]
<1>1. new \in Call
  BY DEF Call
<1>2. /\ call' \in [Callers -> Call \cup {NoCall}]
      /\ call'[c] = new
      /\ \A d \in Callers \ {c} : call'[d] = call[d]
  BY <1>1 DEF Start, StorageInv, StorageTypeOK
<1>3. /\ new.step = step
      /\ new.content = id
      /\ new.from = from
      /\ new.to = to
  OBVIOUS
<1> HIDE DEF new
<1>4. StorageTypeOK'
  BY <1>2 DEF StorageInv, StorageTypeOK
<1>5. Orderly'
  BY <1>2, <1>3 DEF StorageInv, Orderly
<1>6. LaterCopyExists'
  <2> SUFFICES ASSUME NEW d \in Callers, call'[d].step = "removing",
                      call'[d].content \notin discarded'
               PROVE  \E place \in Stages : /\ Promotable(call'[d].from, place)
                                            /\ <<call'[d].content, place>> \in bucket'
    BY DEF LaterCopyExists
  <2>1. d # c
    BY <1>2, <1>3
  <2> QED
    BY <1>2, <2>1 DEF StorageInv, LaterCopyExists
<1>7. ContentIsNeverLost'
  BY DEF StorageInv, ContentIsNeverLost, Exists
<1>8. PutOnce'
  BY <1>2, <1>3 DEF StorageInv, PutOnce
<1>9. PromotedLeavesQuarantine'
  BY DEF StorageInv, PromotedLeavesQuarantine
<1> QED
  BY <1>4, <1>5, <1>6, <1>7, <1>8, <1>9 DEF StorageInv

\* A call that ends without an effect.
LEMMA NoEffectStep ==
  ASSUME StorageInv, NEW c \in Callers, Answered(c),
         UNCHANGED <<bucket, client, uploaded, discarded, promoted>>
  PROVE  StorageInv'
<1>1. /\ call' \in [Callers -> Call \cup {NoCall}]
      /\ call'[c] = NoCall
      /\ \A d \in Callers \ {c} : call'[d] = call[d]
  BY AfterAnswer DEF StorageInv
<1>2. NoCall.step = "none"
  BY DEF NoCall
<1>3. StorageTypeOK'
  BY <1>1 DEF StorageInv, StorageTypeOK
<1>4. Orderly'
  BY <1>1, <1>2 DEF StorageInv, Orderly
<1>5. LaterCopyExists'
  BY <1>1, <1>2 DEF StorageInv, LaterCopyExists
<1>6. ContentIsNeverLost' /\ PromotedLeavesQuarantine'
  BY DEF StorageInv, ContentIsNeverLost, PromotedLeavesQuarantine, Exists
<1>7. PutOnce'
  BY <1>1, <1>2 DEF StorageInv, PutOnce
<1> QED
  BY <1>3, <1>4, <1>5, <1>6, <1>7 DEF StorageInv

\* The upload's PutObject, answered or not.
LEMMA PutStep ==
  ASSUME StorageInv, NEW c \in Callers, call[c].step = "putting", Answered(c),
         bucket' = bucket \cup {KeyOf(c)},
         uploaded' = uploaded \cup {call[c].content},
         UNCHANGED <<client, discarded, promoted>>
  PROVE  StorageInv'
<1>1. /\ call' \in [Callers -> Call \cup {NoCall}]
      /\ call'[c] = NoCall
      /\ \A d \in Callers \ {c} : call'[d] = call[d]
  BY AfterAnswer DEF StorageInv
<1>2. NoCall.step = "none"
  BY DEF NoCall
<1>3. /\ call[c] \in Call
      /\ KeyOf(c) \in Keys
  BY CallTyped DEF StorageInv, Calling
<1>4. call[c].content \in Contents
  BY <1>3 DEF Call
<1>5. KeyOf(c) = <<call[c].content, "quarantine">>
  BY DEF KeyOf, StorageInv, Orderly
<1>6. StorageTypeOK'
  BY <1>1, <1>3, <1>4 DEF StorageInv, StorageTypeOK
<1>7. Orderly'
  BY <1>1, <1>2 DEF StorageInv, Orderly
<1>8. LaterCopyExists'
  BY <1>1, <1>2 DEF StorageInv, LaterCopyExists
<1>9. ContentIsNeverLost'
  BY <1>5 DEF StorageInv, ContentIsNeverLost, Exists, Stages
<1>10. PutOnce'
  BY <1>1, <1>2, <1>5 DEF StorageInv, PutOnce
<1>11. PromotedLeavesQuarantine'
  BY <1>5 DEF StorageInv, PromotedLeavesQuarantine, PutOnce
<1> QED
  BY <1>6, <1>7, <1>8, <1>9, <1>10, <1>11 DEF StorageInv

\* The promotion's CopyObject, answered (the source is removed next) or not.
LEMMA CopyStep ==
  ASSUME StorageInv, NEW c \in Callers, call[c].step = "copying", KeyOf(c) \in bucket,
         bucket' = bucket \cup {TargetOf(c)},
         call' = [call EXCEPT ![c].step = "removing"] \/ Answered(c),
         UNCHANGED <<client, uploaded, discarded, promoted>>
  PROVE  StorageInv'
<1> DEFINE next == call'[c]
<1>1. /\ call[c] \in Call
      /\ TargetOf(c) \in Keys
  BY CallTyped DEF StorageInv, Calling
<1>2. [call[c] EXCEPT !.step = "removing"] \in Call
  BY <1>1 DEF Call, Steps
<1>3. /\ call' \in [Callers -> Call \cup {NoCall}]
      /\ \A d \in Callers \ {c} : call'[d] = call[d]
      /\ next \in {NoCall, [call[c] EXCEPT !.step = "removing"]}
  BY <1>2 DEF StorageInv, StorageTypeOK, Answered
<1>4. \/ next.step = "none"
      \/ /\ next.step = "removing"
         /\ next.content = call[c].content
         /\ next.from = call[c].from
         /\ next.to = call[c].to
  BY <1>1, <1>3 DEF NoCall, Call
<1>5. TargetOf(c) = <<call[c].content, call[c].to>> /\ KeyOf(c) = <<call[c].content, call[c].from>>
  BY DEF TargetOf, KeyOf
<1>6. Promotable(call[c].from, call[c].to)
  BY DEF StorageInv, Orderly
<1>7. call[c].to \in Stages /\ call[c].to # "quarantine"
  BY <1>1, <1>6 DEF Call, Promotable
<1>8. call[c].content \in uploaded
  BY <1>5 DEF StorageInv, PutOnce
<1> HIDE DEF next
<1>9. StorageTypeOK'
  BY <1>1, <1>3 DEF StorageInv, StorageTypeOK
<1>10. Orderly'
  <2> SUFFICES ASSUME NEW d \in Callers
               PROVE  /\ call'[d].step \in {"copying", "removing"}
                           => Promotable(call'[d].from, call'[d].to)
                      /\ call'[d].step = "deleting" => call'[d].content \in discarded'
                      /\ call'[d].step = "putting" => call'[d].from = "quarantine"
    BY DEF Orderly
  <2>1. CASE d = c
    BY <2>1, <1>4, <1>6 DEF next
  <2>2. CASE d # c
    BY <2>2, <1>3 DEF StorageInv, Orderly
  <2> QED
    BY <2>1, <2>2
<1>11. LaterCopyExists'
  <2> SUFFICES ASSUME NEW d \in Callers, call'[d].step = "removing",
                      call'[d].content \notin discarded'
               PROVE  \E place \in Stages : /\ Promotable(call'[d].from, place)
                                            /\ <<call'[d].content, place>> \in bucket'
    BY DEF LaterCopyExists
  <2>1. CASE d = c
    BY <2>1, <1>4, <1>5, <1>6, <1>7 DEF next
  <2>2. CASE d # c
    BY <2>2, <1>3 DEF StorageInv, LaterCopyExists
  <2> QED
    BY <2>1, <2>2
<1>12. ContentIsNeverLost'
  BY DEF StorageInv, ContentIsNeverLost, Exists
<1>13. PutOnce'
  <2>1. \A key \in bucket' \cup promoted' : key[1] \in uploaded'
    BY <1>5, <1>8 DEF StorageInv, PutOnce
  <2>2. \A d \in Callers : call'[d].step = "removing" => call'[d].content \in uploaded'
    BY <1>3, <1>4, <1>8 DEF StorageInv, PutOnce, next
  <2>3. \A d \in Callers : call'[d].step = "putting" => d # c /\ call'[d] = call[d]
    BY <1>3, <1>4 DEF next
  <2> QED
    BY <2>1, <2>2, <2>3 DEF StorageInv, PutOnce
<1>14. PromotedLeavesQuarantine'
  BY <1>5, <1>7 DEF StorageInv, PromotedLeavesQuarantine
<1> QED
  BY <1>9, <1>10, <1>11, <1>12, <1>13, <1>14 DEF StorageInv

\* The DeleteObject of a promotion or of deleteObject, answered or not.
LEMMA RemoveStep ==
  ASSUME StorageInv, NEW c \in Callers, call[c].step \in {"removing", "deleting"},
         Answered(c),
         bucket' = bucket \ {KeyOf(c)},
         \/ promoted' = promoted
         \/ call[c].step = "removing" /\ promoted' = promoted \cup {KeyOf(c)},
         UNCHANGED <<client, uploaded, discarded>>
  PROVE  StorageInv'
<1>1. /\ call' \in [Callers -> Call \cup {NoCall}]
      /\ call'[c] = NoCall
      /\ \A d \in Callers \ {c} : call'[d] = call[d]
  BY AfterAnswer DEF StorageInv
<1>2. NoCall.step = "none"
  BY DEF NoCall
<1>3. /\ call[c] \in Call
      /\ KeyOf(c) \in Keys
  BY CallTyped DEF StorageInv, Calling
<1>4. KeyOf(c) = <<call[c].content, call[c].from>>
  BY DEF KeyOf
<1>5. \A id \in Contents \ discarded, place \in Stages :
        <<id, place>> \in bucket
          => \/ <<id, place>> \in bucket'
             \/ \E later \in Stages : Promotable(place, later) /\ <<id, later>> \in bucket'
  <2> SUFFICES ASSUME NEW id \in Contents \ discarded, NEW place \in Stages,
                      <<id, place>> \in bucket, <<id, place>> \notin bucket'
               PROVE  \E later \in Stages : Promotable(place, later) /\ <<id, later>> \in bucket'
    OBVIOUS
  <2>1. id = call[c].content /\ place = call[c].from
    BY <1>4
  <2>2. call[c].step = "removing"
    BY <2>1 DEF StorageInv, Orderly
  <2>3. PICK later \in Stages : Promotable(place, later) /\ <<id, later>> \in bucket
    BY <2>1, <2>2 DEF StorageInv, LaterCopyExists
  <2>4. later # place
    BY <2>3 DEF Promotable
  <2>5. <<id, later>> \in bucket'
    BY <1>4, <2>1, <2>3, <2>4
  <2> QED
    BY <2>3, <2>5
<1>6. StorageTypeOK'
  BY <1>1, <1>3 DEF StorageInv, StorageTypeOK
<1>7. Orderly'
  BY <1>1, <1>2 DEF StorageInv, Orderly
<1>8. LaterCopyExists'
  <2> SUFFICES ASSUME NEW d \in Callers, call'[d].step = "removing",
                      call'[d].content \notin discarded'
               PROVE  \E place \in Stages : /\ Promotable(call'[d].from, place)
                                            /\ <<call'[d].content, place>> \in bucket'
    BY DEF LaterCopyExists
  <2>1. d # c /\ call'[d] = call[d]
    BY <1>1, <1>2
  <2>2. call[d] \in Call
    BY <2>1, CallTyped DEF StorageInv, Calling
  <2>3. call[d].content \in Contents \ discarded /\ call[d].from \in Stages
    BY <2>1, <2>2 DEF Call
  <2>4. PICK place \in Stages : /\ Promotable(call[d].from, place)
                                /\ <<call[d].content, place>> \in bucket
    BY <2>1, <2>3 DEF StorageInv, LaterCopyExists
  <2>5. CASE <<call[d].content, place>> \in bucket'
    BY <2>1, <2>4, <2>5
  <2>6. CASE <<call[d].content, place>> \notin bucket'
    <3>1. PICK later \in Stages : /\ Promotable(place, later)
                                  /\ <<call[d].content, later>> \in bucket'
      BY <1>5, <2>3, <2>4, <2>6
    <3>2. Promotable(call[d].from, later)
      BY <2>4, <3>1 DEF Promotable
    <3> QED
      BY <2>1, <3>1, <3>2
  <2> QED
    BY <2>5, <2>6
<1>9. ContentIsNeverLost'
  <2> SUFFICES ASSUME NEW id \in uploaded \ discarded
               PROVE  Exists(id)'
    BY DEF ContentIsNeverLost
  <2>1. id \in Contents \ discarded
    BY DEF StorageInv, StorageTypeOK
  <2>2. PICK place \in Stages : <<id, place>> \in bucket
    BY DEF StorageInv, ContentIsNeverLost, Exists
  <2> QED
    BY <1>5, <2>1, <2>2 DEF Exists
<1>10. PutOnce'
  BY <1>1, <1>2, <1>4 DEF StorageInv, PutOnce
<1>11. PromotedLeavesQuarantine'
  BY DEF StorageInv, PromotedLeavesQuarantine
<1> QED
  BY <1>6, <1>7, <1>8, <1>9, <1>10, <1>11 DEF StorageInv

LEMMA StorageCallInv ==
  ASSUME StorageInv, NEW c \in Callers, StorageCall(c)
  PROVE  StorageInv'
<1>1. PICK id \in Contents :
        \/ Upload(c, id)
        \/ \E from, to \in Stages : Promote(c, id, from, to)
        \/ \E from \in Stages : Delete(c, id, from) \/ CreateReadUrl(c, id, from)
  BY DEF StorageCall
<1>2. "quarantine" \in Stages /\ {"putting", "copying", "deleting", "heading"} \subseteq Steps \ {"removing"}
  BY DEF Stages, Steps
<1>3. CASE Upload(c, id)
  <2>1. /\ Start(c, "putting", id, "quarantine", "quarantine")
        /\ id \notin uploaded
        /\ \A other \in Callers : call[other].content # id
        /\ UNCHANGED <<bucket, client, uploaded, discarded, promoted>>
    BY <1>3 DEF Upload
  <2> QED
    BY <1>2, <2>1, StartStep
<1>4. CASE \E from, to \in Stages : Promote(c, id, from, to)
  <2>1. PICK from \in Stages, to \in Stages : Promote(c, id, from, to)
    BY <1>4
  <2> QED
    BY <1>2, <2>1, StartStep DEF Promote
<1>5. CASE \E from \in Stages : Delete(c, id, from)
  <2>1. PICK from \in Stages : Delete(c, id, from)
    BY <1>5
  <2> QED
    BY <1>2, <2>1, StartStep DEF Delete
<1>6. CASE \E from \in Stages : CreateReadUrl(c, id, from)
  <2>1. PICK from \in Stages : CreateReadUrl(c, id, from)
    BY <1>6
  <2> QED
    BY <1>2, <2>1, StartStep DEF CreateReadUrl
<1> QED
  BY <1>1, <1>3, <1>4, <1>5, <1>6

LEMMA StorageStepInv ==
  ASSUME StorageInv, NEW c \in Callers, StorageStep(c)
  PROVE  StorageInv'
<1>1. CASE StorageCall(c)
  BY <1>1, StorageCallInv
<1>2. CASE Put(c)
  BY <1>2, PutStep DEF Put
<1>3. CASE Copy(c)
  BY <1>3, CopyStep DEF Copy
<1>4. CASE Remove(c)
  BY <1>4, RemoveStep DEF Remove
<1>5. CASE Discard(c)
  <2>1. /\ call[c].step \in {"removing", "deleting"}
        /\ Answered(c)
        /\ bucket' = bucket \ {KeyOf(c)}
        /\ promoted' = promoted
        /\ UNCHANGED <<client, uploaded, discarded>>
    BY <1>5 DEF Discard
  <2> QED
    BY <2>1, RemoveStep
<1>6. CASE Look(c)
  BY <1>6, NoEffectStep DEF Look
<1>7. CASE CommandFails(c)
  BY <1>7, NoEffectStep DEF CommandFails
<1>8. CASE CommandUnanswered(c)
  <2>1. Answered(c) /\ UNCHANGED <<client, discarded, promoted>>
    BY <1>8 DEF CommandUnanswered
  <2>2. CASE /\ call[c].step = "putting"
             /\ bucket' = bucket \cup {KeyOf(c)}
             /\ uploaded' = uploaded \cup {call[c].content}
    BY <2>1, <2>2, PutStep
  <2>3. CASE /\ call[c].step = "copying"
             /\ KeyOf(c) \in bucket
             /\ bucket' = bucket \cup {TargetOf(c)}
             /\ UNCHANGED uploaded
    BY <2>1, <2>3, CopyStep
  <2>4. CASE /\ call[c].step \in {"removing", "deleting"}
             /\ bucket' = bucket \ {KeyOf(c)}
             /\ UNCHANGED uploaded
    <3>1. promoted' = promoted /\ UNCHANGED <<client, uploaded, discarded>>
      BY <2>1, <2>4
    <3> QED
      BY <2>1, <2>4, <3>1, RemoveStep
  <2> QED
    BY <1>8, <2>2, <2>3, <2>4 DEF CommandUnanswered
<1> QED
  BY <1>1, <1>2, <1>3, <1>4, <1>5, <1>6, <1>7, <1>8 DEF StorageStep, Command

\* What does not touch the calls and the bucket, such as Destroy.
LEMMA StorageIdleInv ==
  ASSUME StorageInv, client' \in {client, "destroyed"},
         UNCHANGED <<bucket, call, uploaded, discarded, promoted>>
  PROVE  StorageInv'
<1>1. StorageTypeOK' /\ Orderly' /\ LaterCopyExists'
  BY DEF StorageInv, StorageTypeOK, Orderly, LaterCopyExists
<1>2. ContentIsNeverLost' /\ PutOnce' /\ PromotedLeavesQuarantine'
  BY DEF StorageInv, ContentIsNeverLost, Exists, PutOnce, PromotedLeavesQuarantine
<1> QED
  BY <1>1, <1>2 DEF StorageInv

LEMMA StorageNextInv == StorageInv /\ [StorageNext]_storageVars => StorageInv'
<1> SUFFICES ASSUME StorageInv, [StorageNext]_storageVars
             PROVE  StorageInv'
  OBVIOUS
<1>1. CASE \E c \in Callers : StorageStep(c)
  BY <1>1, StorageStepInv
<1>2. CASE Destroy
  BY <1>2, StorageIdleInv DEF Destroy
<1>3. CASE UNCHANGED storageVars
  BY <1>3, StorageIdleInv DEF storageVars
<1> QED
  BY <1>1, <1>2, <1>3 DEF StorageNext

THEOREM StorageInvariant == StorageSpec => []StorageInv
<1>1. StorageInit => StorageInv
  BY StorageInitInv
<1>2. StorageInv /\ [StorageNext]_storageVars => StorageInv'
  BY StorageNextInv
<1> QED
  BY <1>1, <1>2, PTL DEF StorageSpec

\* The variables keep their types.
THEOREM StorageTypeCorrect == StorageSpec => []StorageTypeOK
<1>1. StorageInv => StorageTypeOK
  BY DEF StorageInv
<1> QED
  BY <1>1, StorageInvariant, PTL

\* An uploaded content exists until somebody asks to delete it, whatever
\* promotions of it interleave, fail half-way or lose their answer.
THEOREM ContentsAreKept == StorageSpec => []ContentIsNeverLost
<1>1. StorageInv => ContentIsNeverLost
  BY DEF StorageInv
<1> QED
  BY <1>1, StorageInvariant, PTL

\* A confirmed promotion from quarantine is never undone.
THEOREM QuarantineIsLeft == StorageSpec => []PromotedLeavesQuarantine
<1>1. StorageInv => PromotedLeavesQuarantine
  BY DEF StorageInv
<1> QED
  BY <1>1, StorageInvariant, PTL

\* Only a delete takes an approved object away.
THEOREM ApprovedIsKept == StorageSpec => ApprovedStaysApproved
<1> DEFINE Kept == \A id \in Contents : <<id, "approved">> \in bucket /\ id \notin discarded'
                     => <<id, "approved">> \in bucket'
<1>1. StorageInv /\ [StorageNext]_storageVars => [Kept]_storageVars
  <2> SUFFICES ASSUME StorageInv, [StorageNext]_storageVars, NEW id \in Contents,
                      <<id, "approved">> \in bucket, id \notin discarded'
               PROVE  <<id, "approved">> \in bucket'
    OBVIOUS
  <2>1. CASE \E c \in Callers : StorageStep(c)
    <3>1. PICK c \in Callers : StorageStep(c)
      BY <2>1
    <3>2. CASE bucket \subseteq bucket'
      BY <3>2
    <3>3. CASE call[c].step \in {"removing", "deleting"} /\ bucket' = bucket \ {KeyOf(c)}
      <4>1. call[c].step = "removing" => call[c].from # "approved"
        BY DEF StorageInv, Orderly, Promotable
      <4>2. call[c].step = "deleting" => call[c].content \in discarded
        BY DEF StorageInv, Orderly
      <4>3. discarded \subseteq discarded'
        BY <3>1, <3>3 DEF StorageStep, StorageCall, Command, CommandFails, CommandUnanswered, Put,
            Copy, Remove, Discard, Look, Upload, Promote, Delete, CreateReadUrl
      <4>4. <<id, "approved">> # KeyOf(c)
        BY <3>3, <4>1, <4>2, <4>3 DEF KeyOf
      <4> QED
        BY <3>3, <4>4
    <3> QED
      BY <3>1, <3>2, <3>3 DEF StorageStep, StorageCall, Command, CommandFails, CommandUnanswered,
          Put, Copy, Remove, Discard, Look, Upload, Promote, Delete, CreateReadUrl
  <2>2. CASE Destroy
    BY <2>2 DEF Destroy
  <2>3. CASE UNCHANGED storageVars
    BY <2>3 DEF storageVars
  <2> QED
    BY <2>1, <2>2, <2>3 DEF StorageNext
<1> QED
  BY <1>1, StorageInvariant, PTL DEF StorageSpec, ApprovedStaysApproved
-----------------------------------------------------------------------------
\* The object storage within the process.

LEMMA ApiInitIsStorageInit == ApiInit => StorageInit
BY DEF ApiInit

LEMMA ApiStepIsStorageStep == [ApiNext]_apiVars => [StorageNext]_storageVars
<1> SUFFICES ASSUME [ApiNext]_apiVars
             PROVE  [StorageNext]_storageVars
  OBVIOUS
<1>1. CASE Boot
  BY <1>1 DEF Boot, AttachRuntime, SocketStarted, Listen
<1>2. CASE CreationFails \/ BindFails \/ Signal \/ Expire
  BY <1>2 DEF CreationFails, BindFails, Signal, Expire
<1>3. CASE Shutdown
  BY <1>3 DEF Shutdown, Dispose, Flush, CloseNext, Finish, StorageNext
<1>4. CASE Realtime
  BY <1>4 DEF Realtime, ProbeArrives, Ping, ProbeFails, ClientReady, ClientLost, Subscribe, SubscribeFails,
      SocketConnects, SocketLeaves
<1>5. CASE \E r \in Requests : Handle(r)
  BY <1>5 DEF Handle
<1>6. CASE RedisStep
  BY <1>6 DEF RedisStep
<1>7. CASE StorageUse
  BY <1>7 DEF StorageUse, StorageNext
<1>8. CASE UNCHANGED apiVars
  BY <1>8 DEF apiVars
<1> QED
  BY <1>1, <1>2, <1>3, <1>4, <1>5, <1>6, <1>7, <1>8 DEF ApiNext

\* The process uses its object storage as ObjectStorage describes, so that what
\* is proved there holds here: the runtime's close() is the Destroy of there.
THEOREM ApiImplementsStorage == ApiSpec => StorageSpec
<1>1. ApiInit => StorageInit
  BY ApiInitIsStorageInit
<1>2. [ApiNext]_apiVars => [StorageNext]_storageVars
  BY ApiStepIsStorageStep
<1> QED
  BY <1>1, <1>2, PTL DEF ApiSpec, StorageSpec

\* Contents survive the process, its shutdown and their interrupted promotions.
THEOREM ApiKeepsContents == ApiSpec => []ContentIsNeverLost /\ []PromotedLeavesQuarantine
BY ApiImplementsStorage, ContentsAreKept, QuarantineIsLeft, PTL
-----------------------------------------------------------------------------
\* Requests.

RequestInv ==
  /\ request \in [Requests -> Request]
  /\ MutationsAreCounted

LEMMA RequestInit == ApiInit => RequestInv
BY DEF ApiInit, LimitInit, RequestInv, MutationsAreCounted, Idling, Request, Scopes

\* A request goes on, as the hook decides.
LEMMA GoesStep ==
  ASSUME RequestInv, NEW r \in Requests, NEW scope \in Scopes, NEW counted \in BOOLEAN,
         NEW step \in {"consuming", "resending", "admitted"},
         Goes(r, step, scope, counted),
         step = "admitted" /\ scope # "general" => counted
  PROVE  RequestInv'
<1> DEFINE new == [step |-> step, scope |-> scope, counted |-> counted]
<1>1. new \in Request
  BY DEF Request
<1>2. /\ new.step = step
      /\ new.scope = scope
      /\ new.counted = counted
  OBVIOUS
<1>3. request' = [request EXCEPT ![r] = new]
  BY DEF Goes
<1> HIDE DEF new
<1>4. request' \in [Requests -> Request]
  BY <1>1, <1>3 DEF RequestInv
<1>5. MutationsAreCounted'
  BY <1>2, <1>3 DEF RequestInv, MutationsAreCounted
<1> QED
  BY <1>4, <1>5 DEF RequestInv

\* A request is answered.
LEMMA AnswerStep ==
  ASSUME RequestInv, NEW r \in Requests, Answer(r)
  PROVE  RequestInv'
<1>1. Idling \in Request /\ Idling.step = "idle"
  BY DEF Idling, Request, Scopes
<1>2. request' \in [Requests -> Request]
  BY <1>1 DEF RequestInv, Answer
<1>3. MutationsAreCounted'
  BY <1>1 DEF RequestInv, MutationsAreCounted, Answer
<1> QED
  BY <1>2, <1>3 DEF RequestInv

LEMMA DegradeStep ==
  ASSUME RequestInv, NEW r \in Requests, NEW scope \in Scopes, Degrade(r, scope)
  PROVE  RequestInv'
<1>1. request[r].counted \in BOOLEAN
  BY DEF RequestInv, Request
<1>2. CASE FailOpen(scope)
  <2>1. Goes(r, "admitted", scope, request[r].counted)
    BY <1>2 DEF Degrade
  <2> QED
    BY <1>1, <1>2, <2>1, GoesStep DEF FailOpen
<1>3. CASE ~FailOpen(scope)
  BY <1>3, AnswerStep DEF Degrade
<1> QED
  BY <1>2, <1>3

LEMMA HandleStep ==
  ASSUME RequestInv, NEW r \in Requests, Handle(r)
  PROVE  RequestInv'
<1>1. request[r].scope \in Scopes
  BY DEF RequestInv, Request
<1>2. CASE \E scope \in Scopes : Arrive(r, scope)
  <2>1. PICK scope \in Scopes : Arrive(r, scope)
    BY <1>2
  <2>2. Goes(r, "consuming", scope, FALSE) \/ Degrade(r, scope)
    BY <2>1 DEF Arrive
  <2> QED
    BY <2>2, GoesStep, DegradeStep
<1>3. CASE Consume(r)
  <2>1. Goes(r, "admitted", request[r].scope, TRUE) \/ Answer(r)
    BY <1>3 DEF Consume
  <2> QED
    BY <1>1, <2>1, GoesStep, AnswerStep
<1>4. CASE ConsumeUnanswered(r)
  BY <1>1, <1>4, GoesStep DEF ConsumeUnanswered
<1>5. CASE ConsumeFails(r)
  BY <1>1, <1>5, DegradeStep DEF ConsumeFails
<1>6. CASE Respond(r)
  BY <1>6, AnswerStep DEF Respond
<1> QED
  BY <1>2, <1>3, <1>4, <1>5, <1>6 DEF Handle, Settle

LEMMA ApiStepIsLimitStep == [ApiNext]_apiVars => [LimitNext]_limitVars
<1> SUFFICES ASSUME [ApiNext]_apiVars, ~UNCHANGED limitVars
             PROVE  LimitNext
  OBVIOUS
<1>1. Boot => UNCHANGED limitVars
  BY DEF Boot, AttachRuntime, SocketStarted, Listen
<1>2. CreationFails \/ BindFails \/ Signal \/ Expire => UNCHANGED limitVars
  BY DEF CreationFails, BindFails, Signal, Expire
<1>3. Shutdown => UNCHANGED limitVars
  BY DEF Shutdown, Dispose, Flush, CloseNext, Finish
<1>4. Realtime => UNCHANGED limitVars
  BY DEF Realtime, ProbeArrives, Ping, ProbeFails, ClientReady, ClientLost, Subscribe, SubscribeFails,
      SocketConnects, SocketLeaves
<1>5. StorageUse => UNCHANGED limitVars
  BY DEF StorageUse
<1>6. UNCHANGED apiVars => UNCHANGED limitVars
  BY DEF apiVars
<1>7. ASSUME NEW r \in Requests, Handle(r) PROVE LimitNext
  BY <1>7 DEF Handle, LimitNext
<1>8. RedisStep => LimitNext
  BY DEF RedisStep, LimitNext
<1> QED
  BY <1>1, <1>2, <1>3, <1>4, <1>5, <1>6, <1>7, <1>8 DEF ApiNext

\* The API process implements the rate limit: its start and its shutdown only
\* leave some of the limit's steps out.
THEOREM ApiImplementsLimit == ApiSpec => LimitSpec
<1>1. ApiInit => LimitInit
  BY DEF ApiInit
<1> QED
  BY <1>1, ApiStepIsLimitStep, PTL DEF ApiSpec, LimitSpec

\* Only Handle moves a request.
LEMMA RequestsMoveByHandle ==
  ASSUME [ApiNext]_apiVars
  PROVE  (\E r \in Requests : Handle(r)) \/ request' = request
<1>1. Boot => request' = request
  BY DEF Boot, AttachRuntime, SocketStarted, Listen, limitVars
<1>2. CreationFails \/ BindFails \/ Signal \/ Expire => request' = request
  BY DEF CreationFails, BindFails, Signal, Expire, limitVars
<1>3. Shutdown => request' = request
  BY DEF Shutdown, Dispose, Flush, CloseNext, Finish, limitVars
<1>4. Realtime => request' = request
  BY DEF Realtime, ProbeArrives, Ping, ProbeFails, ClientReady, ClientLost, Subscribe, SubscribeFails,
      SocketConnects, SocketLeaves, limitVars
<1>5. RedisStep => request' = request
  BY DEF RedisStep, RedisReady, RedisLost, RedisRestarts, LimitTick
<1>6. StorageUse => request' = request
  BY DEF StorageUse, limitVars
<1>7. UNCHANGED apiVars => request' = request
  BY DEF apiVars, limitVars
<1> QED
  BY <1>1, <1>2, <1>3, <1>4, <1>5, <1>6, <1>7 DEF ApiNext

LEMMA RequestNext == RequestInv /\ [ApiNext]_apiVars => RequestInv'
<1> SUFFICES ASSUME RequestInv, [ApiNext]_apiVars
             PROVE  RequestInv'
  OBVIOUS
<1>1. CASE \E r \in Requests : Handle(r)
  BY <1>1, HandleStep
<1>2. CASE request' = request
  BY <1>2 DEF RequestInv, MutationsAreCounted
<1> QED
  BY <1>1, <1>2, RequestsMoveByHandle

\* No request that changes state reaches its handler without having been
\* counted, whatever becomes of Redis and of its answers.
THEOREM MutationsFailClosed == ApiSpec => []MutationsAreCounted
<1>1. ApiInit => RequestInv
  BY RequestInit
<1>2. RequestInv /\ [ApiNext]_apiVars => RequestInv'
  BY RequestNext
<1>3. RequestInv => MutationsAreCounted
  BY DEF RequestInv
<1> QED
  BY <1>1, <1>2, <1>3, PTL DEF ApiSpec
-----------------------------------------------------------------------------
\* The rate limit.

\* How many requests the present window has let through at most.
Counted(k) == IF counter[k] <= Limit[k] THEN counter[k] ELSE Limit[k]

\* How many the windows before it have in this tick and the n before, at most:
\* one of them may have been in progress when these ticks began, and each other
\* one is there because Redis restarted since.
Earlier(k, n) == (1 + restarts[n]) * Limit[k]

\* The present window began Window - ttl[k] ticks ago, with a request that was
\* counted then: who was let through since was let through by it, and is not all
\* that it counts.
WindowsAdjoin(k) ==
  /\ counter[k] = 0 <=> ttl[k] = 0
  /\ \A n \in Ticks :
       /\ recent[k][n] < Earlier(k, n) + Counted(k)
       /\ ttl[k] > 0 /\ n < Window - ttl[k] => recent[k][n] < Counted(k)

LimitTypes ==
  /\ counter \in [Scopes -> Nat]
  /\ ttl \in [Scopes -> 0 .. Window]
  /\ recent \in [Scopes -> [Ticks -> Nat]]
  /\ restarts \in [Ticks -> Nat]

LimitInv == LimitTypes /\ \A k \in Scopes : WindowsAdjoin(k)

LEMMA LimitIsPositive ==
  /\ Window \in Nat \ {0}
  /\ \A k \in Scopes : Limit[k] \in Nat \ {0}
BY LimitAssumption

LEMMA EarlierIsNat ==
  ASSUME LimitTypes, NEW k \in Scopes, NEW n \in Ticks
  PROVE  Earlier(k, n) \in Nat /\ Limit[k] <= Earlier(k, n)
<1>1. \A m, l \in Nat : m * l \in Nat /\ (1 + m) * l = l + m * l
  OBVIOUS
<1>2. restarts[n] \in Nat /\ Limit[k] \in Nat
  BY LimitIsPositive DEF LimitTypes
<1>3. restarts[n] * Limit[k] \in Nat /\ Earlier(k, n) = Limit[k] + restarts[n] * Limit[k]
  BY <1>1, <1>2 DEF Earlier
<1> QED
  BY <1>2, <1>3

\* A restart of Redis makes room for one more window.
LEMMA EarlierGrows ==
  ASSUME LimitTypes, NEW k \in Scopes, NEW n \in Ticks, restarts'[n] = restarts[n] + 1
  PROVE  Earlier(k, n)' = Earlier(k, n) + Limit[k]
<1>1. \A m, l \in Nat : (1 + (m + 1)) * l = (1 + m) * l + l
  OBVIOUS
<1>2. restarts[n] \in Nat /\ Limit[k] \in Nat
  BY LimitIsPositive DEF LimitTypes
<1>3. (1 + (restarts[n] + 1)) * Limit[k] = (1 + restarts[n]) * Limit[k] + Limit[k]
  BY <1>1, <1>2
<1> QED
  BY <1>3 DEF Earlier

LEMMA LimitStarts == LimitInit => LimitInv
<1> SUFFICES ASSUME LimitInit
             PROVE  LimitInv
  OBVIOUS
<1>1. LimitTypes
  BY LimitIsPositive DEF LimitInit, LimitTypes, Ticks
<1>2. \A k \in Scopes : counter[k] = 0 /\ ttl[k] = 0
  BY DEF LimitInit
<1>3. \A k \in Scopes, n \in Ticks : recent[k][n] = 0
  BY DEF LimitInit
<1> QED
  BY <1>1, <1>2, <1>3, EarlierIsNat, LimitIsPositive DEF LimitInv, WindowsAdjoin, Counted

\* Nothing is counted.
LEMMA LimitIdle ==
  ASSUME LimitInv, UNCHANGED <<counter, ttl, restarts, recent>>
  PROVE  LimitInv'
<1>1. LimitTypes'
  BY DEF LimitInv, LimitTypes
<1>2. \A k \in Scopes : WindowsAdjoin(k)'
  BY DEF LimitInv, WindowsAdjoin, Counted, Earlier
<1> QED
  BY <1>1, <1>2 DEF LimitInv

\* A request is counted, and perhaps let through by the window that counts it.
LEMMA IncrementStep ==
  ASSUME LimitInv, NEW r \in Requests, request[r].scope \in Scopes, Increment(r),
         restarts' = restarts,
         \/ recent' = recent
         \/ Allowed(request[r].scope, counter'[request[r].scope]) /\ LetThrough(request[r].scope)
  PROVE  LimitInv'
<1>0. PICK s \in Scopes : s = request[r].scope
  OBVIOUS
<1>1. /\ counter' = [counter EXCEPT ![s] = IF @ > Limit[s] THEN @ ELSE @ + 1]
      /\ ttl' = [ttl EXCEPT ![s] = IF counter[s] = 0 THEN Window ELSE ttl[s]]
      /\ recent' = recent \/ (counter'[s] <= Limit[s] /\ LetThrough(s))
  <2>1. counter' = [counter EXCEPT ![s] = IF @ > Limit[s] THEN @ ELSE @ + 1]
    BY <1>0 DEF Increment
  <2>2. ttl' = [ttl EXCEPT ![s] = IF counter[s] = 0 THEN Window ELSE ttl[s]]
    BY <1>0 DEF Increment, TtlAfterIncrement
  <2>3. recent' = recent \/ (counter'[s] <= Limit[s] /\ LetThrough(s))
    BY <1>0 DEF Allowed
  <2> QED
    BY <2>1, <2>2, <2>3
<1>2. counter' \in [Scopes -> Nat] /\ ttl' \in [Scopes -> 0 .. Window]
  BY <1>1, LimitIsPositive DEF LimitInv, LimitTypes
<1>3. recent' \in [Scopes -> [Ticks -> Nat]]
  <2>1. recent \in [Scopes -> [Ticks -> Nat]]
    BY DEF LimitInv, LimitTypes
  <2>2. recent[s] \in [Ticks -> Nat]
    BY <2>1
  <2>3. [n \in Ticks |-> recent[s][n] + 1] \in [Ticks -> Nat]
    BY <2>2
  <2>4. recent' = recent \/ recent' = [recent EXCEPT ![s] = [n \in Ticks |-> recent[s][n] + 1]]
    BY <1>1, Zenon DEF LetThrough
  <2> QED
    BY <2>1, <2>3, <2>4
<1>4. LimitTypes'
  BY <1>2, <1>3 DEF LimitInv, LimitTypes
<1>5. ASSUME NEW k \in Scopes, k # s
      PROVE  WindowsAdjoin(k)'
  <2>1. counter'[k] = counter[k] /\ ttl'[k] = ttl[k]
    BY <1>1, <1>5 DEF LimitInv, LimitTypes
  <2>2. recent'[k] = recent[k]
    BY <1>1, <1>5 DEF LimitInv, LimitTypes, LetThrough
  <2> QED
    BY <2>1, <2>2 DEF LimitInv, WindowsAdjoin, Counted, Earlier
<1>6. WindowsAdjoin(s)'
  <2>1. /\ counter[s] \in Nat /\ ttl[s] \in 0 .. Window
        /\ Limit[s] \in Nat \ {0} /\ Window \in Nat \ {0}
    BY LimitIsPositive DEF LimitInv, LimitTypes
  <2>2. /\ counter'[s] = IF counter[s] > Limit[s] THEN counter[s] ELSE counter[s] + 1
        /\ ttl'[s] = IF counter[s] = 0 THEN Window ELSE ttl[s]
    BY <1>1 DEF LimitInv, LimitTypes
  <2>3. counter'[s] # 0 /\ ttl'[s] # 0
    BY <2>1, <2>2 DEF LimitInv, WindowsAdjoin
  <2>4. ASSUME NEW n \in Ticks
        PROVE  /\ recent'[s][n] < Earlier(s, n)' + Counted(s)'
               /\ ttl'[s] > 0 /\ n < Window - ttl'[s] => recent'[s][n] < Counted(s)'
    <3>1. recent[s][n] \in Nat
      BY <1>1, <2>4 DEF LimitInv, LimitTypes
    <3>2. \/ recent'[s][n] = recent[s][n]
          \/ counter'[s] <= Limit[s] /\ recent'[s][n] = recent[s][n] + 1
      <4>1. recent \in [Scopes -> [Ticks -> Nat]]
        BY DEF LimitInv, LimitTypes
      <4>2. LetThrough(s) => recent'[s] = [i \in Ticks |-> recent[s][i] + 1]
        BY <4>1, Zenon DEF LetThrough
      <4>3. LetThrough(s) => recent'[s][n] = recent[s][n] + 1
        BY <2>4, <4>2
      <4> QED
        BY <1>1, <4>3
    <3>3. /\ recent[s][n] < Earlier(s, n) + Counted(s)
          /\ ttl[s] > 0 /\ n < Window - ttl[s] => recent[s][n] < Counted(s)
          /\ counter[s] = 0 <=> ttl[s] = 0
      BY <1>1, <2>4 DEF LimitInv, WindowsAdjoin
    <3>4. /\ counter'[s] <= Limit[s] => Counted(s)' = Counted(s) + 1
          /\ Counted(s) <= Counted(s)' /\ Counted(s) \in Nat /\ Counted(s)' \in Nat
      BY <2>1, <2>2 DEF Counted
    <3>5. n < Window - ttl'[s] => ttl[s] > 0 /\ n < Window - ttl[s]
      BY <2>1, <2>2, <3>3 DEF Ticks
    <3>6. Earlier(s, n)' = Earlier(s, n) /\ Earlier(s, n) \in Nat
      <4>1. Earlier(s, n)' = Earlier(s, n)
        BY Zenon DEF Earlier
      <4> QED
        BY <4>1, EarlierIsNat DEF LimitInv
    <3> QED
      BY <2>1, <3>1, <3>2, <3>3, <3>4, <3>5, <3>6
  <2> QED
    BY <2>3, <2>4 DEF WindowsAdjoin
<1> QED
  BY <1>4, <1>5, <1>6 DEF LimitInv

\* What the present window has let through belongs to the past.
LEMMA RedisRestartsStep ==
  ASSUME LimitInv, RedisRestarts
  PROVE  LimitInv'
<1>1. LimitTypes'
  BY LimitIsPositive DEF LimitInv, LimitTypes, RedisRestarts
<1>2. ASSUME NEW k \in Scopes
      PROVE  WindowsAdjoin(k)'
  <2>1. counter'[k] = 0 /\ ttl'[k] = 0 /\ recent' = recent
    BY DEF RedisRestarts
  <2>2. Counted(k) <= Limit[k] /\ Counted(k) \in Nat /\ Counted(k)' = 0 /\ Limit[k] \in Nat
    BY <2>1, LimitIsPositive DEF Counted, LimitInv, LimitTypes
  <2>3. ASSUME NEW n \in Ticks
        PROVE  recent'[k][n] < Earlier(k, n)' + Counted(k)'
    <3>1. restarts'[n] = restarts[n] + 1
      BY DEF RedisRestarts
    <3>2. Earlier(k, n)' = Earlier(k, n) + Limit[k] /\ Earlier(k, n) \in Nat
      BY <3>1, EarlierGrows, EarlierIsNat DEF LimitInv
    <3>3. recent[k][n] \in Nat /\ recent[k][n] < Earlier(k, n) + Counted(k)
      BY DEF LimitInv, LimitTypes, WindowsAdjoin
    <3> QED
      BY <2>1, <2>2, <3>2, <3>3
  <2> QED
    BY <2>1, <2>3 DEF WindowsAdjoin
<1> QED
  BY <1>1, <1>2 DEF LimitInv

\* When a window ends, all that was let through in its time is its own.
LEMMA ShiftedStep ==
  ASSUME NEW history \in [Ticks -> Nat]
  PROVE  /\ Shifted(history) \in [Ticks -> Nat]
         /\ \A n \in Ticks :
              /\ n = 0 => Shifted(history)[n] = 0
              /\ n # 0 => n - 1 \in Ticks /\ Shifted(history)[n] = history[n - 1]
<1>1. \A n \in Ticks : n # 0 => n - 1 \in Ticks
  BY LimitIsPositive DEF Ticks
<1>2. \A n \in Ticks : (IF n = 0 THEN 0 ELSE history[n - 1]) \in Nat
  BY <1>1
<1> QED
  BY <1>1, <1>2 DEF Shifted

LEMMA LimitTickStep ==
  ASSUME LimitInv, LimitTick
  PROVE  LimitInv'
<1>1. LimitTypes'
  <2>1. counter' \in [Scopes -> Nat] /\ ttl' \in [Scopes -> 0 .. Window]
    <3>1. /\ counter \in [Scopes -> Nat] /\ ttl \in [Scopes -> 0 .. Window]
          /\ Window \in Nat
      BY LimitIsPositive DEF LimitInv, LimitTypes
    <3>2. /\ ttl' = [k \in Scopes |-> IF ttl[k] = 0 THEN 0 ELSE ttl[k] - 1]
          /\ counter' = [k \in Scopes |-> IF ttl[k] <= 1 THEN 0 ELSE counter[k]]
      BY DEF LimitTick
    <3> QED
      BY <3>1, <3>2
  <2>2. \A k \in Scopes : Shifted(recent[k]) \in [Ticks -> Nat]
    BY ShiftedStep DEF LimitInv, LimitTypes
  <2>3. recent' \in [Scopes -> [Ticks -> Nat]]
    BY <2>2 DEF LimitTick
  <2>4. restarts' \in [Ticks -> Nat]
    BY ShiftedStep DEF LimitInv, LimitTypes, LimitTick
  <2> QED
    BY <2>1, <2>3, <2>4 DEF LimitTypes
<1>2. ASSUME NEW k \in Scopes
      PROVE  WindowsAdjoin(k)'
  <2>1. /\ counter[k] \in Nat /\ ttl[k] \in 0 .. Window
        /\ Limit[k] \in Nat \ {0} /\ Window \in Nat \ {0}
    BY LimitIsPositive DEF LimitInv, LimitTypes
  <2>2. /\ ttl'[k] = IF ttl[k] = 0 THEN 0 ELSE ttl[k] - 1
        /\ counter'[k] = IF ttl[k] <= 1 THEN 0 ELSE counter[k]
        /\ counter[k] = 0 <=> ttl[k] = 0
    BY DEF LimitTick, LimitInv, WindowsAdjoin
  <2>3. counter'[k] = 0 <=> ttl'[k] = 0
    BY <2>1, <2>2
  <2>4. ASSUME NEW n \in Ticks
        PROVE  /\ recent'[k][n] < Earlier(k, n)' + Counted(k)'
               /\ ttl'[k] > 0 /\ n < Window - ttl'[k] => recent'[k][n] < Counted(k)'
    <3>1. Counted(k) \in Nat /\ Counted(k)' \in Nat /\ Counted(k) <= Limit[k]
      BY <2>1, <2>2 DEF Counted
    <3>2. ttl[k] # 1 => Counted(k)' = Counted(k)
      BY <2>1, <2>2 DEF Counted
    <3>3. /\ recent[k] \in [Ticks -> Nat] /\ recent'[k] = Shifted(recent[k])
          /\ restarts \in [Ticks -> Nat] /\ restarts' = Shifted(restarts)
      BY DEF LimitInv, LimitTypes, LimitTick
    <3>4. CASE n = 0
      <4>1. recent'[k][n] = 0
        BY <3>3, <3>4, ShiftedStep
      <4>2. Earlier(k, n)' = Limit[k]
        <5>1. Earlier(k, n)' = (1 + restarts'[n]) * Limit[k]
          BY Zenon DEF Earlier
        <5>2. restarts'[n] = 0
          BY <3>3, <3>4, ShiftedStep
        <5> QED
          BY <2>1, <5>1, <5>2
      <4>3. ttl'[k] > 0 => Counted(k)' > 0
        BY <2>1, <2>2, <2>3 DEF Counted
      <4> QED
        BY <2>1, <3>1, <4>1, <4>2, <4>3
    <3>5. CASE n # 0
      <4>1. /\ n - 1 \in Ticks
            /\ recent'[k][n] = recent[k][n - 1]
            /\ restarts'[n] = restarts[n - 1]
        BY <3>3, <3>5, ShiftedStep
      <4>2. /\ recent[k][n - 1] \in Nat
            /\ recent[k][n - 1] < Earlier(k, n - 1) + Counted(k)
            /\ ttl[k] > 0 /\ n - 1 < Window - ttl[k] => recent[k][n - 1] < Counted(k)
        BY <3>3, <4>1 DEF LimitInv, WindowsAdjoin
      <4>3. Earlier(k, n)' = Earlier(k, n - 1)
        BY <4>1, Zenon DEF Earlier
      <4>4. Earlier(k, n - 1) \in Nat /\ Limit[k] <= Earlier(k, n - 1)
        BY <4>1, EarlierIsNat DEF LimitInv
      <4> QED
        BY <2>1, <2>2, <2>4, <3>1, <3>2, <4>1, <4>2, <4>3, <4>4 DEF Ticks
    <3> QED
      BY <3>4, <3>5
  <2> QED
    BY <2>3, <2>4 DEF WindowsAdjoin
<1> QED
  BY <1>1, <1>2 DEF LimitInv

LEMMA LimitStep ==
  ASSUME LimitInv, RequestInv, [LimitNext]_limitVars
  PROVE  LimitInv'
<1>1. \A r \in Requests : request[r].scope \in Scopes
  BY DEF RequestInv, Request
<1>2. ASSUME NEW r \in Requests, Consume(r)
      PROVE  LimitInv'
  <2>1. /\ Increment(r)
        /\ restarts' = restarts
        /\ \/ recent' = recent
           \/ Allowed(request[r].scope, counter'[request[r].scope]) /\ LetThrough(request[r].scope)
    BY <1>2 DEF Consume
  <2> QED
    BY <1>1, <2>1, IncrementStep
<1>3. ASSUME NEW r \in Requests, ConsumeUnanswered(r)
      PROVE  LimitInv'
  BY <1>1, <1>3, IncrementStep DEF ConsumeUnanswered
<1>4. CASE UNCHANGED <<counter, ttl, restarts, recent>>
  BY <1>4, LimitIdle
<1>5. CASE RedisRestarts
  BY <1>5, RedisRestartsStep
<1>6. CASE LimitTick
  BY <1>6, LimitTickStep
<1> QED
  BY <1>2, <1>3, <1>4, <1>5, <1>6
  DEF LimitNext, Settle, Arrive, ConsumeFails, Respond, RedisReady, RedisLost, limitVars

\* The burst of a client is bounded for every limit and window: an interval as
\* long as the window lets fewer requests through than the limits of two windows
\* and of one more for each time Redis restarts in that interval; restarts before
\* it make no difference.
THEOREM BurstsAreBounded == ApiSpec => []BurstIsBounded
<1>1. ApiInit => LimitInv /\ RequestInv
  BY LimitStarts, RequestInit DEF ApiInit
<1>2. LimitInv /\ RequestInv /\ [ApiNext]_apiVars => (LimitInv /\ RequestInv)'
  BY LimitStep, ApiStepIsLimitStep, RequestNext
<1>3. LimitInv => BurstIsBounded
  <2> SUFFICES ASSUME LimitInv, NEW k \in Scopes
               PROVE  ThroughWithin(k) < (2 + RestartsWithin) * Limit[k]
    BY DEF BurstIsBounded
  <2> DEFINE last == Window - 1
  <2>1. /\ last \in Ticks
        /\ restarts[last] \in Nat /\ Limit[k] \in Nat \ {0} /\ counter[k] \in Nat
    <3>1. last \in Ticks
      BY LimitIsPositive DEF Ticks
    <3> QED
      BY <3>1, LimitIsPositive DEF LimitInv, LimitTypes
  <2> HIDE DEF last
  <2>2. recent[k][last] \in Nat /\ recent[k][last] < Earlier(k, last) + Counted(k)
    BY <2>1 DEF LimitInv, LimitTypes, WindowsAdjoin
  <2>3. Counted(k) \in Nat /\ Counted(k) <= Limit[k]
    BY <2>1 DEF Counted
  <2>4. \A m, l \in Nat : (2 + m) * l = (1 + m) * l + l
    OBVIOUS
  <2>5. (2 + restarts[last]) * Limit[k] = Earlier(k, last) + Limit[k]
    BY <2>1, <2>4 DEF Earlier
  <2>6. Earlier(k, last) \in Nat
    BY <2>1, EarlierIsNat DEF LimitInv
  <2>7. recent[k][last] < (2 + restarts[last]) * Limit[k]
    BY <2>1, <2>2, <2>3, <2>5, <2>6
  <2> QED
    BY <2>7 DEF ThroughWithin, RestartsWithin, last
<1> QED
  BY <1>1, <1>2, <1>3, PTL DEF ApiSpec
-----------------------------------------------------------------------------
\* The realtime runtime.

\* One adapter at most; sockets have it, the one in memory, or none; whoever
\* looks at the instance as ready does so after the adapter was attached.
RealtimeInv ==
  /\ adapter \in {0, 1}
  /\ attached \in [Sockets -> {0, adapter, Unconnected}]
  /\ subscribed \/ activating \/ probe # 0 \/ answeredReady => adapter # 0

LEMMA RealtimeInit == ApiInit => RealtimeInv
BY DEF ApiInit, RealtimeInv

\* Activate attaches the first adapter only.
LEMMA ActivateStep ==
  ASSUME RealtimeInv, NEW clients, Activate(clients)
  PROVE  /\ adapter' \in {0, 1}
         /\ adapter # 0 => adapter' = adapter
         /\ activating' => activating \/ adapter' # 0
BY DEF RealtimeInv, Activate, Attach

\* Sockets stay as they are while the runtime activates.
LEMMA ActivatedStep ==
  ASSUME RealtimeInv, NEW clients, Activate(clients),
         UNCHANGED <<subscribed, attached, probe, answeredReady>>
  PROVE  RealtimeInv'
<1>1. /\ adapter' \in {0, 1}
      /\ adapter # 0 => adapter' = adapter
      /\ activating' => activating \/ adapter' # 0
  BY ActivateStep
<1>2. attached' \in [Sockets -> {0, adapter', Unconnected}]
  BY <1>1 DEF RealtimeInv, Unconnected
<1> QED
  BY <1>1, <1>2 DEF RealtimeInv

\* A socket connects or leaves, or all are closed.
LEMMA SocketStep ==
  ASSUME RealtimeInv, adapter' = adapter,
         attached' \in [Sockets -> {0, adapter, Unconnected}],
         activating' => activating,
         UNCHANGED <<subscribed, probe, answeredReady>>
  PROVE  RealtimeInv'
<1>1. attached' \in [Sockets -> {0, adapter', Unconnected}]
  BY DEF Unconnected
<1> QED
  BY <1>1 DEF RealtimeInv

LEMMA RealtimeIdle ==
  ASSUME RealtimeInv, UNCHANGED <<realtimeVars, probeVars>>
  PROVE  RealtimeInv'
BY DEF RealtimeInv, realtimeVars, probeVars, Unconnected

LEMMA RealtimeNext ==
  ASSUME RealtimeInv, [ApiNext]_apiVars
  PROVE  RealtimeInv'
<1>1. CASE AttachRuntime \/ Listen \/ CreationFails \/ BindFails \/ Signal \/ Expire
  BY <1>1, RealtimeIdle DEF AttachRuntime, Listen, CreationFails, BindFails, Signal, Expire
<1>2. CASE SocketStarted
  BY <1>2, ActivatedStep DEF SocketStarted, probeVars
<1>3. CASE Dispose \/ Flush \/ Finish
  BY <1>3, RealtimeIdle DEF Dispose, Flush, Finish
<1>4. CASE CloseNext
  <2>1. CloseSocket \/ UNCHANGED realtimeVars
    BY <1>4 DEF CloseNext
  <2>2. UNCHANGED probeVars
    BY <1>4 DEF CloseNext
  <2>3. CASE CloseSocket
    BY <2>2, <2>3, SocketStep DEF CloseSocket, probeVars
  <2> QED
    BY <2>1, <2>2, <2>3, RealtimeIdle
<1>5. CASE \E c \in Clients : ClientReady(c)
  BY <1>5, ActivatedStep DEF ClientReady, OnReady, probeVars
<1>6. CASE \E c \in Clients : ClientLost(c)
  BY <1>6 DEF ClientLost, RealtimeInv, probeVars, Unconnected
<1>7. CASE Subscribe \/ SubscribeFails
  BY <1>7 DEF Subscribe, SubscribeFails, RealtimeInv, probeVars, Unconnected
<1>8. CASE \E s \in Sockets : SocketConnects(s) \/ SocketLeaves(s)
  <2>1. attached' \in [Sockets -> {0, adapter, Unconnected}]
    BY <1>8 DEF SocketConnects, SocketLeaves, RealtimeInv
  <2> QED
    BY <1>8, <2>1, SocketStep DEF SocketConnects, SocketLeaves, probeVars
<1>9. CASE ProbeArrives
  BY <1>9 DEF ProbeArrives, Registered, RealtimeInv, realtimeVars, Unconnected
<1>10. CASE Ping
  BY <1>10 DEF Ping, RealtimeInv, realtimeVars, Unconnected
<1>11. CASE ProbeFails
  BY <1>11 DEF ProbeFails, RealtimeInv, realtimeVars, Unconnected
<1>12. CASE (\E r \in Requests : Handle(r)) \/ RedisStep \/ StorageUse
  BY <1>12, RealtimeIdle DEF Handle, RedisStep, StorageUse
<1>13. CASE UNCHANGED apiVars
  BY <1>13, RealtimeIdle DEF apiVars
<1> QED
  BY <1>1, <1>2, <1>3, <1>4, <1>5, <1>6, <1>7, <1>8, <1>9, <1>10, <1>11, <1>12, <1>13
  DEF ApiNext, Boot, Shutdown, Realtime

\* Who connects gets the present adapter; nobody changes adapters.
LEMMA SocketsKeepAdapters ==
  ASSUME RealtimeInv, [ApiNext]_apiVars, NEW s \in Sockets, attached[s] # 0, Connected(s)',
         answeredReady
  PROVE  attached'[s] = adapter' /\ adapter' # 0
<1>1. adapter = 1
  BY DEF RealtimeInv
<1>2. Connected(s) => attached[s] = adapter
  BY DEF RealtimeInv, Connected
<1>3. CASE attached' = attached /\ adapter' = adapter
  BY <1>1, <1>2, <1>3 DEF Connected, Unconnected
<1>4. CASE SocketStarted \/ \E c \in Clients : ClientReady(c)
  <2>1. PICK clients : Activate(clients)
    BY <1>4 DEF SocketStarted, ClientReady, OnReady
  <2>2. adapter' = adapter
    BY <1>1, <2>1, ActivateStep
  <2>3. attached' = attached
    BY <1>4 DEF SocketStarted, ClientReady
  <2> QED
    BY <1>3, <2>2, <2>3
<1>5. CASE CloseNext
  <2>1. CASE CloseSocket
    BY <2>1 DEF CloseSocket, Connected, Unconnected
  <2>2. CASE UNCHANGED realtimeVars
    BY <1>3, <2>2 DEF realtimeVars
  <2> QED
    BY <1>5, <2>1, <2>2 DEF CloseNext
<1>6. CASE \E d \in Sockets : SocketConnects(d)
  <2>1. PICK d \in Sockets : SocketConnects(d)
    BY <1>6
  <2>2. attached' = [attached EXCEPT ![d] = adapter] /\ adapter' = adapter
    BY <2>1 DEF SocketConnects
  <2>3. attached'[s] \in {attached[s], adapter}
    BY <2>2 DEF RealtimeInv
  <2>4. attached'[s] # Unconnected
    BY <2>2 DEF Connected, Unconnected
  <2> QED
    BY <1>1, <1>2, <2>2, <2>3, <2>4 DEF Connected
<1>7. CASE \E d \in Sockets : SocketLeaves(d)
  <2>1. PICK d \in Sockets : SocketLeaves(d)
    BY <1>7
  <2>2. attached' = [attached EXCEPT ![d] = Unconnected] /\ adapter' = adapter
    BY <2>1 DEF SocketLeaves
  <2>3. attached'[s] \in {attached[s], Unconnected}
    BY <2>2 DEF RealtimeInv
  <2>4. attached'[s] # Unconnected
    BY <2>2 DEF Connected, Unconnected
  <2> QED
    BY <1>1, <1>2, <2>2, <2>3, <2>4 DEF Connected
<1>8. CASE AttachRuntime \/ Listen \/ CreationFails \/ BindFails \/ Signal \/ Expire
  BY <1>3, <1>8 DEF AttachRuntime, Listen, CreationFails, BindFails, Signal, Expire, realtimeVars
<1>9. CASE Dispose \/ Flush \/ Finish
  BY <1>3, <1>9 DEF Dispose, Flush, Finish, realtimeVars
<1>10. CASE \E c \in Clients : ClientLost(c)
  BY <1>3, <1>10 DEF ClientLost
<1>11. CASE Subscribe \/ SubscribeFails \/ ProbeArrives \/ Ping \/ ProbeFails
  BY <1>3, <1>11 DEF Subscribe, SubscribeFails, ProbeArrives, Ping, ProbeFails, realtimeVars
<1>12. CASE (\E r \in Requests : Handle(r)) \/ RedisStep \/ StorageUse
  BY <1>3, <1>12 DEF Handle, RedisStep, StorageUse, realtimeVars
<1>13. CASE UNCHANGED apiVars
  BY <1>3, <1>13 DEF apiVars, realtimeVars
<1> QED
  BY <1>4, <1>5, <1>6, <1>7, <1>8, <1>9, <1>10, <1>11, <1>12, <1>13
  DEF ApiNext, Boot, Shutdown, Realtime

\* Once a readiness probe has been answered with 200, whoever connects hears
\* what other instances emit, for as long as the socket lives.
THEOREM ReadinessMeansShared == ApiSpec => TrafficAfterReadinessIsShared
<1> DEFINE Shared == \A s \in Sockets : answeredReady /\ Connected(s)' /\ attached[s] # 0
                       => attached'[s] = adapter' /\ adapter' # 0
<1>1. ApiInit => RealtimeInv
  BY RealtimeInit
<1>2. RealtimeInv /\ [ApiNext]_apiVars => RealtimeInv'
  BY RealtimeNext
<1>3. RealtimeInv /\ [ApiNext]_apiVars => [Shared]_apiVars
  BY SocketsKeepAdapters
<1> QED
  BY <1>1, <1>2, <1>3, PTL DEF ApiSpec, TrafficAfterReadinessIsShared
-----------------------------------------------------------------------------
\* The start and the shutdown.

\* Until the dependencies are being closed, what is open is registered.
OpenAsRegistered ==
  \/ tasks = <<"rateLimit">> /\ open = {"rateLimit", "storage", "database"}
  \/ tasks = <<"rateLimit", "socket">> /\ open = {"rateLimit", "socket", "storage", "database"}

\* Then what is open is what has yet to be closed, the database last.
OpenAsListed ==
  \/ /\ toClose = <<"socket", "rateLimit", "storage", "database">>
     /\ open = {"rateLimit", "socket", "storage", "database"}
  \/ /\ toClose = <<"rateLimit", "storage", "database">>
     /\ open = {"rateLimit", "storage", "database"}
  \/ toClose = <<"storage", "database">> /\ open = {"storage", "database"}
  \/ toClose = <<"database">> /\ open = {"database"}
  \/ toClose = <<>> /\ open = {}

\* Nobody is served before the process listens, nor once Fastify is closed.
Unserved == stage # "listening" \/ closing \notin {"none", "disposing"}

BootInv ==
  /\ stage = "limiting" => tasks = <<"rateLimit">>
  /\ ~Closed => OpenAsRegistered
  /\ Closed => OpenAsListed
  /\ Unserved => NoRequests /\ NoConnections

LEMMA BootInit == ApiInit => BootInv
BY DEF ApiInit, LimitInit, BootInv, Closed, OpenAsRegistered, NoRequests, NoConnections,
    Connected, FirstTasks

\* dependencies.close() ends with these two.
Rest == <<"storage", "database">>

Resources == {"socket", "rateLimit", "storage", "database"}

LEMMA ThenRest ==
  ASSUME NEW list \in Seq(Resources)
  PROVE  /\ list \o Rest \in Seq(Resources)
         /\ Len(list \o Rest) = Len(list) + 2
         /\ \A i \in 1 .. Len(list) : (list \o Rest)[i] = list[i]
         /\ (list \o Rest)[Len(list) + 1] = "storage"
         /\ (list \o Rest)[Len(list) + 2] = "database"
<1> DEFINE longer == list \o Rest
<1>1. /\ Rest \in Seq(Resources) /\ Len(Rest) = 2
      /\ Rest[1] = "storage" /\ Rest[2] = "database"
  BY DEF Rest, Resources
<1>2. /\ longer \in Seq(Resources)
      /\ Len(longer) = Len(list) + Len(Rest)
      /\ \A i \in 1 .. Len(list) + Len(Rest) :
           longer[i] = IF i <= Len(list) THEN list[i] ELSE Rest[i - Len(list)]
  BY <1>1, ConcatProperties, Zenon
<1>3. Len(list) \in Nat
  OBVIOUS
<1> HIDE DEF longer
<1>4. /\ longer \in Seq(Resources)
      /\ Len(longer) = Len(list) + 2
      /\ \A i \in 1 .. Len(list) : longer[i] = list[i]
      /\ longer[Len(list) + 1] = "storage"
      /\ longer[Len(list) + 2] = "database"
  BY <1>1, <1>2, <1>3
<1> QED
  BY <1>4, Zenon DEF longer

LEMMA ListWithoutSocket ==
  ASSUME NEW list, list = <<"rateLimit">>
  PROVE  list \o Rest = <<"rateLimit", "storage", "database">>
<1> DEFINE longer == list \o Rest
<1>1. list \in Seq(Resources) /\ Len(list) = 1 /\ list[1] = "rateLimit"
  BY DEF Resources
<1>2. /\ longer \in Seq(Resources)
      /\ Len(longer) = Len(list) + 2
      /\ \A i \in 1 .. Len(list) : longer[i] = list[i]
      /\ longer[Len(list) + 1] = "storage"
      /\ longer[Len(list) + 2] = "database"
  BY <1>1, ThenRest, Zenon
<1> HIDE DEF longer
<1>3. /\ Len(longer) = 3
      /\ longer[1] = "rateLimit" /\ longer[2] = "storage" /\ longer[3] = "database"
  BY <1>1, <1>2
<1>4. longer = <<"rateLimit", "storage", "database">>
  BY <1>2, <1>3
<1> QED
  BY <1>4 DEF longer

LEMMA ListWithSocket ==
  ASSUME NEW list, list = <<"socket", "rateLimit">>
  PROVE  list \o Rest = <<"socket", "rateLimit", "storage", "database">>
<1> DEFINE longer == list \o Rest
<1>1. /\ list \in Seq(Resources) /\ Len(list) = 2
      /\ list[1] = "socket" /\ list[2] = "rateLimit"
  BY DEF Resources
<1>2. /\ longer \in Seq(Resources)
      /\ Len(longer) = Len(list) + 2
      /\ \A i \in 1 .. Len(list) : longer[i] = list[i]
      /\ longer[Len(list) + 1] = "storage"
      /\ longer[Len(list) + 2] = "database"
  BY <1>1, ThenRest, Zenon
<1> HIDE DEF longer
<1>3. /\ Len(longer) = 4
      /\ longer[1] = "socket" /\ longer[2] = "rateLimit"
      /\ longer[3] = "storage" /\ longer[4] = "database"
  BY <1>1, <1>2
<1>4. longer = <<"socket", "rateLimit", "storage", "database">>
  BY <1>2, <1>3
<1> QED
  BY <1>4 DEF longer

LEMMA SocketIsRegisteredLast ==
  ASSUME NEW list, list = <<"rateLimit">>
  PROVE  Append(list, "socket") = <<"rateLimit", "socket">>
<1> DEFINE one == <<"socket">>
           longer == list \o one
<1>1. list \in Seq(Resources) /\ Len(list) = 1 /\ list[1] = "rateLimit"
  BY DEF Resources
<1>2. /\ "socket" \in Resources
      /\ one \in Seq(Resources) /\ Len(one) = 1 /\ one[1] = "socket"
  BY DEF Resources
<1>3. Append(list, "socket") = list \o <<"socket">>
  BY <1>1, <1>2, AppendIsConcat, Zenon
<1> HIDE DEF one
<1>4. /\ longer \in Seq(Resources)
      /\ Len(longer) = Len(list) + Len(one)
      /\ \A i \in 1 .. Len(list) + Len(one) :
           longer[i] = IF i <= Len(list) THEN list[i] ELSE one[i - Len(list)]
  BY <1>1, <1>2, ConcatProperties, Zenon
<1> HIDE DEF longer
<1>5. Len(longer) = 2 /\ longer[1] = "rateLimit" /\ longer[2] = "socket"
  BY <1>1, <1>2, <1>4
<1>6. longer = <<"rateLimit", "socket">>
  <2>1. longer \in Seq(Resources)
    BY <1>4
  <2> QED
    BY <2>1, <1>5
<1> QED
  BY <1>3, <1>6, Zenon DEF longer, one

\* The list that dependencies.close() works off.
LEMMA BeginStep ==
  ASSUME OpenAsRegistered, BeginDependencies, open' = open
  PROVE  OpenAsListed'
<1>1. toClose' = Reversed(tasks) \o Rest
  BY DEF BeginDependencies, Rest
<1>2. CASE tasks = <<"rateLimit">>
  <2>1. Reversed(tasks) = <<"rateLimit">>
    BY <1>2 DEF Reversed
  <2>2. toClose' = <<"rateLimit", "storage", "database">>
    BY <1>1, <2>1, ListWithoutSocket
  <2> QED
    BY <1>2, <2>2 DEF OpenAsRegistered, OpenAsListed
<1>3. CASE tasks = <<"rateLimit", "socket">>
  <2>1. Reversed(tasks) = <<"socket", "rateLimit">>
    BY <1>3 DEF Reversed
  <2>2. toClose' = <<"socket", "rateLimit", "storage", "database">>
    BY <1>1, <2>1, ListWithSocket
  <2> QED
    BY <1>3, <2>2 DEF OpenAsRegistered, OpenAsListed
<1> QED
  BY <1>2, <1>3 DEF OpenAsRegistered

LEMMA CloseStep ==
  ASSUME OpenAsListed, toClose # <<>>,
         toClose' = Tail(toClose), open' = open \ {Head(toClose)}
  PROVE  OpenAsListed'
<1>1. CASE /\ toClose = <<"socket", "rateLimit", "storage", "database">>
           /\ open = {"rateLimit", "socket", "storage", "database"}
  <2>1. toClose' = <<"rateLimit", "storage", "database">> /\ Head(toClose) = "socket"
    BY <1>1
  <2> QED
    BY <1>1, <2>1 DEF OpenAsListed
<1>2. CASE /\ toClose = <<"rateLimit", "storage", "database">>
           /\ open = {"rateLimit", "storage", "database"}
  <2>1. toClose' = <<"storage", "database">> /\ Head(toClose) = "rateLimit"
    BY <1>2
  <2> QED
    BY <1>2, <2>1 DEF OpenAsListed
<1>3. CASE toClose = <<"storage", "database">> /\ open = {"storage", "database"}
  <2>1. toClose' = <<"database">> /\ Head(toClose) = "storage"
    BY <1>3
  <2> QED
    BY <1>3, <2>1 DEF OpenAsListed
<1>4. CASE toClose = <<"database">> /\ open = {"database"}
  <2>1. toClose' = <<>> /\ Head(toClose) = "database"
    BY <1>4
  <2> QED
    BY <1>4, <2>1 DEF OpenAsListed
<1> QED
  BY <1>1, <1>2, <1>3, <1>4 DEF OpenAsListed

\* Requests and connections only go on, or end, unless the process serves.
LEMMA NobodyComes ==
  ASSUME [ApiNext]_apiVars, ~Serving, NoRequests, NoConnections
  PROVE  NoRequests' /\ NoConnections'
<1>1. NoRequests'
  <2>1. \A r \in Requests : request[r].step = "idle"
    BY DEF NoRequests, Idling
  <2>2. ASSUME NEW r \in Requests
        PROVE  ~Handle(r)
    BY <2>1, <2>2 DEF Handle, Settle, Consume, ConsumeFails, Respond, ConsumeUnanswered, Waiting
  <2>3. request' = request
    BY <2>2, RequestsMoveByHandle
  <2> QED
    BY <2>3 DEF NoRequests
<1>2. NoConnections'
  <2>1. CASE UNCHANGED <<attached, probe>>
    BY <2>1 DEF NoConnections, Connected
  <2>2. CASE CloseNext
    <3>1. probe' = probe
      BY <2>2 DEF CloseNext, probeVars
    <3>2. attached' = attached \/ attached' = [s \in Sockets |-> Unconnected]
      BY <2>2 DEF CloseNext, CloseSocket, realtimeVars
    <3> QED
      BY <3>1, <3>2 DEF NoConnections, Connected
  <2>3. CASE Boot
    BY <2>1, <2>3 DEF Boot, AttachRuntime, SocketStarted, Listen, probeVars, realtimeVars
  <2>4. CASE CreationFails \/ BindFails \/ Signal \/ Expire
    BY <2>1, <2>4 DEF CreationFails, BindFails, Signal, Expire, probeVars, realtimeVars
  <2>5. CASE Dispose \/ Flush \/ Finish
    BY <2>1, <2>5 DEF Dispose, Flush, Finish, probeVars, realtimeVars
  <2>6. CASE Realtime
    <3>1. ~ProbeArrives /\ ~Ping /\ ~ProbeFails
      BY DEF ProbeArrives, Ping, ProbeFails, NoConnections
    <3>2. \A s \in Sockets : ~SocketConnects(s) /\ ~SocketLeaves(s)
      BY DEF SocketConnects, SocketLeaves, NoConnections
    <3> QED
      BY <2>1, <2>6, <3>1, <3>2 DEF Realtime, ClientReady, ClientLost, Subscribe, SubscribeFails, probeVars
  <2>7. CASE (\E r \in Requests : Handle(r)) \/ RedisStep \/ StorageUse
    BY <2>1, <2>7 DEF Handle, RedisStep, StorageUse, probeVars, realtimeVars
  <2>8. CASE UNCHANGED apiVars
    BY <2>1, <2>8 DEF apiVars, probeVars, realtimeVars
  <2> QED
    BY <2>2, <2>3, <2>4, <2>5, <2>6, <2>7, <2>8 DEF ApiNext, Shutdown
<1> QED
  BY <1>1, <1>2

LEMMA BootVarsMove ==
  ASSUME [ApiNext]_apiVars
  PROVE  Boot \/ CreationFails \/ BindFails \/ Signal \/ Shutdown \/ Expire \/ UNCHANGED bootVars
BY DEF ApiNext, Realtime, ProbeArrives, Ping, ProbeFails, ClientReady, ClientLost, Subscribe, SubscribeFails,
    SocketConnects, SocketLeaves, Handle, RedisStep, StorageUse, apiVars

\* Only when nobody is left does a process that serves go on closing.
LEMMA StopsServingByDispose ==
  ASSUME [ApiNext]_apiVars, Unserved', ~Unserved
  PROVE  Dispose
<1>1. /\ stage = "listening"
      /\ closing \in {"none", "disposing"}
      /\ stage' # "listening" \/ closing' \notin {"none", "disposing"}
  BY DEF Unserved
<1>2. ~Boot /\ ~CreationFails /\ ~BindFails
  BY <1>1 DEF Boot, AttachRuntime, SocketStarted, Listen, CreationFails, BindFails
<1>3. ~Signal /\ ~Expire
  BY <1>1 DEF Signal, Expire
<1>4. ~Flush /\ ~CloseNext /\ ~Finish
  BY <1>1 DEF Flush, CloseNext, Finish
<1>5. ~UNCHANGED bootVars
  BY <1>1 DEF bootVars
<1> QED
  BY <1>2, <1>3, <1>4, <1>5, BootVarsMove DEF Shutdown

LEMMA NobodyUnserved ==
  ASSUME BootInv, [ApiNext]_apiVars, Unserved'
  PROVE  NoRequests' /\ NoConnections'
<1>1. CASE Unserved
  <2>1. ~Serving
    BY <1>1 DEF Unserved, Serving
  <2> QED
    BY <1>1, <2>1, NobodyComes DEF BootInv
<1>2. CASE Dispose
  <2>1. UNCHANGED <<request, attached, probe>>
    BY <1>2 DEF Dispose, limitVars, realtimeVars, probeVars
  <2> QED
    BY <1>2, <2>1 DEF Dispose, NoRequests, NoConnections, Connected
<1> QED
  BY <1>1, <1>2, StopsServingByDispose

\* The dependencies of a start or a shutdown that leaves them alone.
LEMMA SameDependencies ==
  ASSUME BootInv, UNCHANGED <<tasks, toClose, open>>, Closed' = Closed,
         stage' = stage \/ stage' # "limiting"
  PROVE  /\ stage' = "limiting" => tasks' = <<"rateLimit">>
         /\ ~Closed' => OpenAsRegistered'
         /\ Closed' => OpenAsListed'
BY DEF BootInv, OpenAsRegistered, OpenAsListed

LEMMA DependenciesNext ==
  ASSUME BootInv, [ApiNext]_apiVars
  PROVE  /\ stage' = "limiting" => tasks' = <<"rateLimit">>
         /\ ~Closed' => OpenAsRegistered'
         /\ Closed' => OpenAsListed'
<1>1. CASE AttachRuntime
  <2>1. closing' = closing /\ toClose' = toClose /\ stage = "limiting"
    BY <1>1 DEF AttachRuntime
  <2>2. CASE Closed
    <3>1. UNCHANGED <<tasks, open>> /\ stage' = "failed"
      BY <1>1, <2>2 DEF AttachRuntime, RegisterShutdown
    <3>2. Closed' = Closed
      BY <2>1 DEF Closed
    <3> QED
      BY <2>1, <3>1, <3>2, SameDependencies
  <2>3. CASE ~Closed
    <3>1. /\ tasks' = Append(tasks, "socket")
          /\ open' = open \cup {"socket"}
          /\ stage' = "attaching"
      BY <1>1, <2>3 DEF AttachRuntime, RegisterShutdown
    <3>2. tasks = <<"rateLimit">> /\ open = {"rateLimit", "storage", "database"}
      BY <2>1, <2>3 DEF BootInv, OpenAsRegistered
    <3>4. tasks' = <<"rateLimit", "socket">>
      BY <3>1, <3>2, SocketIsRegisteredLast
    <3>3. ~Closed'
      BY <2>1, <2>3 DEF Closed
    <3>5. OpenAsRegistered'
      BY <3>1, <3>2, <3>4 DEF OpenAsRegistered
    <3> QED
      BY <3>1, <3>3, <3>5
  <2> QED
    BY <2>2, <2>3
<1>2. CASE SocketStarted \/ Listen
  BY <1>2, SameDependencies DEF SocketStarted, Listen, Closed
<1>3. CASE CreationFails
  <2>1. /\ UNCHANGED <<tasks, open>>
        /\ stage' = "failed"
    BY <1>3 DEF CreationFails
  <2>2. CASE Closed
    BY <1>3, <2>1, <2>2, SameDependencies DEF CreationFails, Closed
  <2>3. CASE ~Closed
    <3>1. BeginDependencies
      BY <1>3, <2>3 DEF CreationFails
    <3>2. OpenAsListed'
      BY <2>1, <2>3, <3>1, BeginStep DEF BootInv
    <3>3. Closed'
      BY <3>1 DEF BeginDependencies, Closed
    <3> QED
      BY <2>1, <3>2, <3>3
  <2> QED
    BY <2>2, <2>3
<1>4. CASE BindFails \/ Signal \/ Dispose
  BY <1>4, SameDependencies DEF BindFails, Signal, Dispose, Closed
<1>5. CASE Flush
  <2>1. /\ BeginDependencies
        /\ UNCHANGED <<stage, tasks, open>>
        /\ ~Closed
    BY <1>5 DEF Flush, Closed
  <2>2. OpenAsListed'
    BY <2>1, BeginStep DEF BootInv
  <2>3. Closed'
    BY <2>1 DEF BeginDependencies, Closed
  <2> QED
    BY <2>1, <2>2, <2>3 DEF BootInv
<1>6. CASE CloseNext
  <2>1. /\ toClose # <<>>
        /\ toClose' = Tail(toClose)
        /\ open' = open \ {Head(toClose)}
        /\ UNCHANGED <<stage, closing, tasks>>
        /\ Closed
    BY <1>6 DEF CloseNext, Closed
  <2>2. OpenAsListed'
    BY <2>1, CloseStep DEF BootInv
  <2>3. Closed'
    BY <2>1 DEF Closed
  <2> QED
    BY <2>1, <2>2, <2>3 DEF BootInv
<1>7. CASE Finish \/ Expire
  BY <1>7, SameDependencies DEF Finish, Expire, Closed
<1>8. CASE UNCHANGED bootVars
  BY <1>8, SameDependencies DEF bootVars, Closed
<1> QED
  BY <1>1, <1>2, <1>3, <1>4, <1>5, <1>6, <1>7, <1>8, BootVarsMove DEF Boot, Shutdown

LEMMA BootNext ==
  ASSUME BootInv, [ApiNext]_apiVars
  PROVE  BootInv'
BY DependenciesNext, NobodyUnserved DEF BootInv

\* While a request, a socket or a readiness probe is served, or anything else
\* of the process is open, its database is.
THEOREM DatabaseIsLast == ApiSpec => []DatabaseClosesLast
<1>1. ApiInit => BootInv
  BY BootInit
<1>2. BootInv /\ [ApiNext]_apiVars => BootInv'
  BY BootNext
<1>3. BootInv => DatabaseClosesLast
  <2> SUFFICES ASSUME BootInv, "database" \notin open
               PROVE  open = {} /\ NoRequests /\ NoConnections
    BY DEF DatabaseClosesLast
  <2>1. Closed
    BY DEF BootInv, OpenAsRegistered
  <2>2. open = {}
    BY <2>1 DEF BootInv, OpenAsListed
  <2>3. Unserved
    BY <2>1 DEF Closed, Unserved
  <2> QED
    BY <2>2, <2>3 DEF BootInv
<1> QED
  BY <1>1, <1>2, <1>3, PTL DEF ApiSpec
=============================================================================
