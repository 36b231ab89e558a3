----------------------------- MODULE ObjectStorage -----------------------------
(***************************************************************************)
(* createS3ObjectStorageRuntime (packages/storage/src/s3-object-storage.ts)*)
(* used by concurrent callers.  An object is a content (its UUID) at one   *)
(* or more stages: the key is the stage's prefix with the UUID.  A call    *)
(* sends one command at a time; the bucket executes each command at once,  *)
(* but its answer may be lost, and the process of the caller may crash     *)
(* between two commands.                                                   *)
(***************************************************************************)
EXTENDS FiniteSets

CONSTANTS
  Contents,   \* UUIDs
  Callers,    \* each makes one call at a time
  NoContent

ASSUME StorageAssumption == NoContent \notin Contents

VARIABLES
  bucket,     \* the keys that exist, as <<content, stage>>
  call,       \* the call each caller awaits
  client,     \* "open", or "destroyed" by close()
  uploaded,   \* history: contents whose upload was executed
  discarded,  \* history: contents named by a deleteObject that was sent
  promoted    \* history: <<content, source>> of the promotions that were confirmed

storageVars == <<bucket, call, client, uploaded, discarded, promoted>>

Stages == {"quarantine", "private", "approved"}
Keys == Contents \X Stages
Steps == {"putting", "copying", "removing", "deleting", "heading"}
NoCall == [step |-> "none", content |-> NoContent, from |-> "quarantine", to |-> "quarantine"]
Call == [step: Steps, content: Contents, from: Stages, to: Stages]

StorageInit ==
  /\ bucket = {}
  /\ call = [c \in Callers |-> NoCall]
  /\ client = "open"
  /\ uploaded = {}
  /\ discarded = {}
  /\ promoted = {}

Calling(c) == call[c].step # "none"
Start(c, step, id, from, to) ==
  /\ ~Calling(c)
  /\ call' = [call EXCEPT ![c] = [step |-> step, content |-> id, from |-> from, to |-> to]]
Answered(c) == call' = [call EXCEPT ![c] = NoCall]
KeyOf(c) == <<call[c].content, call[c].from>>
TargetOf(c) == <<call[c].content, call[c].to>>
-----------------------------------------------------------------------------
\* uploadQuarantinedObject with a valid Content-Type and length: a new UUID.
Upload(c, id) ==
  /\ id \notin uploaded
  /\ \A other \in Callers : call[other].content # id
  /\ Start(c, "putting", id, "quarantine", "quarantine")
  /\ UNCHANGED <<bucket, client, uploaded, discarded, promoted>>

\* Mutant: an object may be promoted to the stage it is at.
PromotableAnywhere(from, to) == from # "approved" /\ to # "quarantine"
\* Mutant: an approved object may be taken back to private.
PromotableBackwards(from, to) == from # to /\ to # "quarantine"
\* The transitions that promoteObject accepts.
Promotable(from, to) ==
  \/ from = "quarantine" /\ to \in {"private", "approved"}
  \/ from = "private" /\ to = "approved"

\* promoteObject: the destination's key has the source's UUID.
Promote(c, id, from, to) ==
  /\ Promotable(from, to)
  /\ Start(c, "copying", id, from, to)
  /\ UNCHANGED <<bucket, client, uploaded, discarded, promoted>>

Delete(c, id, from) ==
  /\ Start(c, "deleting", id, from, from)
  /\ discarded' = discarded \cup {id}
  /\ UNCHANGED <<bucket, client, uploaded, promoted>>

\* createReadUrl with an expiry of 1 to 300 seconds looks for the object first.
CreateReadUrl(c, id, from) ==
  /\ Start(c, "heading", id, from, from)
  /\ UNCHANGED <<bucket, client, uploaded, discarded, promoted>>

\* PutObject of the upload.
Put(c) ==
  /\ call[c].step = "putting"
  /\ bucket' = bucket \cup {KeyOf(c)}
  /\ uploaded' = uploaded \cup {call[c].content}
  /\ Answered(c)
  /\ UNCHANGED <<client, discarded, promoted>>

\* CopyObject of a promotion; without a source it fails.
Copy(c) ==
  /\ call[c].step = "copying"
  /\ KeyOf(c) \in bucket
  /\ bucket' = bucket \cup {TargetOf(c)}
  /\ call' = [call EXCEPT ![c].step = "removing"]
  /\ UNCHANGED <<client, uploaded, discarded, promoted>>

\* Mutant: the source is left where it is.
RemoveNothing(c) ==
  /\ call[c].step = "removing"
  /\ promoted' = promoted \cup {KeyOf(c)}
  /\ Answered(c)
  /\ UNCHANGED <<bucket, client, uploaded, discarded>>
\* DeleteObject of the source ends the promotion.
Remove(c) ==
  /\ call[c].step = "removing"
  /\ bucket' = bucket \ {KeyOf(c)}
  /\ promoted' = promoted \cup {KeyOf(c)}
  /\ Answered(c)
  /\ UNCHANGED <<client, uploaded, discarded>>

\* DeleteObject of deleteObject; a key that does not exist is no error.
Discard(c) ==
  /\ call[c].step = "deleting"
  /\ bucket' = bucket \ {KeyOf(c)}
  /\ Answered(c)
  /\ UNCHANGED <<client, uploaded, discarded, promoted>>

\* HeadObject; then the URL is signed without the bucket.
Look(c) ==
  /\ call[c].step = "heading"
  /\ KeyOf(c) \in bucket
  /\ Answered(c)
  /\ UNCHANGED <<bucket, client, uploaded, discarded, promoted>>

\* The command is not executed: no source, no connection, a destroyed client
\* (no method looks whether the client is destroyed before it sends one),
\* or the caller crashed before it was sent.
CommandFails(c) ==
  /\ Calling(c)
  /\ Answered(c)
  /\ UNCHANGED <<bucket, client, uploaded, discarded, promoted>>

\* The bucket executes the command and nobody learns of it: the answer is lost
\* or the caller crashes.
CommandUnanswered(c) ==
  /\ Calling(c)
  /\ \/ /\ call[c].step = "putting"
        /\ bucket' = bucket \cup {KeyOf(c)}
        /\ uploaded' = uploaded \cup {call[c].content}
     \/ /\ call[c].step = "copying"
        /\ KeyOf(c) \in bucket
        /\ bucket' = bucket \cup {TargetOf(c)}
        /\ UNCHANGED uploaded
     \/ /\ call[c].step \in {"removing", "deleting"}
        /\ bucket' = bucket \ {KeyOf(c)}
        /\ UNCHANGED uploaded
  /\ Answered(c)
  /\ UNCHANGED <<client, discarded, promoted>>

\* close() destroys the client; what is under way fails or goes unanswered.
Destroy ==
  /\ client = "open"
  /\ client' = "destroyed"
  /\ UNCHANGED <<bucket, call, uploaded, discarded, promoted>>

Command(c) == Put(c) \/ Copy(c) \/ Remove(c) \/ Discard(c) \/ Look(c)

StorageCall(c) ==
  \E id \in Contents :
    \/ Upload(c, id)
    \/ \E from, to \in Stages : Promote(c, id, from, to)
    \/ \E from \in Stages : Delete(c, id, from) \/ CreateReadUrl(c, id, from)

StorageStep(c) == StorageCall(c) \/ Command(c) \/ CommandFails(c) \/ CommandUnanswered(c)

StorageNext == (\E c \in Callers : StorageStep(c)) \/ Destroy

StorageSpec == StorageInit /\ [][StorageNext]_storageVars
-----------------------------------------------------------------------------
StorageTypeOK ==
  /\ bucket \subseteq Keys
  /\ call \in [Callers -> Call \cup {NoCall}]
  /\ client \in {"open", "destroyed"}
  /\ uploaded \subseteq Contents
  /\ discarded \subseteq Contents
  /\ promoted \subseteq Keys

Exists(id) == \E stage \in Stages : <<id, stage>> \in bucket

\* A content that was uploaded and that nobody asked to delete exists at some
\* stage, whatever promotions run at once, fail half-way or lose their answer
\* (promoteObject copies before it removes, and never to where the object is).
ContentIsNeverLost == \A id \in uploaded \ discarded : Exists(id)

\* docs/object-storage.md, "depois remove exatamente a origem": a content whose
\* promotion from quarantine was confirmed is in quarantine no more, and no
\* other promotion, late copy or retry brings it back there.
PromotedLeavesQuarantine ==
  \A id \in Contents : <<id, "quarantine">> \in promoted => <<id, "quarantine">> \notin bucket

\* An approved object stays approved unless somebody asked to delete it.
ApprovedStaysApproved ==
  [][\A id \in Contents : <<id, "approved">> \in bucket /\ id \notin discarded'
       => <<id, "approved">> \in bucket']_storageVars
=============================================================================
