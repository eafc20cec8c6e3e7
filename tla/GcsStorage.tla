----------------------------- MODULE GcsStorage -----------------------------
(* GcsRapidStorage: one writer's view of an appendable object in GCS.      *)
(* Append only buffers; Sync hands the buffer to the upload stream and     *)
(* waits until a flush is acknowledged; PRead is served from the buffer,   *)
(* from the object, or from both.  Every method holds mutex_ while it runs *)
(* and while it waits, so that only the service, and a crash, come between *)
(* its steps.                                                              *)
(*                                                                         *)
(* The service is modelled from how the code uses it.  What is written to  *)
(* the stream is persisted in order, any time later, whether or not the    *)
(* client is told; a write or a flush may be reported failed; a reader may *)
(* lag behind what is persisted; a broken stream stays broken; taking the  *)
(* upload over cuts off what an earlier writer still had on its way.       *)
(* Deleting the object is left out.                                        *)
EXTENDS Integers, Sequences, SequencesExt

CONSTANTS
    Units,             \* what a unit of the object may hold
    MaxLength,         \* bound: units ever appended to the object
    MaxAttempts        \* kMaxAttempts of PRead (the code: 15)

ASSUME GcsAssumption ==
    /\ MaxLength \in Nat
    /\ MaxAttempts \in Nat \ {0}

VARIABLES
    exists,         \* the service: the object exists
    stored,         \* the service: its persisted contents
    sent,           \* the service: received or on its way, not yet persisted
    connected,      \* the service: the last upload stream opened still works
    pc,             \* "none" (no client), or where Create, Sync, PRead or the destructor is
    initialOffset,  \* initial_offset_
    fileLength,     \* file_length_
    buffer,         \* buffer_
    tokenValid,     \* token_ has not been moved from
    descriptor,     \* the object size descriptor_ reports, NoDescriptor for nullopt
    request,        \* the PRead that runs: offset, size and attempts so far
    result,         \* what it has copied to its caller
    appended,       \* history: the contents appended, the object's when Create returned first
    failed,         \* history: a Sync of this session has failed
    acked,          \* history: the contents when a Sync last returned OK in a session
                    \* in which none had failed
    claimed         \* history: the contents when any Sync last returned OK

service == <<exists, stored, sent, connected>>
client == <<initialOffset, fileLength, buffer, tokenValid, descriptor>>
history == <<appended, failed, acked, claimed>>
vars == <<service, pc, client, request, result, history>>

NoDescriptor == -1
NoRequest == [at |-> 0, size |-> 0, attempts |-> 0]
Contents == BoundedSeq(Units, MaxLength)

Init ==
    /\ exists = FALSE /\ stored = <<>> /\ sent = <<>> /\ connected = FALSE
    /\ pc = "none"
    /\ initialOffset = 0 /\ fileLength = 0 /\ buffer = <<>>
    /\ tokenValid = FALSE
    /\ descriptor = NoDescriptor
    /\ request = NoRequest /\ result = <<>>
    /\ appended = <<>> /\ failed = FALSE /\ acked = <<>> /\ claimed = <<>>

Forget ==
    /\ pc' = "none"
    /\ initialOffset' = 0 /\ fileLength' = 0 /\ buffer' = <<>>
    /\ tokenValid' = FALSE
    /\ descriptor' = NoDescriptor
    /\ request' = NoRequest /\ result' = <<>>
    /\ appended' = <<>> /\ failed' = FALSE
    /\ UNCHANGED <<acked, claimed>>

-----------------------------------------------------------------------------
(* The service.                                                            *)

Persist ==
    /\ sent # <<>>
    /\ stored' = Append(stored, Head(sent))
    /\ sent' = Tail(sent)
    /\ UNCHANGED <<exists, connected, pc, client, request, result, history>>

(* The stream breaks: nothing that is on its way arrives any more.         *)
Break ==
    /\ connected
    /\ connected' = FALSE
    /\ sent' = <<>>
    /\ UNCHANGED <<exists, stored, pc, client, request, result, history>>

-----------------------------------------------------------------------------
(* Create.                                                                 *)

(* GetObjectMetadata: the size it returns is the initial offset for now.   *)
GetMetadata ==
    /\ pc = "none"
    /\ \/ /\ exists
          /\ \E n \in 0 .. Len(stored) : initialOffset' = n
          /\ pc' = "found"
       \/ /\ ~exists
          /\ initialOffset' = 0
          /\ pc' = "notFound"
    /\ UNCHANGED <<service, fileLength, buffer, tokenValid, descriptor, request, result, history>>

(* Broken variant: the size the metadata had is taken for the true one.    *)
OpenUploadAtMetadataSize ==
    /\ pc \in {"found", "notFound"}
    /\ exists' = TRUE
    /\ sent' = <<>> /\ connected' = TRUE
    /\ UNCHANGED <<stored, initialOffset>>
    /\ tokenValid' = TRUE
    /\ pc' = IF pc = "found" THEN "uploading" ELSE "created"
    /\ UNCHANGED <<fileLength, buffer, descriptor, request, result, history>>

(* The upload is resumed, or started: no earlier writer's data arrives any *)
(* more, and the writer's PersistedState is the object's true size.        *)
OpenUpload ==
    /\ pc \in {"found", "notFound"}
    /\ exists' = TRUE
    /\ sent' = <<>> /\ connected' = TRUE
    /\ UNCHANGED stored
    /\ initialOffset' = Len(stored)
    /\ tokenValid' = TRUE
    /\ pc' = IF pc = "found" THEN "uploading" ELSE "created"
    /\ UNCHANGED <<fileLength, buffer, descriptor, request, result, history>>

(* Open, for an object that had metadata; a reader may see less than what  *)
(* is persisted.                                                           *)
OpenDescriptor ==
    /\ pc = "uploading"
    /\ \E n \in 0 .. Len(stored) : descriptor' = n
    /\ pc' = "created"
    /\ UNCHANGED <<service, initialOffset, fileLength, buffer, tokenValid, request, result, history>>

Construct ==
    /\ pc = "created"
    /\ fileLength' = initialOffset
    /\ appended' = stored
    /\ pc' = "ready"
    /\ UNCHANGED <<service, initialOffset, buffer, tokenValid, descriptor, request, result, failed, acked, claimed>>

(* The upload or the descriptor cannot be opened: Create returns the error *)
(* (as it does when GetObjectMetadata fails, which changes nothing).       *)
CreateFails == pc \in {"found", "notFound", "uploading"} /\ Forget /\ UNCHANGED service

-----------------------------------------------------------------------------
AppendUnits(data) ==
    /\ pc = "ready"
    /\ Len(appended) + Len(data) <= MaxLength
    /\ buffer' = buffer \o data
    /\ fileLength' = fileLength + Len(data)
    /\ appended' = appended \o data
    /\ UNCHANGED <<service, pc, initialOffset, tokenValid, descriptor, request, result, failed, acked, claimed>>

(* Broken variant: the buffer is copied into Write and not cleared.        *)
HandOverKeepsBuffer ==
    /\ sent' = IF tokenValid /\ connected THEN sent \o buffer ELSE sent
    /\ UNCHANGED buffer
    /\ tokenValid' = FALSE
    /\ UNCHANGED <<exists, stored, connected>>

(* The buffer and the token are moved into Write before its outcome is     *)
(* known.  A writer given a token that was moved from, or whose stream is   *)
(* broken, writes nothing.                                                 *)
HandOver ==
    /\ sent' = IF tokenValid /\ connected THEN sent \o buffer ELSE sent
    /\ buffer' = <<>>
    /\ tokenValid' = FALSE
    /\ UNCHANGED <<exists, stored, connected>>

SyncReturnsOk ==
    /\ pc' = "ready"
    /\ claimed' = appended
    /\ acked' = IF failed THEN acked ELSE appended
    /\ UNCHANGED <<appended, failed>>

(* An empty buffer: Sync returns OK without a call to the writer.          *)
SyncNothing ==
    /\ pc = "ready" /\ buffer = <<>>
    /\ SyncReturnsOk
    /\ UNCHANGED <<service, client, request, result>>

SyncWrite ==
    /\ pc = "ready" /\ buffer # <<>>
    /\ HandOver
    /\ pc' = IF tokenValid THEN "writing" ELSE "refused"
    /\ UNCHANGED <<initialOffset, fileLength, descriptor, request, result, history>>

(* Broken variant: Sync returns once the data is handed over.              *)
WriteSucceedsUnflushed ==
    /\ pc = "writing" /\ connected
    /\ tokenValid' = TRUE
    /\ SyncReturnsOk
    /\ UNCHANGED <<service, initialOffset, fileLength, buffer, descriptor, request, result>>

WriteSucceeds ==
    /\ pc = "writing" /\ connected
    /\ tokenValid' = TRUE
    /\ pc' = "flushing"
    /\ UNCHANGED <<service, initialOffset, fileLength, buffer, descriptor, request, result, history>>

SyncFails ==
    /\ pc' = "ready"
    /\ failed' = TRUE
    /\ UNCHANGED <<service, client, request, result, appended, acked, claimed>>

WriteFails == pc \in {"writing", "refused"} /\ SyncFails

(* The service acknowledges a flush once everything sent is persisted.     *)
FlushSucceeds ==
    /\ pc = "flushing" /\ connected /\ sent = <<>>
    /\ SyncReturnsOk
    /\ UNCHANGED <<service, client, request, result>>

FlushFails == pc = "flushing" /\ SyncFails

-----------------------------------------------------------------------------
(* PRead.  A read beyond file_length_ returns OutOfRange; nothing changes. *)

BufferStart == fileLength - Len(buffer)
Smaller(m, n) == IF m <= n THEN m ELSE n

(* The part of the request that the object, not the buffer, has to serve.  *)
GcsReadSize(r) == Smaller(r.size, BufferStart - r.at)

(* Broken variant: the copy starts at the front of the buffer.             *)
FromBufferFront(from, to) == SubSeq(buffer, 1, to - from)

(* What memcpy takes from buffer_ for offsets from .. to - 1.              *)
FromBuffer(from, to) == SubSeq(buffer, from - BufferStart + 1, to - BufferStart)

PRead(at, size) ==
    /\ pc = "ready"
    /\ at + size <= fileLength
    /\ request' = [at |-> at, size |-> size, attempts |-> 0]
    /\ \/ /\ at >= BufferStart
          /\ result' = FromBuffer(at, at + size)
          /\ pc' = "copied"
       \/ /\ at < BufferStart
          /\ pc' = "reading"
          /\ UNCHANGED result
    /\ UNCHANGED <<service, client, history>>

(* The descriptor an attempt reads through: reopened when there is none,   *)
(* when the one at hand is too short, and on every attempt but the first.  *)
(* An Open that fails leaves the one at hand.                              *)
MustReopen ==
    \/ descriptor = NoDescriptor
    \/ request.at + GcsReadSize(request) > descriptor
    \/ request.attempts > 0

Descriptors == IF MustReopen THEN {descriptor} \cup 0 .. Len(stored) ELSE {descriptor}

EndRead == pc' = "ready" /\ request' = NoRequest /\ result' = <<>>

(* Broken variants: attempts without a limit; a count that starts again    *)
(* when another size is seen.                                              *)
AttemptUnbounded ==
    /\ pc = "reading"
    /\ \E d \in Descriptors :
       /\ descriptor' = d
       /\ \/ d = NoDescriptor /\ EndRead
          \/ /\ d # NoDescriptor
             /\ request' = [request EXCEPT !.attempts = @ + 1]
             /\ UNCHANGED <<pc, result>>
    /\ UNCHANGED <<service, initialOffset, fileLength, buffer, tokenValid, history>>

AttemptRecounts ==
    /\ pc = "reading"
    /\ \E d \in Descriptors :
       /\ descriptor' = d
       /\ \/ d = NoDescriptor /\ EndRead
          \/ request.attempts + 1 >= MaxAttempts /\ EndRead
          \/ /\ d # NoDescriptor
             /\ request.attempts + 1 < MaxAttempts \/ d # descriptor
             /\ request' = [request EXCEPT !.attempts = IF d # descriptor THEN 1 ELSE @ + 1]
             /\ UNCHANGED <<pc, result>>
    /\ UNCHANGED <<service, initialOffset, fileLength, buffer, tokenValid, history>>

(* One turn of the loop.  The service returns as much of the range as the  *)
(* reader sees of the object, at most what is persisted.                   *)
Attempt ==
    /\ pc = "reading"
    /\ \E d \in Descriptors :
       /\ descriptor' = d
       /\ \/ /\ d = NoDescriptor
             /\ EndRead
          \/ /\ d # NoDescriptor       \* an error other than OutOfRange
             /\ EndRead
          \/ /\ d # NoDescriptor       \* OutOfRange, or a short answer
             /\ request.attempts + 1 < MaxAttempts
             /\ request' = [request EXCEPT !.attempts = @ + 1]
             /\ UNCHANGED <<pc, result>>
          \/ /\ d # NoDescriptor
             /\ request.attempts + 1 >= MaxAttempts
             /\ EndRead
          \/ /\ d # NoDescriptor
             /\ request.at + GcsReadSize(request) <= Len(stored)
             /\ result' = SubSeq(stored, request.at + 1, request.at + GcsReadSize(request))
                              \o FromBuffer(BufferStart, request.at + request.size)
             /\ pc' = "copied"
             /\ UNCHANGED request
    /\ UNCHANGED <<service, initialOffset, fileLength, buffer, tokenValid, history>>

ReadReturnsData ==
    /\ pc = "copied"
    /\ EndRead
    /\ UNCHANGED <<service, client, history>>

-----------------------------------------------------------------------------
(* The destructor syncs what is buffered, whatever comes of it, and closes *)
(* the upload if anything was appended.                                    *)
Destroy ==
    /\ pc = "ready"
    /\ IF buffer # <<>> THEN HandOver ELSE UNCHANGED <<service, buffer, tokenValid>>
    /\ pc' = "closing"
    /\ UNCHANGED <<initialOffset, fileLength, descriptor, request, result, history>>

Closed ==
    /\ pc = "closing"
    /\ fileLength > initialOffset => sent = <<>>
    /\ Forget
    /\ UNCHANGED service

Crash == pc # "none" /\ Forget /\ UNCHANGED service

-----------------------------------------------------------------------------
Appending == \E u \in Units : AppendUnits(<<u>>)
Reading == \E at \in 0 .. MaxLength - 1 : \E size \in 1 .. MaxLength : PRead(at, size)
ReadStep == Attempt \/ ReadReturnsData

Next == \/ Persist \/ Break
        \/ GetMetadata \/ OpenUpload \/ OpenDescriptor \/ Construct \/ CreateFails
        \/ Appending
        \/ SyncNothing \/ SyncWrite \/ WriteSucceeds \/ WriteFails \/ FlushSucceeds \/ FlushFails
        \/ Reading \/ ReadStep
        \/ Destroy \/ Closed \/ Crash

Spec == Init /\ [][Next]_vars

(* The thread inside PRead goes on, and every call of it is answered.      *)
FairSpec == Spec /\ WF_vars(ReadStep)

-----------------------------------------------------------------------------
TypeOK ==
    /\ {exists, connected} \subseteq BOOLEAN
    /\ {stored, sent, buffer, result, appended, acked, claimed} \subseteq Contents
    /\ pc \in {"none", "found", "notFound", "uploading", "created", "ready", "writing",
               "refused", "flushing", "reading", "copied", "closing"}
    /\ {initialOffset, fileLength} \subseteq 0 .. MaxLength
    /\ {tokenValid, failed} \subseteq BOOLEAN
    /\ descriptor \in {NoDescriptor} \cup 0 .. MaxLength
    /\ request \in [at : 0 .. MaxLength, size : 0 .. MaxLength, attempts : 0 .. MaxAttempts]

InSession == pc \in {"ready", "writing", "refused", "flushing", "reading", "copied", "closing"}

(* The object never has a hole: what is persisted is, in order, a prefix   *)
(* of what the session appended, also after Syncs that failed and dropped  *)
(* their buffer (GcsRapidStorage::Sync).                                   *)
StoredInOrder == InSession => IsPrefix(stored \o sent, appended)

(* The offset Append returns is the one its data will have in the object:  *)
(* as long as no Sync has failed and the stream works, file_length_ counts *)
(* exactly what is persisted, on its way and buffered, also when Create    *)
(* raced with the last of an earlier writer (Create, Append, Sync).        *)
OffsetsAreReal ==
    InSession /\ connected /\ ~failed =>
        BufferStart = Len(stored) + Len(sent)

(* Data a read returns is the data appended at those offsets, whichever    *)
(* part came from the object and whichever from the buffer, also when      *)
(* failed Syncs left offsets that nothing stands behind (PRead).           *)
ReadsReturnAppended ==
    pc = "copied" => result = SubSeq(appended, request.at + 1, request.at + request.size)

(* What a Sync that returned OK covered is in the object, and stays there  *)
(* for every later session, unless an earlier Sync of the session failed   *)
(* (GcsRapidStorage::Sync).                                                *)
AckedIsStored == IsPrefix(acked, stored)

(* What any Sync that returned OK covered is durable (README.md:17).       *)
ClaimedIsStored == IsPrefix(claimed, stored)

(* A read returns, however far the reader lags (PRead, kMaxAttempts).      *)
ReadReturns == pc = "reading" ~> pc # "reading"

-----------------------------------------------------------------------------
(* The storage as its mapper may rely on it.                               *)
Mode == CASE pc \in {"ready", "reading", "copied"} -> "ready"
          [] pc \in {"writing", "refused", "flushing"} -> "syncing"
          [] pc = "closing" -> "closing"
          [] OTHER -> "none"

Abstract == INSTANCE AppendOnlyObject
                WITH mode <- Mode,
                     arrives <- InSession /\ connected /\ (tokenValid \/ pc = "writing"),
                     handed <- Len(appended) - Len(buffer)

(* Whatever the stream, the service and a crash do to Create, Append, Sync *)
(* and the destructor, the object stays a prefix of what was appended, and *)
(* a Sync that handed data over returns OK only when all of it is stored   *)
(* (GcsRapidStorage as an AppendOnlyStorage, storage.h).                   *)
ImplementsObject == Abstract!ObjectSpec
=============================================================================
