-------------------------- MODULE AppendOnlyObject --------------------------
(* What AppendOnlyStorage promises a mapper over an object in GCS: the     *)
(* object is always a prefix of what its sessions appended, data a Sync    *)
(* took either arrives in order or cuts off all that follows it, and a     *)
(* Sync that took data returns OK only when all of it is stored.           *)
(* GcsStorage implements this; module GcsMapper builds on it.              *)
EXTENDS Integers, Sequences

CONSTANTS Units, MaxLength

VARIABLES
    mode,       \* "none" (no session), "ready", "syncing" or "closing"
    stored,     \* the object's contents
    sent,       \* taken by a Sync, not yet stored
    arrives,    \* what a Sync takes next will reach the stream
    appended,   \* what the session knows as the contents
    handed,     \* how much of it Syncs have taken
    claimed     \* history: appended, when a Sync last returned OK

objectVars == <<mode, stored, sent, arrives, appended, handed, claimed>>

ObjectInit ==
    /\ mode = "none"
    /\ stored = <<>> /\ sent = <<>> /\ arrives = FALSE
    /\ appended = <<>> /\ handed = 0 /\ claimed = <<>>

Buffered == SubSeq(appended, handed + 1, Len(appended))

Persist ==
    /\ sent # <<>>
    /\ stored' = Append(stored, Head(sent))
    /\ sent' = Tail(sent)
    /\ UNCHANGED <<mode, arrives, appended, handed, claimed>>

(* The stream breaks, or another session takes the object over.            *)
CutOff ==
    /\ sent' = <<>>
    /\ arrives' = FALSE
    /\ UNCHANGED <<mode, stored, appended, handed, claimed>>

OpenObject ==
    /\ mode = "none" /\ sent = <<>>
    /\ mode' = "ready"
    /\ appended' = stored
    /\ handed' = Len(stored)
    /\ arrives' \in BOOLEAN
    /\ UNCHANGED <<stored, sent, claimed>>

AppendData(data) ==
    /\ mode = "ready"
    /\ Len(appended) + Len(data) <= MaxLength
    /\ appended' = appended \o data
    /\ UNCHANGED <<mode, stored, sent, arrives, handed, claimed>>

Take == /\ sent' = IF arrives THEN sent \o Buffered ELSE sent
        /\ handed' = Len(appended)

SyncTakes ==
    /\ mode = "ready" /\ Buffered # <<>>
    /\ Take
    /\ mode' = "syncing"
    /\ UNCHANGED <<stored, arrives, appended, claimed>>

(* Broken variant: does not wait for what was taken to be stored.          *)
SyncOkEarly ==
    /\ mode = "syncing" /\ arrives
    /\ mode' = "ready"
    /\ claimed' = appended
    /\ UNCHANGED <<stored, sent, arrives, appended, handed>>

SyncOk ==
    /\ mode = "syncing" /\ arrives /\ sent = <<>>
    /\ mode' = "ready"
    /\ claimed' = appended
    /\ UNCHANGED <<stored, sent, arrives, appended, handed>>

(* Nothing was buffered: OK, whatever became of what earlier Syncs took.   *)
SyncEmpty ==
    /\ mode = "ready" /\ Buffered = <<>>
    /\ claimed' = appended
    /\ UNCHANGED <<mode, stored, sent, arrives, appended, handed>>

(* What it took may still arrive; more will perhaps not.                   *)
SyncFails ==
    /\ mode = "syncing"
    /\ mode' = "ready"
    /\ arrives' \in {arrives, FALSE}
    /\ UNCHANGED <<stored, sent, appended, handed, claimed>>

(* The destructor takes what is buffered.                                  *)
CloseTakes ==
    /\ mode = "ready"
    /\ Take
    /\ mode' = "closing"
    /\ arrives' \in {arrives, FALSE}
    /\ UNCHANGED <<stored, appended, claimed>>

Leave ==
    /\ mode' = "none"
    /\ arrives' = FALSE /\ appended' = <<>> /\ handed' = 0
    /\ UNCHANGED <<stored, sent, claimed>>

(* The session ends, or its process dies.                                  *)
End == mode # "none" /\ Leave

ObjectNext == \/ Persist \/ CutOff \/ OpenObject
              \/ \E u \in Units : AppendData(<<u>>)
              \/ SyncTakes \/ SyncOk \/ SyncEmpty \/ SyncFails
              \/ CloseTakes \/ End

ObjectSpec == ObjectInit /\ [][ObjectNext]_objectVars
=============================================================================
