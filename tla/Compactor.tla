----------------------------- MODULE Compactor -----------------------------
(* CompactGcsObject: the object is downloaded, recovered, and overwritten  *)
(* with its live blocks on condition that its generation is still the one  *)
(* downloaded.  Several compactors may run, each may die at any step, and  *)
(* a writer appends batches to the object.                                 *)
(*                                                                         *)
(* The object, its generation and the writer are external.  An overwrite   *)
(* makes a new generation, an append does not (GcsRapidStorage::Create     *)
(* resumes every upload by the generation the object was created with),    *)
(* and appending to a generation that is gone fails.  The object is taken  *)
(* in whole records: Init completes a part of one (module Recovery).       *)
EXTENDS LogFormat

CONSTANTS
    Compactors,
    Written,           \* bound: what the records of the writer may say
    MaxRecords,        \* bound: records in the object
    MaxGenerations,    \* bound: generations of the object
    AppendsMeanwhile,  \* the writer appends between a download and the overwrite
    CopyReadsFail      \* reading the temporary file may fail

ASSUME CompactorAssumption ==
    /\ Written \subseteq Payload
    /\ MaxRecords \in Nat /\ MaxGenerations \in Nat \ {0}
    /\ AppendsMeanwhile \in BOOLEAN /\ CopyReadsFail \in BOOLEAN

VARIABLES
    generation,   \* the service: the object's generation
    object,       \* the service: its records
    session,      \* the writer: the generation its upload belongs to, or NoSession
    pc,           \* where CompactGcsObject is
    seen,         \* its variable generation
    copy,         \* the records of its temporary file
    live,         \* the records its mapper maps the blocks to, 0 for a hole
    blocks,       \* ceil_blocks
    block,        \* WriteCompactedRecords' loop variable b
    upload,       \* the records its write stream has been given
    committed,    \* history: what an open would have found after the last commit
    whole         \* history: its blocks before any that a failed compaction cut off

service == <<generation, object>>
writer == <<session, committed, whole>>
local == <<seen, copy, live, blocks, block, upload>>
vars == <<service, writer, pc, local>>

NoSession == 0
Recovered(log) == ImageOf(log, Applied(log, Len(log)))

AllHoles == [b \in Block |-> 0]

Init ==
    /\ generation = 1 /\ object = <<>>
    /\ session = NoSession /\ committed = EmptyImage /\ whole = NumBlocks
    /\ pc = [c \in Compactors |-> "idle"]
    /\ seen = [c \in Compactors |-> 0]
    /\ copy = [c \in Compactors |-> <<>>]
    /\ live = [c \in Compactors |-> AllHoles]
    /\ blocks = [c \in Compactors |-> 0]
    /\ block = [c \in Compactors |-> 0]
    /\ upload = [c \in Compactors |-> <<>>]

-----------------------------------------------------------------------------
(* The writer.                                                             *)

MayAppend == AppendsMeanwhile \/ \A c \in Compactors : pc[c] \notin {"downloaded", "writing"}

OpenSession ==
    /\ session = NoSession
    /\ session' = generation
    /\ UNCHANGED <<service, committed, whole, pc, local>>

(* A record of a batch is persisted; the last one of a batch commits it.   *)
Persist ==
    /\ session = generation
    /\ MayAppend
    /\ Len(object) < MaxRecords
    /\ \E r \in Written : \E f \in {Chained, Commit} :
        /\ object' = Append(object, Flagged(r, f))
        /\ committed' = IF f = Commit THEN Recovered(object') ELSE committed
        /\ whole' = IF f = Commit THEN NumBlocks ELSE whole
    /\ UNCHANGED <<generation, session, pc, local>>

(* The writer closes, dies, or finds its generation overwritten, perhaps   *)
(* in the middle of a batch.                                               *)
EndSession ==
    /\ session # NoSession
    /\ session' = NoSession
    /\ UNCHANGED <<service, committed, whole, pc, local>>

-----------------------------------------------------------------------------
(* CompactGcsObject.                                                       *)

(* It returns, or its process dies: the guard removes the file, and a      *)
(* stream that was not finalized leaves nothing.                           *)
Leave(c) ==
    /\ pc' = [pc EXCEPT ![c] = "idle"]
    /\ seen' = [seen EXCEPT ![c] = 0]
    /\ copy' = [copy EXCEPT ![c] = <<>>]
    /\ live' = [live EXCEPT ![c] = AllHoles]
    /\ blocks' = [blocks EXCEPT ![c] = 0]
    /\ block' = [block EXCEPT ![c] = 0]
    /\ upload' = [upload EXCEPT ![c] = <<>>]

GetMetadata(c) ==
    /\ pc[c] = "idle"
    /\ generation < MaxGenerations
    /\ pc' = [pc EXCEPT ![c] = "found"]
    /\ seen' = [seen EXCEPT ![c] = generation]
    /\ UNCHANGED <<service, writer, copy, live, blocks, block, upload>>

(* The generation seen is downloaded; it may be gone.                      *)
Download(c) ==
    /\ pc[c] = "found" /\ seen[c] = generation
    /\ pc' = [pc EXCEPT ![c] = "downloaded"]
    /\ copy' = [copy EXCEPT ![c] = object]
    /\ UNCHANGED <<service, writer, seen, live, blocks, block, upload>>

DownloadNotFound(c) ==
    /\ pc[c] = "found" /\ seen[c] # generation
    /\ Leave(c)
    /\ UNCHANGED <<service, writer>>

(* Broken variant: records no commit follows are taken for live.           *)
MapUncommitted(log) == MapOf(log, 1 .. Len(log))

LiveMap(log) == RecoveredMap(log, Len(log))

(* Init over the temporary file succeeds and the upload is opened.         *)
OpenUpload(c) ==
    /\ pc[c] = "downloaded"
    /\ pc' = [pc EXCEPT ![c] = "writing"]
    /\ live' = [live EXCEPT ![c] = LiveMap(copy[c])]
    /\ blocks' = [blocks EXCEPT ![c] = CeilBlocks(RecoveredSize(copy[c], Len(copy[c])))]
    /\ UNCHANGED <<service, writer, seen, copy, block, upload>>

Compacted(c) == Flagged(DataRecord(block[c], BlockAt(copy[c], live[c][block[c]])), Commit)

(* Broken variants: a hole is not stepped over; one block too many.        *)
WriteBlockStaysAtHole(c) ==
    /\ pc[c] = "writing" /\ block[c] < blocks[c]
    /\ LET mapped == live[c][block[c]] # 0
       IN  /\ upload' = IF mapped THEN [upload EXCEPT ![c] = Append(@, Compacted(c))] ELSE upload
           /\ block' = IF mapped THEN [block EXCEPT ![c] = @ + 1] ELSE block
    /\ UNCHANGED <<service, writer, pc, seen, copy, live, blocks>>

WriteBlockTooMany(c) ==
    /\ pc[c] = "writing" /\ block[c] <= blocks[c]
    /\ upload' = [upload EXCEPT ![c] = IF block[c] < NumBlocks /\ live[c][block[c]] # 0
                                       THEN Append(@, Compacted(c)) ELSE @]
    /\ block' = [block EXCEPT ![c] = @ + 1]
    /\ UNCHANGED <<service, writer, pc, seen, copy, live, blocks>>

(* One turn of WriteCompactedRecords: a mapped block becomes a record that *)
(* commits by itself, a hole is stepped over.                              *)
WriteBlock(c) ==
    /\ pc[c] = "writing" /\ block[c] < blocks[c]
    /\ upload' = [upload EXCEPT ![c] = IF live[c][block[c]] # 0
                                       THEN Append(@, Compacted(c)) ELSE @]
    /\ block' = [block EXCEPT ![c] = @ + 1]
    /\ UNCHANGED <<service, writer, pc, seen, copy, live, blocks>>

(* Broken variant: no precondition.                                        *)
OverwriteAlways(c) == object' = upload[c] /\ generation' = generation + 1

(* The service takes the upload for the object under IfGenerationMatch.    *)
Overwrite(c) ==
    IF seen[c] = generation
    THEN object' = upload[c] /\ generation' = generation + 1
    ELSE UNCHANGED service

Finalize(c) ==
    /\ pc[c] = "writing" /\ block[c] = blocks[c]
    /\ Overwrite(c)
    /\ Leave(c)
    /\ UNCHANGED writer

(* Read fails: the function returns, and the destructor of the stream      *)
(* closes it, which finalizes what it was given.  The blocks it was not    *)
(* given are lost.                                                         *)
ReadError(c) ==
    /\ CopyReadsFail
    /\ pc[c] = "writing" /\ block[c] < blocks[c] /\ live[c][block[c]] # 0
    /\ Overwrite(c)
    /\ Leave(c)
    /\ whole' = IF seen[c] = generation /\ block[c] < whole THEN block[c] ELSE whole
    /\ UNCHANGED <<session, committed>>

(* Any other error, at any step, or a crash.                               *)
GiveUp(c) ==
    /\ pc[c] # "idle"
    /\ Leave(c)
    /\ UNCHANGED <<service, writer>>

-----------------------------------------------------------------------------
WriterStep == OpenSession \/ Persist \/ EndSession

Compacting(c) == \/ Download(c) \/ DownloadNotFound(c) \/ OpenUpload(c)
                 \/ WriteBlock(c) \/ Finalize(c) \/ ReadError(c)

Next == WriterStep \/ \E c \in Compactors : GetMetadata(c) \/ Compacting(c) \/ GiveUp(c)

Spec == Init /\ [][Next]_vars

(* A compactor that does not die goes on: every call of it is answered.    *)
FairSpec == Spec /\ \A c \in Compactors : WF_vars(Compacting(c))

-----------------------------------------------------------------------------
TypeOK ==
    /\ generation \in 1 .. MaxGenerations
    /\ object \in Seq(Record)
    /\ session \in 0 .. generation
    /\ committed.size \in 0 .. NumBlocks
    /\ whole \in 0 .. NumBlocks
    /\ pc \in [Compactors -> {"idle", "found", "downloaded", "writing"}]
    /\ seen \in [Compactors -> 0 .. generation]
    /\ {copy, upload} \subseteq [Compactors -> Seq(Record)]
    /\ live \in [Compactors -> [Block -> Nat]]
    /\ {block, blocks} \subseteq [Compactors -> 0 .. NumBlocks]

(* What an open finds is what it would have found after the last commit:   *)
(* no batch is lost and no uncommitted one is brought in, whoever compacts *)
(* and dies meanwhile (CompactGcsObject).  The size is kept unless the     *)
(* file ends in a hole, of which the compacted log has no record.          *)
ContentsKept ==
    LET now == Recovered(object)
        last == (committed.size - 1) * BlockUnits .. committed.size * BlockUnits - 1
    IN  /\ now.data = committed.data
        /\ \/ now.size = committed.size
           \/ \A u \in last : committed.data[u] = Zero

(* A compaction that cannot read on loses the end of the file, from the    *)
(* block it could not read, and nothing else: what an open finds is the    *)
(* file of the last commit up to the first block at which a compaction     *)
(* that took the object's place failed since, and zero from there on,      *)
(* never an older page, an uncommitted one or a longer file; and where     *)
(* none failed it is all of the file (compactor.cc 157-161).               *)
BeginningKept ==
    LET now == Recovered(object)
    IN  /\ now.data = [u \in 0 .. MaxSize - 1 |->
                          IF u < whole * BlockUnits THEN committed.data[u] ELSE Zero]
        /\ now.size <= committed.size
        /\ whole = NumBlocks => ContentsKept

(* The object a compactor replaces is, record for record, the one it       *)
(* downloaded (compactor.cc 130, 152): nothing came in between.            *)
OverwritesWhatItRead ==
    [][generation' # generation => \E c \in Compactors :
           pc[c] = "writing" /\ pc'[c] = "idle" /\ copy[c] = object]_vars

(* A compaction ends, whatever others do to the object.                    *)
Ends == \A c \in Compactors : pc[c] # "idle" ~> pc[c] = "idle"
=============================================================================
