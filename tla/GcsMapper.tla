----------------------------- MODULE GcsMapper -----------------------------
(* A database file in GCS: the VFS methods of an open file over a          *)
(* BlockMapper whose storage is an object.  Append only buffers and does   *)
(* not fail, so that Sync appends its whole batch, maps it and empties     *)
(* pending_records_ before the storage's Sync can fail.                    *)
(* The object is taken in whole records.                                   *)
EXTENDS AppendOnlyObject, LogFormat, FiniteSets, Functions

CONSTANTS
    MaxPending,        \* bound: slots of pending_records_
    AppendAfterChain   \* as in BlockMapper

ASSUME MapperAssumption ==
    /\ MaxPending \in Nat
    /\ AppendAfterChain \in BOOLEAN

VARIABLES
    openLen,           \* as in BlockMapper
    pending,
    logicalToPhysical,
    logicalSize

mapperVars == <<openLen, pending, logicalToPhysical, logicalSize>>

M == INSTANCE BlockMapper
         WITH file <- appended, intact <- Len(appended), torn <- FALSE, synced <- 0,
              open <- mode \in {"ready", "syncing"},
              pc <- IF mode = "syncing" THEN "flushing" ELSE "idle", done <- 0,
              Inputs <- Values, MaxLog <- MaxLength,
              ReadsFail <- FALSE, AppendAfterTear <- TRUE

(* Broken variant: the mapping outlives the mapper.                        *)
ForgetAllButMap ==
    /\ openLen' = 0
    /\ pending' = M!NothingPending
    /\ UNCHANGED logicalToPhysical
    /\ logicalSize' = 0

ForgetMapper ==
    /\ openLen' = 0
    /\ pending' = M!NothingPending
    /\ logicalToPhysical' = M!Unmapped
    /\ logicalSize' = 0

FileInit ==
    /\ ObjectInit
    /\ openLen = 0
    /\ pending = M!NothingPending
    /\ logicalToPhysical = M!Unmapped
    /\ logicalSize = 0

-----------------------------------------------------------------------------
(* xOpen: Create, and Init over what is stored.                            *)
XOpen ==
    /\ OpenObject
    /\ openLen' = Len(stored)
    /\ logicalToPhysical' = RecoveredMap(stored, Len(stored))
    /\ logicalSize' = RecoveredSize(stored, Len(stored))
    /\ UNCHANGED pending

(* A block without a pending record that is mapped is read from the        *)
(* object.  With the buffer empty, as after any Sync, PRead returns a      *)
(* record that is stored, or an error; of one that a failed Sync lost it   *)
(* returns an error, in the end that of its last attempt.                  *)
InObject(b) == M!PendingWriters(b) = {} /\ logicalToPhysical[b] # 0
Readable(b) == InObject(b) => logicalToPhysical[b] <= Len(stored)

(* What a Read of the block that returns OK copies.                        *)
ReadBlock(b) ==
    IF M!PendingWriters(b) # {} THEN pending[LastOf(M!PendingWriters(b))].data
    ELSE BlockAt(stored, logicalToPhysical[b])

(* xRead of a page: its possible outcomes.  Sizes are whole pages.         *)
Outcome(rc, data) == [rc |-> rc, data |-> data]
XRead(b) ==
    IF b * BlockUnits >= logicalSize THEN {Outcome("SQLITE_IOERR_SHORT_READ", ZeroBlock)}
    ELSE (IF Readable(b) THEN {Outcome("SQLITE_OK", ReadBlock(b))} ELSE {})
         \cup (IF InObject(b) THEN {Outcome("SQLITE_IOERR_READ", ZeroBlock)} ELSE {})

(* xWrite of a page, which is a block.                                     *)
XWrite(b, data) ==
    /\ mode = "ready"
    /\ M!FitsPending(1)
    /\ pending' = M!PushWrites(b, b, b * BlockUnits, data)
    /\ logicalSize' = IF logicalSize >= (b + 1) * BlockUnits THEN logicalSize
                      ELSE (b + 1) * BlockUnits
    /\ UNCHANGED <<objectVars, openLen, logicalToPhysical>>

(* Broken variant: Truncate leaves the pending blocks beyond the new end.  *)
XTruncateKeepsPending(n) ==
    /\ mode = "ready"
    /\ M!FitsPending(1)
    /\ pending' = [s \in DOMAIN pending \cup {M!LastSlot + 1} |->
                      IF s \in DOMAIN pending THEN pending[s] ELSE TruncateRecord(n)]
    /\ logicalSize' = n
    /\ logicalToPhysical' =
           [b \in Block |-> IF b >= CeilBlocks(n) THEN 0 ELSE logicalToPhysical[b]]
    /\ UNCHANGED <<objectVars, openLen>>

XTruncate(n) ==
    LET keep == {s \in DOMAIN pending : pending[s].block < CeilBlocks(n)}
    IN  /\ mode = "ready"
        /\ M!FitsPending(1)
        /\ pending' = [s \in keep \cup {M!LastSlot + 1} |->
                          IF s \in keep THEN pending[s] ELSE TruncateRecord(n)]
        /\ logicalSize' = n
        /\ logicalToPhysical' =
               [b \in Block |-> IF b >= CeilBlocks(n) THEN 0 ELSE logicalToPhysical[b]]
        /\ UNCHANGED <<objectVars, openLen>>

(* The slots of pending_records_ in order, and their records, flagged.     *)
Slots ==
    CHOOSE f \in Bijection(1 .. Cardinality(DOMAIN pending), DOMAIN pending) :
        \A i, j \in DOMAIN f : i < j => f[i] < f[j]

Batch == [i \in DOMAIN Slots |-> Flagged(pending[Slots[i]], M!FlagOf(Slots[i]))]

(* The last record of a batch that holds a block, 0 when there is none.    *)
LastIn(batch, b) == LastOf({i \in 1 .. Len(batch) : batch[i].block = b})

(* Broken variant: the mapping is left for a Sync that succeeds.           *)
XSyncMapsNothing ==
    /\ mode = "ready" /\ DOMAIN pending # {}
    /\ M!MayAppend
    /\ Len(appended) + Len(Batch) <= MaxLength
    /\ appended' = appended \o Batch
    /\ sent' = IF arrives THEN sent \o Batch ELSE sent
    /\ handed' = Len(appended) + Len(Batch)
    /\ mode' = "syncing"
    /\ pending' = M!NothingPending
    /\ UNCHANGED <<stored, arrives, claimed, openLen, logicalToPhysical, logicalSize>>

(* xSync up to the storage's Sync, which takes all of the buffer.          *)
XSync ==
    /\ mode = "ready" /\ DOMAIN pending # {}
    /\ M!MayAppend
    /\ Len(appended) + Len(Batch) <= MaxLength
    /\ appended' = appended \o Batch
    /\ sent' = IF arrives THEN sent \o Batch ELSE sent
    /\ handed' = Len(appended) + Len(Batch)
    /\ mode' = "syncing"
    /\ pending' = M!NothingPending
    /\ logicalToPhysical' =
           [b \in Block |-> IF LastIn(Batch, b) = 0 THEN logicalToPhysical[b]
                            ELSE Len(appended) + LastIn(Batch, b)]
    /\ UNCHANGED <<stored, arrives, claimed, openLen, logicalSize>>

XSyncOk == SyncOk /\ UNCHANGED mapperVars
XSyncFails == SyncFails /\ UNCHANGED mapperVars

(* xClose: the mapper, and with it the storage, is destroyed.              *)
XClose == CloseTakes /\ ForgetMapper
Destroyed == mode = "closing" /\ End /\ UNCHANGED mapperVars

Die == End /\ ForgetMapper

Background == (Persist \/ CutOff) /\ UNCHANGED mapperVars

-----------------------------------------------------------------------------
(* What an open may find, depending on how much of what is under way gets  *)
(* there.                                                                  *)
Found(log) == ImageOf(log, Applied(log, Len(log)))
Recoverable ==
    LET logs == {stored \o SubSeq(sent, 1, n) : n \in 0 .. Len(sent)}
    IN  {ImageOf(e[1], e[2]) : e \in {<<log, Applied(log, Len(log))>> : log \in logs}}

(* The file as the mapper keeps it: its size, and the record each block    *)
(* stands for, whether or not it is stored.  XRead says what can be read.  *)
Held == IF mode \in {"ready", "syncing"} THEN M!Contents ELSE EmptyImage
=============================================================================
