----------------------------- MODULE BlockMapper -----------------------------
(* BlockMapper over a local file: the logical file SQLite reads and writes *)
(* through the VFS, kept as a log of block and truncate records.  Writes   *)
(* and truncations wait in pending_records_ until Sync appends them as one *)
(* chain; Init rebuilds the mapping from the log.                          *)
(*                                                                         *)
(* Every method holds mutex_ for its whole duration, so that only a crash  *)
(* comes between the steps of a method.  Sync is taken record by record;   *)
(* the other methods change nothing but memory and are single steps.  Init *)
(* is taken as one step: module Recovery is its loops.                     *)
EXTENDS LocalStorage, FiniteSets

CONSTANTS
    Inputs,            \* bound: the values Writes are given
    MaxLog,            \* bound: records in the file
    MaxPending,        \* bound: slots of pending_records_
    ReadsFail,         \* PRead may fail under the read-modify-write of a Write
    AppendAfterChain,  \* a session that opened a log ending in an unfinished
                       \* chain may go on to Sync
    AppendAfterTear    \* a session may Sync again after an append that failed
                       \* half way

ASSUME BoundsAssumption ==
    /\ Inputs \subseteq Values
    /\ MaxLog \in Nat
    /\ MaxPending \in Nat
    /\ {ReadsFail, AppendAfterChain, AppendAfterTear} \subseteq BOOLEAN

VARIABLES
    open,               \* a mapper exists and is initialized_
    openLen,            \* history: the records of the file when Init returned
    pending,            \* pending_records_: slot -> record, in slot order
    logicalToPhysical,  \* logical_to_physical_
    logicalSize,        \* logical_size_
    pc,                 \* "idle", or the part of Sync that runs
    done                \* the last slot this Sync has appended

mapperVars == <<open, openLen, pending, logicalToPhysical, logicalSize, pc, done>>
vars == <<storageVars, mapperVars>>

Slot == 1 .. MaxPending
Unmapped == [b \in Block |-> 0]
NothingPending == [s \in {} |-> TruncateRecord(0)]

Init ==
    /\ StorageInit
    /\ open = FALSE
    /\ openLen = 0
    /\ pending = NothingPending
    /\ logicalToPhysical = Unmapped
    /\ logicalSize = 0
    /\ pc = "idle"
    /\ done = 0

Idle == open /\ pc = "idle"
LastSlot == LastOf(DOMAIN pending)

(* The log ends with Chained records that no Commit record follows.        *)
EndsChained(log, n) == n > 0 /\ log[n].flag = Chained

-----------------------------------------------------------------------------
(* What ReadLocked copies for a block: the newest pending record of it,    *)
(* else the mapped record, else zeroes.                                    *)
PendingWriters(b) == {s \in DOMAIN pending : pending[s].block = b}

CurrentBlock(b) ==
    IF PendingWriters(b) # {} THEN pending[LastOf(PendingWriters(b))].data
    ELSE BlockAt(file, logicalToPhysical[b])

(* Init succeeds: any part of a record is completed, by an append that is  *)
(* not synced, and the mapping and the size are recovered.                 *)
Open ==
    /\ ~open
    /\ file' = Framed
    /\ intact' = Len(Framed)
    /\ torn' = FALSE
    /\ UNCHANGED synced
    /\ open' = TRUE
    /\ openLen' = Len(Framed)
    /\ logicalToPhysical' = RecoveredMap(Framed, Len(Framed))
    /\ logicalSize' = RecoveredSize(Framed, Len(Framed))
    /\ UNCHANGED <<pending, pc, done>>

(* Init returns an error, before or after the padding is appended.         *)
OpenFails ==
    /\ ~open
    /\ \/ UNCHANGED storageVars
       \/ /\ file' = Framed
          /\ intact' = Len(Framed)
          /\ torn' = FALSE
          /\ UNCHANGED synced
    /\ UNCHANGED mapperVars

(* The records a Write of buf at off adds for blocks first .. last, read-  *)
(* modify-write included, after those already pending.                     *)
Overlay(b, off, buf) ==
    [u \in 0 .. BlockUnits - 1 |->
        LET at == b * BlockUnits + u - off
        IN  IF at \in DOMAIN buf THEN buf[at] ELSE CurrentBlock(b)[u]]

PushWrites(first, last, off, buf) ==
    [s \in DOMAIN pending \cup (LastSlot + 1 .. LastSlot + 1 + last - first) |->
        IF s \in DOMAIN pending THEN pending[s]
        ELSE LET b == first + s - LastSlot - 1 IN DataRecord(b, Overlay(b, off, buf))]

FirstBlock(off) == off \div BlockUnits
LastBlock(off, len) == (off + len - 1) \div BlockUnits

(* Bound: as much as one Sync still has room for in the file.              *)
FitsPending(k) == /\ LastSlot + k <= MaxPending
                  /\ Len(file) + LastSlot + k <= MaxLog

Write(off, len, buf) ==
    /\ Idle
    /\ FitsPending(LastBlock(off, len) - FirstBlock(off) + 1)
    /\ pending' = PushWrites(FirstBlock(off), LastBlock(off, len), off, buf)
    /\ logicalSize' = IF logicalSize >= off + len THEN logicalSize ELSE off + len
    /\ UNCHANGED <<storageVars, open, openLen, logicalToPhysical, pc, done>>

(* ReadLocked fails for the last, partly written block of a Write that     *)
(* spans several: the blocks before it stay pending.                       *)
WriteReadFails(off, len, buf) ==
    LET first == FirstBlock(off)
        last == LastBlock(off, len)
    IN  /\ Idle /\ ReadsFail
        /\ first < last
        /\ (off + len) % BlockUnits # 0
        /\ PendingWriters(last) = {} /\ logicalToPhysical[last] # 0
        /\ FitsPending(last - first)
        /\ pending' = PushWrites(first, last - 1, off, buf)
        /\ UNCHANGED <<storageVars, open, openLen, logicalToPhysical, logicalSize, pc, done>>

(* Broken variant: the pending blocks beyond the new end stay.             *)
TruncateKeepsPending(n) ==
    /\ Idle
    /\ FitsPending(1)
    /\ pending' = [s \in DOMAIN pending \cup {LastSlot + 1} |->
                      IF s \in DOMAIN pending THEN pending[s] ELSE TruncateRecord(n)]
    /\ logicalSize' = n
    /\ logicalToPhysical' =
           [b \in Block |-> IF b >= CeilBlocks(n) THEN 0 ELSE logicalToPhysical[b]]
    /\ UNCHANGED <<storageVars, open, openLen, pc, done>>

(* A truncate record joins the pending ones, which lose the blocks beyond  *)
(* the new end.                                                            *)
Truncate(n) ==
    LET r == TruncateRecord(n)
        keep == {s \in DOMAIN pending : pending[s].block < CeilBlocks(n)}
    IN  /\ Idle
        /\ FitsPending(1)
        /\ pending' = [s \in keep \cup {LastSlot + 1} |->
                          IF s \in keep THEN pending[s] ELSE r]
        /\ logicalSize' = n
        /\ logicalToPhysical' =
               [b \in Block |-> IF b >= CeilBlocks(n) THEN 0 ELSE logicalToPhysical[b]]
        /\ UNCHANGED <<storageVars, open, openLen, pc, done>>

-----------------------------------------------------------------------------
(* The environment's part of Sync: what a session may do after it opened,  *)
(* or left, a log end that is not a whole batch.  The code allows it all.  *)
MayAppend == /\ AppendAfterChain \/ ~EndsChained(file, openLen)
             /\ AppendAfterTear \/ ~torn

(* With nothing pending Sync only syncs the storage.                       *)
SyncStart ==
    /\ Idle
    /\ \/ /\ DOMAIN pending = {}
          /\ pc' = "flushing"
       \/ /\ DOMAIN pending # {}
          /\ MayAppend
          /\ Len(file) + Cardinality(DOMAIN pending) <= MaxLog
          /\ pc' = "appending"
    /\ UNCHANGED <<storageVars, open, openLen, pending, logicalToPhysical, logicalSize, done>>

IsNext(s) == /\ s \in DOMAIN pending /\ s > done
             /\ \A t \in DOMAIN pending : t > done => s <= t

(* Broken variant: every record commits by itself.                         *)
FlagEach(s) == Commit

FlagOf(s) == IF s = LastSlot THEN Commit ELSE Chained

(* One iteration of Sync's loop; the last one also empties pending_records_ *)
SyncAppend ==
    /\ pc = "appending"
    /\ \E s \in DOMAIN pending :
        /\ IsNext(s)
        /\ AppendSucceeds(Flagged(pending[s], FlagOf(s)))
        /\ logicalToPhysical' =
               [b \in Block |-> IF pending[s].block = b THEN Len(file) + 1
                                ELSE logicalToPhysical[b]]
        /\ \/ /\ s # LastSlot
              /\ done' = s
              /\ UNCHANGED <<pending, pc>>
           \/ /\ s = LastSlot
              /\ done' = 0
              /\ pending' = NothingPending
              /\ pc' = "flushing"
    /\ UNCHANGED <<open, openLen, logicalSize>>

(* Broken variant: a Sync that fails drops what was pending.               *)
SyncAppendFailsDrops ==
    /\ pc = "appending"
    /\ AppendFailsClean \/ AppendFailsTorn
    /\ pc' = "idle"
    /\ done' = 0
    /\ pending' = NothingPending
    /\ UNCHANGED <<open, openLen, logicalToPhysical, logicalSize>>

(* Append returns an error: Sync returns it and keeps every pending record.*)
SyncAppendFails ==
    /\ pc = "appending"
    /\ AppendFailsClean \/ AppendFailsTorn
    /\ pc' = "idle"
    /\ done' = 0
    /\ UNCHANGED <<open, openLen, pending, logicalToPhysical, logicalSize>>

SyncFlush ==
    /\ pc = "flushing"
    /\ FsyncSucceeds
    /\ pc' = "idle"
    /\ UNCHANGED <<open, openLen, pending, logicalToPhysical, logicalSize, done>>

SyncFlushFails ==
    /\ pc = "flushing"
    /\ pc' = "idle"
    /\ UNCHANGED <<storageVars, open, openLen, pending, logicalToPhysical, logicalSize, done>>

(* Broken variant: the mapping survives its mapper.                        *)
ForgetAllButMap ==
    /\ open' = FALSE
    /\ openLen' = 0
    /\ pending' = NothingPending
    /\ UNCHANGED logicalToPhysical
    /\ logicalSize' = 0
    /\ pc' = "idle"
    /\ done' = 0

(* The mapper and all it holds in memory are gone.                         *)
Forget ==
    /\ open' = FALSE
    /\ openLen' = 0
    /\ pending' = NothingPending
    /\ logicalToPhysical' = Unmapped
    /\ logicalSize' = 0
    /\ pc' = "idle"
    /\ done' = 0

(* xClose destroys the mapper; nothing is synced.                          *)
Close == Idle /\ Forget /\ UNCHANGED storageVars

Crash == StorageCrashes(pc = "appending") /\ Forget

-----------------------------------------------------------------------------
Writing == \E off \in 0 .. MaxSize - 1 : \E len \in 1 .. MaxSize - off :
               \E buf \in [0 .. len - 1 -> Inputs] :
                   Write(off, len, buf) \/ WriteReadFails(off, len, buf)

Truncating == \E n \in 0 .. MaxSize : Truncate(n)

SyncStep == SyncAppend \/ SyncAppendFails \/ SyncFlush \/ SyncFlushFails

Next == \/ Open \/ OpenFails \/ Writing \/ Truncating
        \/ SyncStart \/ SyncStep \/ Close \/ Crash

Spec == Init /\ [][Next]_vars

-----------------------------------------------------------------------------
TypeOK ==
    /\ StorageTypeOK
    /\ open \in BOOLEAN
    /\ openLen \in 0 .. Len(file)
    /\ DOMAIN pending \subseteq Slot
    /\ pending \in [DOMAIN pending -> Payload]
    /\ logicalToPhysical \in [Block -> 0 .. Len(file)]
    /\ logicalSize \in 0 .. MaxSize
    /\ pc \in {"idle", "appending", "flushing"}
    /\ done \in 0 .. MaxPending

(* The session's records: those Init applied and those Sync has appended.  *)
InSession == {i \in 1 .. Len(file) : i > openLen \/ AppliedUpTo(file, openLen, i)}

(* A truncation waiting in pending_records_ never removes a block written  *)
(* before it and still pending: Truncate prunes those (block_mapper.cc     *)
(* 312-318), so that replaying the batch in order ends in the same file.   *)
PendingOrdered ==
    \A s, t \in DOMAIN pending :
        s < t /\ pending[s].block \in Block => ~Cuts(pending[t], pending[s].block)

(* The slots that this Sync, or the next one, has yet to append.           *)
Remaining == {s \in DOMAIN pending : s > done}

(* A block with no pending record is mapped to the last live record of it  *)
(* in the session's part of the log, unless a pending truncation removes   *)
(* it: also half way through a Sync, and after any number of Syncs that    *)
(* failed half way and left records of theirs in the file.                 *)
SessionMap ==
    open => \A b \in Block :
        \/ \E s \in Remaining : pending[s].block = b
        \/ logicalToPhysical[b] =
               IF \E s \in Remaining : Cuts(pending[s], b) THEN 0
               ELSE LastOf(LiveWrites(file, InSession, b))

(* A pending truncation has unmapped the blocks it removes; only records   *)
(* pending for them bring them back.                                       *)
CutIsUnmapped ==
    \A b \in Block :
        /\ \E s \in DOMAIN pending : Cuts(pending[s], b)
        /\ \A s \in DOMAIN pending : pending[s].block # b
        => logicalToPhysical[b] = 0

(* The records a session appended are one run of chains, and the run ends  *)
(* with a Commit record once nothing is pending.                           *)
SessionChain ==
    open => /\ \A i \in openLen + 1 .. Len(file) : file[i].flag \in {Commit, Chained}
            /\ DOMAIN pending = {} /\ Len(file) > openLen => file[Len(file)].flag = Commit

(* While Sync appends there is a record left to append, a session that is  *)
(* closed holds nothing, and no session that must not append has appended. *)
SyncState ==
    /\ pc = "appending" => open /\ DOMAIN pending # {} /\ done < LastSlot
    /\ pc # "appending" => done = 0
    /\ pc = "flushing" => open /\ DOMAIN pending = {}
    /\ ~open => DOMAIN pending = {} /\ pc = "idle"

(* The inductive invariant of a session of the mapper: what its parts say  *)
(* of Sync, Truncate and Write (block_mapper.cc 223-361).                  *)
SessionInv == PendingOrdered /\ SessionMap /\ CutIsUnmapped /\ SessionChain /\ SyncState

-----------------------------------------------------------------------------
(* A session with nothing left to write.                                   *)
Settled == Idle /\ DOMAIN pending = {}

(* What the next Init makes of the file as it is now.                      *)
NextMap == RecoveredMap(Framed, Len(Framed))

(* Once Sync has written everything, closing the file and opening it again *)
(* serves, block for block, what this session serves (BlockMapper::Sync    *)
(* against BlockMapper::Init), after any crashes, torn records and failed  *)
(* Syncs on the way.                                                       *)
SettledIsRecovered ==
    Settled => \A b \in Block : BlockAt(Framed, NextMap[b]) = CurrentBlock(b)

(* The file recovered is never shorter, in blocks, than the session's.     *)
SizeNotLost ==
    Settled => CeilBlocks(RecoveredSize(Framed, Len(Framed))) >= CeilBlocks(logicalSize)

(* What a session reads never changes except by its own Write and Truncate *)
(* (BlockMapper::Sync moves every block from pending_records_ to the log   *)
(* and the mapping under the reader), also when Sync fails half way.       *)
SyncKeepsContents ==
    [][pc # "idle" /\ open' =>
         \A b \in Block : CurrentBlock(b)' = CurrentBlock(b)]_vars

-----------------------------------------------------------------------------
(* The mapper as the byte array that DurableFile promises: its contents    *)
(* are what ReadLocked would copy, and the promise is the set of files an  *)
(* Init could find if the machine stopped now.                             *)
Contents == Image(CurrentBlock, logicalSize)
Recoverable ==
    {ImageOf(file, S) : S \in {Applied(file, Smaller(n, intact)) : n \in synced .. Len(file)}}

Abstract == INSTANCE DurableFile
                WITH live <- open,
                     contents <- IF open THEN Contents ELSE EmptyImage,
                     promised <- Recoverable

(* The mapper over the log implements the durable byte array: writes and   *)
(* truncations act on what is read at once, a batch is recovered whole or  *)
(* not at all, and what a successful Sync covered is what the next open    *)
(* finds, whatever crashed or failed in between.                           *)
Implements == Abstract!Spec
=============================================================================
