------------------------- MODULE BlockMapperProofs -------------------------
(* The mapper over a local file, for every number of blocks, block size,   *)
(* set of values and bound: its types, what a session knows of its records *)
(* (TypeOK /\ SessionInv, the invariant the rest stands on, with a lemma   *)
(* for each action), that a Sync changes nothing of what is read, that     *)
(* what a settled session serves is what the next Init rebuilds, and that  *)
(* the mapper implements DurableFile (DurableInv); the last two when no    *)
(* session syncs behind an unfinished chain or a torn record.              *)
EXTENDS BlockMapper, LogFormatProofs, SequenceTheorems

-----------------------------------------------------------------------------
(* Types.                                                                  *)

LEMMA LastSlotType ==
    ASSUME TypeOK
    PROVE  /\ LastSlot \in 0 .. MaxPending
           /\ \A s \in DOMAIN pending : s <= LastSlot
           /\ DOMAIN pending # {} => LastSlot \in DOMAIN pending
<1> DEFINE D == DOMAIN pending
<1>1. MaxPending \in Nat /\ D \subseteq 0 .. MaxPending /\ 0 \notin D
    BY BoundsAssumption DEF TypeOK, Slot
<1> HIDE DEF D
<1>2. LastOf(D) \in D \cup {0} /\ \A s \in D : s <= LastOf(D)
    BY <1>1, LastOfBound
<1>3. 0 \in 0 .. MaxPending /\ D \cup {0} \subseteq 0 .. MaxPending
    BY <1>1
<1>4. LastOf(D) \in 0 .. MaxPending
    BY <1>2, <1>3
<1>5. D # {} => LastOf(D) \in D
    <2> SUFFICES ASSUME NEW s \in D, LastOf(D) = 0
                 PROVE  FALSE
        BY <1>2
    <2> QED
        BY <1>1, <1>2
<1> QED
    BY <1>2, <1>4, <1>5 DEF D, LastSlot

LEMMA ZeroTypes ==
    /\ ZeroBlock \in BlockData
    /\ \A n \in 0 .. MaxSize : TruncateRecord(n) \in Payload
    /\ \A d \in BlockData, b \in Block : DataRecord(b, d) \in Payload
    /\ PadRecord \in Record
    /\ \A r \in Payload, f \in {Commit, Chained} : Flagged(r, f) \in Record
<1>1. ZeroBlock \in BlockData
    BY FormatAssumption DEF ZeroBlock, BlockData
<1>2. 0 \in Block
    BY FormatAssumption DEF Block
<1> QED
    BY <1>1, <1>2 DEF TruncateRecord, DataRecord, PadRecord, Flagged, Payload, Record,
          SizeField, Commit, Chained, Aborted

LEMMA CurrentBlockType ==
    ASSUME TypeOK, NEW b \in Block
    PROVE  CurrentBlock(b) \in BlockData
<1>1. CASE PendingWriters(b) # {}
    <2> DEFINE W == PendingWriters(b)
    <2>1. MaxPending \in Nat /\ W \subseteq 0 .. MaxPending /\ 0 \notin W
        BY BoundsAssumption DEF TypeOK, Slot, PendingWriters
    <2>2. W \subseteq DOMAIN pending
        BY DEF PendingWriters
    <2> HIDE DEF W
    <2>3. LastOf(W) \in W \cup {0} /\ \A s \in W : s <= LastOf(W)
        BY <2>1, LastOfBound
    <2>4. LastOf(W) \in W
        <3> SUFFICES ASSUME NEW s \in W, LastOf(W) = 0
                     PROVE  FALSE
            BY <1>1, <2>3 DEF W
        <3> QED
            BY <2>1, <2>3
    <2>5. pending[LastOf(W)] \in Payload
        BY <2>2, <2>4 DEF TypeOK
    <2> QED
        BY <1>1, <2>5 DEF W, CurrentBlock, Payload
<1>2. CASE PendingWriters(b) = {}
    <2>1. logicalToPhysical[b] \in 0 .. Len(file)
        BY DEF TypeOK
    <2>2. ZeroBlock \in BlockData
        BY ZeroTypes
    <2>3. \A p \in 1 .. Len(file) : file[p] \in Record
        BY DEF TypeOK, StorageTypeOK
    <2>4. \A p \in 1 .. Len(file) : file[p].data \in BlockData
        BY <2>3 DEF Record
    <2>5. BlockAt(file, logicalToPhysical[b]) \in BlockData
        BY <2>1, <2>2, <2>4 DEF BlockAt
    <2> QED
        BY <1>2, <2>5 DEF CurrentBlock
<1> QED
    BY <1>1, <1>2

LEMMA OverlayType ==
    ASSUME TypeOK, NEW b \in Block, NEW off \in Nat, NEW len \in Nat,
           NEW buf \in [0 .. len - 1 -> Inputs]
    PROVE  Overlay(b, off, buf) \in BlockData
<1>1. CurrentBlock(b) \in [0 .. BlockUnits - 1 -> Values]
    BY CurrentBlockType DEF BlockData
<1>2. \A at \in DOMAIN buf : buf[at] \in Values
    BY BoundsAssumption
<1> QED
    BY <1>1, <1>2 DEF Overlay, BlockData

(* What a Write adds: slots after the last one, holding data records of    *)
(* the blocks it spans.                                                    *)
LEMMA PushWritesIs ==
    ASSUME TypeOK, NEW first \in Block, NEW last \in Block, first <= last,
           NEW off \in Nat, NEW len \in Nat, NEW buf \in [0 .. len - 1 -> Inputs],
           FitsPending(last - first + 1)
    PROVE  LET P == PushWrites(first, last, off, buf)
           IN  /\ P \in [DOMAIN P -> Payload]
               /\ DOMAIN pending \subseteq DOMAIN P /\ DOMAIN P \subseteq Slot
               /\ DOMAIN P # {}
               /\ \A s \in DOMAIN pending : P[s] = pending[s]
               /\ \A s \in DOMAIN P \ DOMAIN pending :
                      s > LastSlot /\ P[s].block \in Block /\ ~IsTruncate(P[s])
<1> DEFINE added == LastSlot + 1 .. LastSlot + 1 + last - first
           P == PushWrites(first, last, off, buf)
<1>1. LastSlot \in 0 .. MaxPending /\ MaxPending \in Nat
    BY LastSlotType, BoundsAssumption
<1>2. first \in Int /\ last \in Int /\ \A b \in first .. last : b \in Block
    BY FormatAssumption DEF Block
<1>3. LastSlot + 1 + last - first <= MaxPending
    BY <1>1, <1>2 DEF FitsPending
<1>4. added \subseteq Slot /\ added # {} /\ \A s \in added : s > LastSlot
    <2>1. LastSlot + 1 \in added
        BY <1>1, <1>2
    <2>2. \A s \in added : s \in Int /\ s > LastSlot /\ 1 <= s /\ s <= MaxPending
        BY <1>1, <1>2, <1>3
    <2> QED
        BY <1>1, <2>1, <2>2 DEF Slot
<1>5. \A s \in added : first + s - LastSlot - 1 \in Block
    BY <1>1, <1>2
<1>6. \A s \in added : s \notin DOMAIN pending
    BY <1>1, <1>4, LastSlotType DEF TypeOK, Slot
<1>7. DOMAIN P = DOMAIN pending \cup added
    BY DEF PushWrites
<1>8. \A s \in DOMAIN pending : P[s] = pending[s]
    BY <1>7 DEF PushWrites
<1>9. ASSUME NEW s \in added
      PROVE  P[s] \in Payload /\ P[s].block \in Block /\ ~IsTruncate(P[s])
    <2> DEFINE b == first + s - LastSlot - 1
    <2>1. P[s] = DataRecord(b, Overlay(b, off, buf))
        BY <1>6, <1>7 DEF PushWrites
    <2>2. b \in Block
        BY <1>5
    <2>3. Overlay(b, off, buf) \in BlockData
        BY <2>2, OverlayType
    <2> HIDE DEF b
    <2>4. P[s] \in Payload
        BY <2>1, <2>2, <2>3, ZeroTypes
    <2>5. P[s].block = b /\ P[s].size = NoSize
        BY <2>1 DEF DataRecord
    <2> HIDE DEF P
    <2> QED
        BY <2>2, <2>4, <2>5 DEF IsTruncate
<1>10. P \in [DOMAIN P -> Payload]
    <2>1. \A s \in DOMAIN P : P[s] \in Payload
        BY <1>7, <1>8, <1>9 DEF TypeOK
    <2>2. P = [s \in DOMAIN P |-> P[s]]
        BY DEF PushWrites
    <2> QED
        BY <2>1, <2>2
<1> HIDE DEF P, added
<1>11. DOMAIN pending \subseteq DOMAIN P /\ DOMAIN P \subseteq Slot /\ DOMAIN P # {}
    BY <1>4, <1>7 DEF TypeOK
<1>12. \A s \in DOMAIN P \ DOMAIN pending :
           s > LastSlot /\ P[s].block \in Block /\ ~IsTruncate(P[s])
    BY <1>4, <1>7, <1>9
<1> QED
    BY <1>8, <1>10, <1>11, <1>12 DEF P

(* The blocks a Write spans are blocks of the file.                        *)
LEMMA SpanType ==
    ASSUME NEW off \in 0 .. MaxSize - 1, NEW len \in 1 .. MaxSize - off
    PROVE  /\ FirstBlock(off) \in Block /\ LastBlock(off, len) \in Block
           /\ FirstBlock(off) <= LastBlock(off, len)
<1>1. off \in Nat /\ off + len - 1 \in Nat /\ off <= off + len - 1
      /\ off < NumBlocks * BlockUnits /\ off + len - 1 < NumBlocks * BlockUnits
    BY MaxSizeType DEF MaxSize
<1>2. FirstBlock(off) \in Block
    BY <1>1, DivBelow, FormatAssumption DEF FirstBlock, Block
<1>3. LastBlock(off, len) \in Block
    BY <1>1, DivBelow, FormatAssumption DEF LastBlock, Block
<1>4. off \div BlockUnits <= (off + len - 1) \div BlockUnits
    BY <1>1, DivMonotonic, FormatAssumption
<1> QED
    BY <1>2, <1>3, <1>4 DEF FirstBlock, LastBlock

LEMMA WriteType ==
    ASSUME TypeOK, NEW off \in 0 .. MaxSize - 1, NEW len \in 1 .. MaxSize - off,
           NEW buf \in [0 .. len - 1 -> Inputs],
           Write(off, len, buf) \/ WriteReadFails(off, len, buf)
    PROVE  TypeOK'
<1>1. off \in Nat /\ len \in Nat /\ off + len \in 0 .. MaxSize
    BY MaxSizeType
<1>2. logicalSize' \in 0 .. MaxSize
    BY <1>1 DEF TypeOK, Write, WriteReadFails
<1>3. DOMAIN pending' \subseteq Slot /\ pending' \in [DOMAIN pending' -> Payload]
    <2> DEFINE first == FirstBlock(off)
               last == LastBlock(off, len)
    <2>1. first \in Block /\ last \in Block /\ first <= last
        BY SpanType
    <2>2. CASE Write(off, len, buf)
        <3>1. FitsPending(last - first + 1) /\ pending' = PushWrites(first, last, off, buf)
            BY <2>2 DEF Write
        <3> QED
            BY <1>1, <2>1, <3>1, PushWritesIs
    <2>3. CASE WriteReadFails(off, len, buf)
        <3>1. first < last /\ FitsPending(last - first)
              /\ pending' = PushWrites(first, last - 1, off, buf)
            BY <2>3 DEF WriteReadFails
        <3>2. last - 1 \in Block /\ first <= last - 1 /\ last - 1 - first + 1 = last - first
            BY <2>1, <3>1, FormatAssumption DEF Block
        <3> QED
            BY <1>1, <2>1, <3>1, <3>2, PushWritesIs
    <2> QED
        BY <2>2, <2>3
<1>4. UNCHANGED <<storageVars, open, openLen, logicalToPhysical, pc, done>>
    BY DEF Write, WriteReadFails
<1> QED
    BY <1>2, <1>3, <1>4 DEF TypeOK, StorageTypeOK, storageVars

LEMMA TruncateType ==
    ASSUME TypeOK, NEW n \in 0 .. MaxSize, Truncate(n)
    PROVE  TypeOK'
<1> DEFINE keep == {s \in DOMAIN pending : pending[s].block < CeilBlocks(n)}
<1>1. keep \subseteq DOMAIN pending
    OBVIOUS
<1> HIDE DEF keep
<1>2. pending' = [s \in keep \cup {LastSlot + 1} |->
                     IF s \in keep THEN pending[s] ELSE TruncateRecord(n)]
    BY DEF Truncate, keep
<1>3. TruncateRecord(n) \in Payload
    BY ZeroTypes
<1>4. \A s \in keep : pending[s] \in Payload
    BY <1>1 DEF TypeOK
<1>5. LastSlot + 1 \in Slot
    BY LastSlotType, BoundsAssumption DEF Truncate, FitsPending, Slot
<1>6. DOMAIN pending' \subseteq Slot /\ pending' \in [DOMAIN pending' -> Payload]
    BY <1>1, <1>2, <1>3, <1>4, <1>5 DEF TypeOK
<1>7. logicalToPhysical' \in [Block -> 0 .. Len(file)]
    <2>1. Len(file) \in Nat
        BY DEF TypeOK, StorageTypeOK
    <2> QED
        BY <2>1 DEF Truncate, TypeOK
<1>8. UNCHANGED <<storageVars, open, openLen, pc, done>> /\ logicalSize' = n
    BY DEF Truncate
<1> QED
    BY <1>6, <1>7, <1>8 DEF TypeOK, StorageTypeOK, storageVars

-----------------------------------------------------------------------------
(* The storage.                                                            *)

LEMMA AppendIs ==
    ASSUME StorageTypeOK, NEW r \in Record, AppendSucceeds(r)
    PROVE  /\ StorageTypeOK'
           /\ Len(file') = Len(file) + 1
           /\ \A i \in 1 .. Len(file) : file'[i] = file[i]
           /\ file'[Len(file) + 1] = r
<1>1. file' = Append(file, r) /\ file \in Seq(Record) /\ synced' = synced /\ torn' = FALSE
    BY DEF AppendSucceeds, StorageTypeOK
<1>2. /\ file' \in Seq(Record) /\ Len(file') = Len(file) + 1 /\ Len(file) \in Nat
      /\ \A i \in 1 .. Len(file) : file'[i] = file[i]
      /\ file'[Len(file) + 1] = r
    BY <1>1
<1>3. intact' \in 0 .. Len(file')
    BY <1>2 DEF AppendSucceeds, StorageTypeOK
<1>4. synced' \in 0 .. Len(file')
    BY <1>1, <1>2 DEF StorageTypeOK
<1>5. StorageTypeOK'
    BY <1>1, <1>2, <1>3, <1>4 DEF StorageTypeOK
<1> QED
    BY <1>2, <1>5

LEMMA FramedType ==
    ASSUME StorageTypeOK
    PROVE  Framed \in Seq(Record) /\ Len(Framed) \in Nat /\ Len(Framed) >= Len(file)
<1> DEFINE k == Len(file) - intact + 1
           pad == [i \in 1 .. k |-> PadRecord]
           whole == SubSeq(file, 1, intact)
<1>1. file \in Seq(Record) /\ Len(file) \in Nat /\ intact \in 0 .. Len(file) /\ k \in Nat
    BY DEF StorageTypeOK
<1>2. PadRecord \in Record
    BY ZeroTypes
<1>3. pad \in Seq(Record) /\ Len(pad) = k
    BY <1>1, <1>2
<1>4. whole \in Seq(Record) /\ Len(whole) = intact
    BY <1>1
<1>5. whole \o pad \in Seq(Record) /\ Len(whole \o pad) = intact + k
    BY <1>1, <1>3, <1>4
<1>6. Framed = IF torn \/ intact < Len(file) THEN whole \o pad ELSE file
    BY DEF Framed
<1> HIDE DEF pad, whole
<1> QED
    BY <1>1, <1>5, <1>6

LEMMA PaddedType ==
    ASSUME StorageTypeOK,
           file' = Framed, intact' = Len(Framed), torn' = FALSE, synced' = synced
    PROVE  StorageTypeOK' /\ Len(file') >= Len(file) /\ Len(file') \in Nat
<1>1. file' \in Seq(Record) /\ Len(file') \in Nat /\ Len(file') >= Len(file)
    BY FramedType
<1>2. synced \in Nat /\ synced <= Len(file) /\ Len(file) \in Nat
    BY DEF StorageTypeOK
<1>3. synced' \in 0 .. Len(file')
    BY <1>1, <1>2
<1>4. intact' \in 0 .. Len(file')
    BY <1>1
<1> QED
    BY <1>1, <1>3, <1>4 DEF StorageTypeOK

LEMMA CrashType ==
    ASSUME StorageTypeOK, NEW w, StorageCrashes(w)
    PROVE  StorageTypeOK' /\ Len(file') <= Len(file)
<1>1. PICK n \in synced .. Len(file) :
          /\ file' = SubSeq(file, 1, n)
          /\ intact' = Smaller(intact, n)
          /\ torn' \in IF w \/ torn \/ n < Len(file) THEN BOOLEAN ELSE {FALSE}
          /\ synced' = synced
    BY DEF StorageCrashes
<1>2. file \in Seq(Record) /\ Len(file) \in Nat /\ synced \in 0 .. n /\ n \in 0 .. Len(file)
    BY DEF StorageTypeOK
<1>3. file' \in Seq(Record) /\ Len(file') = n
    BY <1>1, <1>2
<1>4. intact' \in 0 .. n
    BY <1>1, <1>2 DEF Smaller, StorageTypeOK
<1>5. torn' \in BOOLEAN
    BY <1>1
<1> QED
    BY <1>1, <1>2, <1>3, <1>4, <1>5 DEF StorageTypeOK

LEMMA NothingType == DOMAIN NothingPending = {} /\ NothingPending \in [{} -> Payload]
    BY DEF NothingPending

LEMMA SyncAppendType ==
    ASSUME TypeOK, SyncAppend
    PROVE  TypeOK'
<1>1. PICK s \in DOMAIN pending :
          /\ AppendSucceeds(Flagged(pending[s], FlagOf(s)))
          /\ logicalToPhysical' =
                 [b \in Block |-> IF pending[s].block = b THEN Len(file) + 1
                                  ELSE logicalToPhysical[b]]
          /\ \/ done' = s /\ UNCHANGED <<pending, pc>>
             \/ done' = 0 /\ pending' = NothingPending /\ pc' = "flushing"
    BY DEF SyncAppend
<1>2. Flagged(pending[s], FlagOf(s)) \in Record
    BY ZeroTypes DEF TypeOK, FlagOf
<1>3. StorageTypeOK' /\ Len(file') = Len(file) + 1 /\ Len(file) \in Nat
    BY <1>1, <1>2, AppendIs DEF TypeOK, StorageTypeOK
<1>4. logicalToPhysical' \in [Block -> 0 .. Len(file')]
    BY <1>1, <1>3 DEF TypeOK
<1>5. UNCHANGED <<open, openLen, logicalSize>>
    BY DEF SyncAppend
<1>6. DOMAIN pending' \subseteq Slot /\ pending' \in [DOMAIN pending' -> Payload]
    BY <1>1, NothingType DEF TypeOK
<1>7. done' \in 0 .. MaxPending /\ pc' \in {"idle", "appending", "flushing"}
    BY <1>1, BoundsAssumption DEF TypeOK, Slot
<1>8. openLen' \in 0 .. Len(file')
    BY <1>3, <1>5 DEF TypeOK
<1> QED
    BY <1>3, <1>4, <1>5, <1>6, <1>7, <1>8 DEF TypeOK

LEMMA OpenType ==
    ASSUME TypeOK, Open
    PROVE  TypeOK'
<1>1. Framed \in Seq(Record) /\ Len(Framed) \in Nat /\ Len(Framed) >= Len(file)
    BY FramedType DEF TypeOK
<1>2. file' = Framed /\ synced' = synced /\ torn' = FALSE /\ intact' = Len(Framed)
    BY DEF Open
<1>3. StorageTypeOK'
    BY <1>2, PaddedType DEF TypeOK
<1>4. Applied(Framed, Len(Framed)) \subseteq 1 .. Len(Framed)
    BY DEF Applied
<1>5. logicalToPhysical' \in [Block -> 0 .. Len(Framed)]
    BY <1>1, <1>4, MapOfType DEF Open, RecoveredMap
<1>6. \A i \in Applied(Framed, Len(Framed)) : Framed[i] \in Record
    BY <1>1, <1>4
<1>7. logicalSize' \in 0 .. MaxSize
    BY <1>6, SizeOfType DEF Open, RecoveredSize
<1>8. open' = TRUE /\ openLen' = Len(Framed) /\ UNCHANGED <<pending, pc, done>>
    BY DEF Open
<1> QED
    BY <1>1, <1>2, <1>3, <1>5, <1>7, <1>8 DEF TypeOK

LEMMA OpenFailsType ==
    ASSUME TypeOK, OpenFails
    PROVE  TypeOK'
<1>1. Framed \in Seq(Record) /\ Len(Framed) \in Nat /\ Len(Framed) >= Len(file)
    BY FramedType DEF TypeOK
<1>2. StorageTypeOK' /\ Len(file') >= Len(file) /\ Len(file') \in Nat
    <2>1. CASE UNCHANGED storageVars
        BY <2>1 DEF TypeOK, StorageTypeOK, storageVars
    <2>2. CASE /\ file' = Framed /\ intact' = Len(Framed) /\ torn' = FALSE
               /\ UNCHANGED synced
        BY <2>2, PaddedType DEF TypeOK
    <2> QED
        BY <2>1, <2>2 DEF OpenFails
<1>3. UNCHANGED <<open, openLen, pending, logicalToPhysical, logicalSize, pc, done>>
    BY DEF OpenFails, mapperVars
<1>4. openLen' \in 0 .. Len(file') /\ 0 .. Len(file) \subseteq 0 .. Len(file')
    BY <1>2, <1>3 DEF TypeOK, StorageTypeOK
<1>5. logicalToPhysical' \in [Block -> 0 .. Len(file')]
    BY <1>3, <1>4 DEF TypeOK
<1> QED
    BY <1>2, <1>3, <1>4, <1>5 DEF TypeOK

LEMMA ForgetType ==
    ASSUME StorageTypeOK', Forget
    PROVE  TypeOK'
<1>1. Len(file') \in Nat /\ 0 \in 0 .. Len(file')
    BY DEF StorageTypeOK
<1>2. Unmapped \in [Block -> 0 .. Len(file')]
    BY <1>1 DEF Unmapped
<1>3. DOMAIN pending' \subseteq Slot /\ pending' \in [DOMAIN pending' -> Payload]
    BY NothingType DEF Forget
<1>4. logicalSize' \in 0 .. MaxSize /\ done' \in 0 .. MaxPending /\ openLen' \in 0 .. Len(file')
    BY <1>1, MaxSizeType, BoundsAssumption DEF Forget
<1> QED
    BY <1>2, <1>3, <1>4 DEF Forget, TypeOK

(* Every step keeps the types.                                             *)
LEMMA TypeStep ==
    ASSUME TypeOK, [Next]_vars
    PROVE  TypeOK'
<1>1. CASE Open
    BY <1>1, OpenType
<1>2. CASE OpenFails
    BY <1>2, OpenFailsType
<1>3. CASE Writing
    BY <1>3, WriteType DEF Writing
<1>4. CASE Truncating
    BY <1>4, TruncateType DEF Truncating
<1>5. CASE SyncStart
    BY <1>5 DEF SyncStart, TypeOK, StorageTypeOK, storageVars
<1>6. CASE SyncAppend
    BY <1>6, SyncAppendType
<1>7. CASE SyncAppendFails
    <2>1. StorageTypeOK' /\ UNCHANGED file
        BY <1>7 DEF SyncAppendFails, AppendFailsClean, AppendFailsTorn, TypeOK,
              StorageTypeOK, storageVars
    <2>2. UNCHANGED <<open, openLen, pending, logicalToPhysical, logicalSize>>
          /\ pc' = "idle" /\ done' = 0
        BY <1>7 DEF SyncAppendFails
    <2>3. 0 \in 0 .. MaxPending
        BY BoundsAssumption
    <2> QED
        BY <2>1, <2>2, <2>3 DEF TypeOK
<1>8. CASE SyncFlush
    <2>1. StorageTypeOK' /\ UNCHANGED file
        BY <1>8 DEF SyncFlush, FsyncSucceeds, TypeOK, StorageTypeOK
    <2> QED
        BY <1>8, <2>1 DEF SyncFlush, TypeOK
<1>9. CASE SyncFlushFails
    BY <1>9 DEF SyncFlushFails, TypeOK, StorageTypeOK, storageVars
<1>10. CASE Close
    <2>1. StorageTypeOK'
        BY <1>10 DEF Close, TypeOK, StorageTypeOK, storageVars
    <2> QED
        BY <1>10, <2>1, ForgetType DEF Close
<1>11. CASE Crash
    <2>1. StorageTypeOK'
        BY <1>11, CrashType DEF Crash, TypeOK
    <2> QED
        BY <1>11, <2>1, ForgetType DEF Crash
<1>12. CASE UNCHANGED vars
    BY <1>12 DEF vars, storageVars, mapperVars, TypeOK, StorageTypeOK
<1> QED
    BY <1>1, <1>2, <1>3, <1>4, <1>5, <1>6, <1>7, <1>8, <1>9, <1>10, <1>11, <1>12
       DEF Next, SyncStep

LEMMA InitType == Init => TypeOK
<1> SUFFICES ASSUME Init PROVE TypeOK
    OBVIOUS
<1>1. file = <<>> /\ Len(file) = 0 /\ file \in Seq(Record)
    BY DEF Init, StorageInit
<1>2. StorageTypeOK
    <2>1. intact \in 0 .. Len(file) /\ synced \in 0 .. Len(file)
        BY <1>1 DEF Init, StorageInit
    <2>2. torn \in BOOLEAN
        BY DEF Init, StorageInit
    <2> QED
        BY <1>1, <2>1, <2>2 DEF StorageTypeOK
<1>3. logicalToPhysical \in [Block -> 0 .. Len(file)]
    BY <1>2 DEF Init, Unmapped, StorageTypeOK
<1>4. DOMAIN pending \subseteq Slot /\ pending \in [DOMAIN pending -> Payload]
    BY NothingType DEF Init
<1>5. logicalSize \in 0 .. MaxSize /\ done \in 0 .. MaxPending /\ openLen \in 0 .. Len(file)
    BY <1>2, MaxSizeType, BoundsAssumption DEF Init, StorageTypeOK
<1> QED
    BY <1>2, <1>3, <1>4, <1>5 DEF Init, TypeOK

(* The mapper's variables keep their types: mappings stay within the log,  *)
(* pending slots within their bound and sizes within the largest one.      *)
THEOREM TypeCorrect == Spec => []TypeOK
<1>1. Init => TypeOK
    BY InitType
<1>2. TypeOK /\ [Next]_vars => TypeOK'
    BY TypeStep
<1> QED
    BY <1>1, <1>2, PTL DEF Spec

-----------------------------------------------------------------------------
(* The session.                                                            *)

LEMMA CeilType == \A n \in 0 .. MaxSize : CeilBlocks(n) \in Int
    BY MaxSizeType, FormatAssumption DEF CeilBlocks

LEMMA InSessionType == TypeOK => InSession \subseteq 1 .. Len(file)
    BY DEF InSession

(* An append adds its record to the session's, and changes no other.       *)
LEMMA InSessionGrows ==
    ASSUME TypeOK, Len(file') = Len(file) + 1, openLen' = openLen,
           \A i \in 1 .. Len(file) : file'[i] = file[i]
    PROVE  InSession' = InSession \cup {Len(file) + 1}
<1>1. Len(file) \in Nat /\ openLen \in 0 .. Len(file)
    BY DEF TypeOK, StorageTypeOK
<1>2. \A i \in 1 .. openLen : AppliedUpTo(file', openLen, i) <=> AppliedUpTo(file, openLen, i)
    <2>1. \A i \in 1 .. openLen : file'[i] = file[i]
        BY <1>1
    <2> QED
        BY <1>1, <2>1, AppliedSame
<1>3. \A i \in 1 .. Len(file) :
          (i > openLen \/ AppliedUpTo(file', openLen, i))
              <=> (i > openLen \/ AppliedUpTo(file, openLen, i))
    BY <1>1, <1>2
<1>4. Len(file) + 1 > openLen /\ Len(file) + 1 \in 1 .. Len(file) + 1
    BY <1>1
<1>5. 1 .. Len(file) + 1 = (1 .. Len(file)) \cup {Len(file) + 1}
    BY <1>1
<1>6. InSession' = {i \in 1 .. Len(file) + 1 : i > openLen \/ AppliedUpTo(file', openLen, i)}
    BY DEF InSession
<1> QED
    BY <1>3, <1>4, <1>5, <1>6 DEF InSession

(* Only a truncate record cuts, and it is no record of a block.            *)
LEMMA CutsIs ==
    ASSUME NEW r, NEW b \in Block, Cuts(r, b)
    PROVE  IsTruncate(r) /\ r.block = Metadata /\ r.block \notin Block
    BY FormatAssumption DEF Cuts, IsTruncate, Block, Metadata

LEMMA IdleIs ==
    ASSUME TypeOK, SessionInv, Idle
    PROVE  open /\ pc = "idle" /\ done = 0 /\ Remaining = DOMAIN pending
<1>1. open /\ pc = "idle" /\ done = 0
    BY DEF Idle, SessionInv, SyncState
<1>2. \A s \in DOMAIN pending : s > 0
    BY DEF TypeOK, Slot
<1> QED
    BY <1>1, <1>2 DEF Remaining

LEMMA WriteSession ==
    ASSUME TypeOK, SessionInv, NEW off \in 0 .. MaxSize - 1, NEW len \in 1 .. MaxSize - off,
           NEW buf \in [0 .. len - 1 -> Inputs],
           Write(off, len, buf) \/ WriteReadFails(off, len, buf)
    PROVE  SessionInv'
<1>1. UNCHANGED <<file, open, openLen, logicalToPhysical, pc, done>>
    BY DEF Write, WriteReadFails, storageVars
<1>2. open /\ pc = "idle" /\ done = 0 /\ Remaining = DOMAIN pending
    BY IdleIs DEF Write, WriteReadFails
<1>3. /\ DOMAIN pending \subseteq DOMAIN pending' /\ DOMAIN pending' \subseteq Slot
      /\ DOMAIN pending' # {}
      /\ \A s \in DOMAIN pending : pending'[s] = pending[s]
      /\ \A s \in DOMAIN pending' \ DOMAIN pending :
             s > LastSlot /\ pending'[s].block \in Block /\ ~IsTruncate(pending'[s])
    <2> DEFINE first == FirstBlock(off)
               last == LastBlock(off, len)
    <2>1. first \in Block /\ last \in Block /\ first <= last
        BY SpanType
    <2>2. off \in Nat /\ len \in Nat
        BY MaxSizeType
    <2>3. CASE Write(off, len, buf)
        <3>1. FitsPending(last - first + 1) /\ pending' = PushWrites(first, last, off, buf)
            BY <2>3 DEF Write
        <3> QED
            BY <2>1, <2>2, <3>1, PushWritesIs
    <2>4. CASE WriteReadFails(off, len, buf)
        <3>1. first < last /\ FitsPending(last - first)
              /\ pending' = PushWrites(first, last - 1, off, buf)
            BY <2>4 DEF WriteReadFails
        <3>2. last - 1 \in Block /\ first <= last - 1 /\ last - 1 - first + 1 = last - first
            BY <2>1, <3>1, FormatAssumption DEF Block
        <3> QED
            BY <2>1, <2>2, <3>1, <3>2, PushWritesIs
    <2> QED
        BY <2>3, <2>4
<1>4. Remaining' = DOMAIN pending'
    <2>1. done' = 0 /\ \A s \in DOMAIN pending' : s > 0
        BY <1>1, <1>2, <1>3 DEF Slot
    <2> QED
        BY <2>1 DEF Remaining
<1>5. InSession' = InSession
    BY <1>1 DEF InSession
<1>6. \A b \in Block : (\E s \in DOMAIN pending' : Cuts(pending'[s], b))
                           <=> (\E s \in DOMAIN pending : Cuts(pending[s], b))
    BY <1>3, CutsIs
<1>7. PendingOrdered'
    <2> SUFFICES ASSUME NEW s \in DOMAIN pending', NEW t \in DOMAIN pending', s < t,
                        pending'[s].block \in Block,
                        Cuts(pending'[t], pending'[s].block)
                 PROVE  FALSE
        BY DEF PendingOrdered
    <2>1. t \in DOMAIN pending /\ pending'[t] = pending[t]
        BY <1>3, CutsIs
    <2>2. s \in DOMAIN pending /\ pending'[s] = pending[s]
        BY <1>3, <2>1, LastSlotType DEF Slot
    <2> QED
        BY <2>1, <2>2 DEF SessionInv, PendingOrdered
<1>8. SessionMap'
    <2> SUFFICES ASSUME NEW b \in Block, \A s \in DOMAIN pending' : pending'[s].block # b
                 PROVE  logicalToPhysical[b] =
                            IF \E s \in DOMAIN pending' : Cuts(pending'[s], b) THEN 0
                            ELSE LastOf(LiveWrites(file, InSession, b))
        BY <1>1, <1>4, <1>5 DEF SessionMap
    <2>1. \A s \in DOMAIN pending : pending[s].block # b
        BY <1>3
    <2>2. logicalToPhysical[b] =
              IF \E s \in DOMAIN pending : Cuts(pending[s], b) THEN 0
              ELSE LastOf(LiveWrites(file, InSession, b))
        BY <1>2, <2>1 DEF SessionInv, SessionMap
    <2> QED
        BY <1>6, <2>2
<1>9. CutIsUnmapped'
    BY <1>1, <1>3, <1>6 DEF SessionInv, CutIsUnmapped
<1>10. SessionChain'
    BY <1>1, <1>3 DEF SessionInv, SessionChain
<1>11. SyncState'
    BY <1>1, <1>2 DEF SyncState
<1> QED
    BY <1>7, <1>8, <1>9, <1>10, <1>11 DEF SessionInv

LEMMA TruncateSession ==
    ASSUME TypeOK, SessionInv, NEW n \in 0 .. MaxSize, Truncate(n)
    PROVE  SessionInv'
<1> DEFINE keep == {s \in DOMAIN pending : pending[s].block < CeilBlocks(n)}
           new == LastSlot + 1
           r == TruncateRecord(n)
<1>1. UNCHANGED <<file, open, openLen, pc, done>>
    BY DEF Truncate, storageVars
<1>2. open /\ pc = "idle" /\ done = 0 /\ Remaining = DOMAIN pending
    BY IdleIs DEF Truncate
<1>3. pending' = [s \in keep \cup {new} |-> IF s \in keep THEN pending[s] ELSE r]
    BY DEF Truncate
<1>4. keep \subseteq DOMAIN pending /\ new \notin DOMAIN pending /\ new > 0
      /\ \A s \in keep : s < new
    BY LastSlotType DEF TypeOK, Slot
<1>5. /\ DOMAIN pending' = keep \cup {new}
      /\ \A s \in keep : pending'[s] = pending[s]
      /\ pending'[new] = r
    BY <1>3, <1>4
<1>6. CeilBlocks(n) \in Int
    BY CeilType
<1>7. \A b \in Block : Cuts(r, b) <=> b >= CeilBlocks(n)
    BY <1>6 DEF Cuts, IsTruncate, TruncateRecord, NoSize, Block
<1>8. r.block = Metadata /\ Metadata \notin Block
    BY FormatAssumption DEF TruncateRecord, Metadata, Block
<1>9. \A s \in DOMAIN pending : pending[s].block \in Block \cup {Metadata}
    BY DEF TypeOK, Payload
<1>10. \A b \in Block : logicalToPhysical'[b] =
                            IF b >= CeilBlocks(n) THEN 0 ELSE logicalToPhysical[b]
    BY DEF Truncate
<1>11. \A s \in DOMAIN pending : pending[s].block \in Block =>
           (s \in keep <=> ~Cuts(r, pending[s].block))
    BY <1>6, <1>7 DEF Block
<1>12. \A s \in DOMAIN pending : pending[s].block = Metadata => s \in keep
    <2>1. n + BlockUnits - 1 \in Nat
        BY FormatAssumption, MaxSizeType
    <2>2. CeilBlocks(n) >= 0
        BY <2>1, FormatAssumption DEF CeilBlocks
    <2> QED
        BY <1>6, <2>2 DEF Metadata
<1> HIDE DEF keep, new, r
<1>13. Remaining' = DOMAIN pending'
    <2>1. done' = 0 /\ \A s \in DOMAIN pending' : s > 0
        BY <1>1, <1>2, <1>4, <1>5 DEF TypeOK, Slot
    <2> QED
        BY <2>1 DEF Remaining
<1>14. InSession' = InSession
    BY <1>1 DEF InSession
<1>15. PendingOrdered'
    <2> SUFFICES ASSUME NEW s \in DOMAIN pending', NEW t \in DOMAIN pending', s < t,
                        pending'[s].block \in Block
                 PROVE  ~Cuts(pending'[t], pending'[s].block)
        BY DEF PendingOrdered
    <2>1. s \in keep /\ pending'[s] = pending[s]
        BY <1>5, <1>8
    <2>2. CASE t = new
        BY <1>4, <1>5, <1>11, <2>1, <2>2
    <2>3. CASE t \in keep
        BY <1>4, <1>5, <2>1, <2>3 DEF SessionInv, PendingOrdered
    <2> QED
        BY <1>5, <2>2, <2>3
<1>16. ASSUME NEW b \in Block, ~Cuts(r, b)
       PROVE  /\ (\E s \in DOMAIN pending' : pending'[s].block = b)
                     <=> (\E s \in DOMAIN pending : pending[s].block = b)
              /\ (\E s \in DOMAIN pending' : Cuts(pending'[s], b))
                     <=> (\E s \in DOMAIN pending : Cuts(pending[s], b))
              /\ logicalToPhysical'[b] = logicalToPhysical[b]
    <2>1. \A s \in DOMAIN pending : pending[s].block = b => s \in keep
        BY <1>11, <1>16
    <2>2. \A s \in DOMAIN pending : Cuts(pending[s], b) => s \in keep
        BY <1>12, CutsIs
    <2>3. r.block # b
        BY <1>8
    <2> QED
        BY <1>4, <1>5, <1>7, <1>10, <1>16, <2>1, <2>2, <2>3
<1>17. ASSUME NEW b \in Block, Cuts(r, b)
       PROVE  /\ ~ \E s \in DOMAIN pending' : pending'[s].block = b
              /\ \E s \in DOMAIN pending' : Cuts(pending'[s], b)
              /\ logicalToPhysical'[b] = 0
    BY <1>4, <1>5, <1>7, <1>8, <1>10, <1>11, <1>17
<1>18. SessionMap'
    <2> SUFFICES ASSUME NEW b \in Block, ~ \E s \in DOMAIN pending' : pending'[s].block = b
                 PROVE  logicalToPhysical'[b] =
                            IF \E s \in DOMAIN pending' : Cuts(pending'[s], b) THEN 0
                            ELSE LastOf(LiveWrites(file, InSession, b))
        BY <1>1, <1>13, <1>14 DEF SessionMap
    <2>1. CASE Cuts(r, b)
        BY <1>17, <2>1
    <2>2. CASE ~Cuts(r, b)
        BY <1>2, <1>16, <2>2 DEF SessionInv, SessionMap
    <2> QED
        BY <2>1, <2>2
<1>19. CutIsUnmapped'
    <2> SUFFICES ASSUME NEW b \in Block, \E s \in DOMAIN pending' : Cuts(pending'[s], b),
                        \A s \in DOMAIN pending' : pending'[s].block # b
                 PROVE  logicalToPhysical'[b] = 0
        BY DEF CutIsUnmapped
    <2>1. CASE Cuts(r, b)
        BY <1>17, <2>1
    <2>2. CASE ~Cuts(r, b)
        BY <1>16, <2>2 DEF SessionInv, CutIsUnmapped
    <2> QED
        BY <2>1, <2>2
<1>20. SessionChain'
    BY <1>1, <1>5 DEF SessionInv, SessionChain
<1>21. SyncState'
    BY <1>1, <1>2 DEF SyncState
<1> QED
    BY <1>15, <1>18, <1>19, <1>20, <1>21 DEF SessionInv

LEMMA SyncAppendSession ==
    ASSUME TypeOK, SessionInv, SyncAppend
    PROVE  SessionInv'
<1>1. PICK s \in DOMAIN pending :
          /\ IsNext(s)
          /\ AppendSucceeds(Flagged(pending[s], FlagOf(s)))
          /\ logicalToPhysical' =
                 [b \in Block |-> IF pending[s].block = b THEN Len(file) + 1
                                  ELSE logicalToPhysical[b]]
          /\ \/ s # LastSlot /\ done' = s /\ UNCHANGED <<pending, pc>>
             \/ s = LastSlot /\ done' = 0 /\ pending' = NothingPending /\ pc' = "flushing"
    BY DEF SyncAppend
<1> DEFINE new == Len(file) + 1
           r == Flagged(pending[s], FlagOf(s))
<1>2. r \in Record
    BY ZeroTypes DEF TypeOK, FlagOf
<1>3. /\ Len(file') = Len(file) + 1 /\ Len(file) \in Nat
      /\ \A i \in 1 .. Len(file) : file'[i] = file[i]
      /\ file'[new] = r
    BY <1>1, <1>2, AppendIs DEF TypeOK, StorageTypeOK
<1>4. pc = "appending" /\ open /\ UNCHANGED <<open, openLen>>
    BY DEF SyncAppend, SessionInv, SyncState
<1>5. InSession' = InSession \cup {new} /\ InSession \subseteq 1 .. Len(file)
    BY <1>3, <1>4, InSessionGrows, InSessionType
<1>6. /\ r.block = pending[s].block
      /\ \A b \in Block : Cuts(r, b) <=> Cuts(pending[s], b)
      /\ r.flag = FlagOf(s)
    BY DEF Flagged, Cuts, IsTruncate
<1>7. DOMAIN pending \subseteq 1 .. MaxPending /\ done \in Nat /\ LastSlot \in Nat
      /\ \A t \in DOMAIN pending : t <= LastSlot
    BY LastSlotType, BoundsAssumption DEF TypeOK, Slot
<1> HIDE DEF new, r
<1>8. s \in Remaining /\ \A t \in Remaining : s <= t
    BY <1>1 DEF IsNext, Remaining
<1>9. Remaining' = Remaining \ {s} /\ \A t \in Remaining' : pending'[t] = pending[t]
    <2>1. CASE s # LastSlot /\ done' = s /\ UNCHANGED pending
        <3>1. Remaining' = {t \in DOMAIN pending : t > s}
            BY <2>1 DEF Remaining
        <3>2. \A t \in DOMAIN pending : t > s <=> (t > done /\ t # s)
            BY <1>7, <1>8 DEF Remaining
        <3> QED
            BY <2>1, <3>1, <3>2 DEF Remaining
    <2>2. CASE s = LastSlot /\ pending' = NothingPending
        <3>1. Remaining' = {}
            BY <2>2, NothingType DEF Remaining
        <3>2. \A t \in Remaining : t = s
            BY <1>7, <1>8, <2>2 DEF Remaining
        <3> QED
            BY <1>8, <3>1, <3>2
    <2> QED
        BY <1>1, <2>1, <2>2
<1>10. ASSUME NEW b \in Block
       PROVE  logicalToPhysical'[b] = IF pending[s].block = b THEN new
                                      ELSE logicalToPhysical[b]
    BY <1>1 DEF new
<1>11. pending' = pending \/ DOMAIN pending' = {}
    BY <1>1, NothingType
<1>12. PendingOrdered'
    BY <1>11 DEF SessionInv, PendingOrdered
<1>13. SessionMap'
    <2> SUFFICES ASSUME NEW b \in Block, ~ \E t \in Remaining' : pending'[t].block = b
                 PROVE  logicalToPhysical'[b] =
                            IF \E t \in Remaining' : Cuts(pending'[t], b) THEN 0
                            ELSE LastOf(LiveWrites(file', InSession', b))
        BY DEF SessionMap
    <2>1. CASE pending[s].block = b
        <3>1. ASSUME NEW t \in Remaining' PROVE ~Cuts(pending'[t], b)
            <4>1. t \in DOMAIN pending /\ s < t
                BY <1>7, <1>8, <1>9 DEF Remaining
            <4> QED
                BY <1>9, <2>1, <4>1 DEF SessionInv, PendingOrdered
        <3>2. LastOf(LiveWrites(file', InSession', b)) = new
            <4>1. file'[Len(file) + 1].block = b
                BY <1>3, <1>6, <2>1 DEF new
            <4>2. ASSUME NEW n \in Nat, n = Len(file)
                  PROVE  LastOf(LiveWrites(file', InSession \cup {n + 1}, b)) = n + 1
                BY <1>5, <4>1, <4>2, LiveAfterWrite
            <4> QED
                BY <1>3, <1>5, <4>2 DEF new
        <3> QED
            BY <1>10, <2>1, <3>1, <3>2
    <2>2. CASE Cuts(pending[s], b)
        <3>1. ~ \E t \in Remaining : pending[t].block = b
            BY <1>9, <2>2, CutsIs
        <3>2. logicalToPhysical[b] = 0
            BY <1>4, <1>8, <2>2, <3>1 DEF SessionInv, SessionMap
        <3>3. LastOf(LiveWrites(file', InSession', b)) = 0
            <4>1. Cuts(file'[Len(file) + 1], b)
                BY <1>3, <1>6, <2>2 DEF new
            <4>2. ASSUME NEW n \in Nat, n = Len(file)
                  PROVE  LastOf(LiveWrites(file', InSession \cup {n + 1}, b)) = 0
                BY <1>5, <4>1, <4>2, LiveAfterCut
            <4> QED
                BY <1>3, <1>5, <4>2 DEF new
        <3>4. pending[s].block # b
            BY <2>2, CutsIs
        <3> QED
            BY <1>10, <3>2, <3>3, <3>4
    <2>3. CASE pending[s].block # b /\ ~Cuts(pending[s], b)
        <3>1. LiveWrites(file', InSession', b) = LiveWrites(file, InSession, b)
            <4>1. \A i \in InSession : file'[i] = file[i]
                BY <1>3, <1>5
            <4>2. file'[new].block # b /\ ~Cuts(file'[new], b)
                BY <1>3, <1>6, <2>3
            <4>3. LiveWrites(file', InSession \cup {new}, b) = LiveWrites(file, InSession, b)
                BY <4>1, <4>2, LiveUnchanged
            <4> QED
                BY <1>5, <4>3
        <3>2. ~ \E t \in Remaining : pending[t].block = b
            BY <1>9, <2>3
        <3>3. (\E t \in Remaining' : Cuts(pending'[t], b))
                  <=> (\E t \in Remaining : Cuts(pending[t], b))
            BY <1>9, <2>3
        <3>4. logicalToPhysical[b] = IF \E t \in Remaining : Cuts(pending[t], b) THEN 0
                                     ELSE LastOf(LiveWrites(file, InSession, b))
            BY <1>4, <3>2 DEF SessionInv, SessionMap
        <3> QED
            BY <1>10, <2>3, <3>1, <3>3, <3>4
    <2> QED
        BY <2>1, <2>2, <2>3
<1>14. CutIsUnmapped'
    BY <1>10, <1>11 DEF SessionInv, CutIsUnmapped
<1>15. SessionChain'
    <2>1. \A i \in openLen + 1 .. Len(file') : file'[i].flag \in {Commit, Chained}
        <3>1. \A i \in openLen + 1 .. Len(file) : file'[i].flag \in {Commit, Chained}
            <4>1. openLen \in Nat /\ \A i \in openLen + 1 .. Len(file) : i \in 1 .. Len(file)
                BY DEF TypeOK
            <4> QED
                BY <1>3, <1>4, <4>1 DEF SessionInv, SessionChain
        <3>2. file'[new].flag \in {Commit, Chained}
            BY <1>3, <1>6 DEF FlagOf
        <3>3. \A i \in openLen + 1 .. Len(file') : i = new \/ i \in openLen + 1 .. Len(file)
            BY <1>3 DEF new, TypeOK
        <3> QED
            BY <3>1, <3>2, <3>3
    <2>2. DOMAIN pending' = {} => file'[Len(file')].flag = Commit
        BY <1>1, <1>3, <1>6 DEF FlagOf, new
    <2> QED
        BY <1>4, <2>1, <2>2 DEF SessionChain
<1>16. SyncState'
    <2>1. CASE s # LastSlot /\ done' = s /\ UNCHANGED <<pending, pc>>
        <3>1. LastSlot' = LastSlot /\ s < LastSlot
            BY <1>7, <2>1 DEF LastSlot
        <3> QED
            BY <1>4, <2>1, <3>1 DEF SyncState
    <2>2. CASE s = LastSlot /\ done' = 0 /\ pending' = NothingPending /\ pc' = "flushing"
        BY <1>4, <2>2, NothingType DEF SyncState
    <2> QED
        BY <1>1, <2>1, <2>2
<1> QED
    BY <1>12, <1>13, <1>14, <1>15, <1>16 DEF SessionInv

LEMMA SyncAppendFailsSession ==
    ASSUME TypeOK, SessionInv, SyncAppendFails
    PROVE  SessionInv'
<1>1. UNCHANGED <<file, open, openLen, pending, logicalToPhysical>>
      /\ pc' = "idle" /\ done' = 0
    BY DEF SyncAppendFails, AppendFailsClean, AppendFailsTorn, storageVars
<1>2. open
    BY DEF SyncAppendFails, SessionInv, SyncState
<1>3. Remaining' = DOMAIN pending /\ Remaining \subseteq DOMAIN pending
    <2>1. \A s \in DOMAIN pending : s > 0
        BY DEF TypeOK, Slot
    <2>2. Remaining' = {s \in DOMAIN pending : s > 0}
        BY <1>1 DEF Remaining
    <2> QED
        BY <2>1, <2>2 DEF Remaining
<1>4. InSession' = InSession
    BY <1>1 DEF InSession
<1>5. SessionMap'
    <2> SUFFICES ASSUME NEW b \in Block, ~ \E s \in DOMAIN pending : pending[s].block = b
                 PROVE  logicalToPhysical[b] =
                            IF \E s \in DOMAIN pending : Cuts(pending[s], b) THEN 0
                            ELSE LastOf(LiveWrites(file, InSession, b))
        BY <1>1, <1>3, <1>4 DEF SessionMap
    <2>1. CASE \E s \in DOMAIN pending : Cuts(pending[s], b)
        BY <2>1 DEF SessionInv, CutIsUnmapped
    <2>2. CASE ~ \E s \in DOMAIN pending : Cuts(pending[s], b)
        BY <1>2, <1>3, <2>2 DEF SessionInv, SessionMap
    <2> QED
        BY <2>1, <2>2
<1>6. PendingOrdered' /\ CutIsUnmapped' /\ SessionChain'
    BY <1>1 DEF SessionInv, PendingOrdered, CutIsUnmapped, SessionChain
<1>7. SyncState'
    BY <1>1, <1>2 DEF SyncState
<1> QED
    BY <1>5, <1>6, <1>7 DEF SessionInv

LEMMA OpenSession ==
    ASSUME TypeOK, SessionInv, Open
    PROVE  SessionInv'
<1>1. DOMAIN pending = {} /\ pc = "idle" /\ done = 0
    BY DEF Open, SessionInv, SyncState
<1>2. /\ file' = Framed /\ open' = TRUE /\ openLen' = Len(Framed)
      /\ logicalToPhysical' = RecoveredMap(Framed, Len(Framed))
      /\ UNCHANGED <<pending, pc, done>>
    BY DEF Open
<1>3. Len(Framed) \in Nat
    BY FramedType DEF TypeOK
<1>4. InSession' = Applied(Framed, Len(Framed))
    <2>1. \A i \in 1 .. Len(Framed) : ~(i > Len(Framed))
        BY <1>3
    <2> QED
        BY <1>2, <2>1 DEF InSession, Applied
<1>5. SessionMap'
    <2> SUFFICES ASSUME NEW b \in Block
                 PROVE  logicalToPhysical'[b] = LastOf(LiveWrites(file', InSession', b))
        BY <1>1, <1>2 DEF SessionMap, Remaining
    <2> QED
        BY <1>2, <1>4 DEF RecoveredMap, MapOf
<1>6. SessionChain'
    <2>1. ~(Len(Framed) > Len(Framed)) /\ \A i \in Len(Framed) + 1 .. Len(Framed) : FALSE
        BY <1>3
    <2> QED
        BY <1>2, <2>1 DEF SessionChain
<1>7. PendingOrdered' /\ CutIsUnmapped' /\ SyncState'
    BY <1>1, <1>2 DEF PendingOrdered, CutIsUnmapped, SyncState
<1> QED
    BY <1>5, <1>6, <1>7 DEF SessionInv

LEMMA ClosedSession ==
    ASSUME ~open', DOMAIN pending' = {}, pc' = "idle", done' = 0
    PROVE  SessionInv'
    BY DEF SessionInv, PendingOrdered, SessionMap, CutIsUnmapped, SessionChain, SyncState

(* A step that leaves the log, the pending records and the mapping alone.  *)
LEMMA QuietSession ==
    ASSUME TypeOK, SessionInv, SyncState',
           UNCHANGED <<file, open, openLen, pending, logicalToPhysical, done>>
    PROVE  SessionInv'
    BY DEF SessionInv, PendingOrdered, SessionMap, CutIsUnmapped, SessionChain,
           Remaining, InSession

LEMMA SessionStep ==
    ASSUME TypeOK, SessionInv, [Next]_vars
    PROVE  SessionInv'
<1>1. CASE Open
    BY <1>1, OpenSession
<1>2. CASE OpenFails
    <2>1. ~open /\ UNCHANGED <<open, pending, pc, done>>
        BY <1>2 DEF OpenFails, mapperVars
    <2>2. DOMAIN pending = {} /\ pc = "idle" /\ done = 0
        BY <2>1 DEF SessionInv, SyncState
    <2> QED
        BY <2>1, <2>2, ClosedSession
<1>3. CASE Writing
    BY <1>3, WriteSession DEF Writing
<1>4. CASE Truncating
    BY <1>4, TruncateSession DEF Truncating
<1>5. CASE SyncStart
    <2>1. open /\ pc = "idle" /\ done = 0
        BY <1>5, IdleIs DEF SyncStart
    <2>2. UNCHANGED <<file, open, openLen, pending, logicalToPhysical, done>>
        BY <1>5 DEF SyncStart, storageVars
    <2>3. pc' = "appending" => DOMAIN pending # {} /\ 0 < LastSlot
        BY <1>5, LastSlotType DEF SyncStart, TypeOK, Slot
    <2>4. SyncState'
        BY <1>5, <2>1, <2>2, <2>3 DEF SyncStart, SyncState, LastSlot
    <2> QED
        BY <2>2, <2>4, QuietSession
<1>6. CASE SyncAppend
    BY <1>6, SyncAppendSession
<1>7. CASE SyncAppendFails
    BY <1>7, SyncAppendFailsSession
<1>8. CASE SyncFlush \/ SyncFlushFails
    <2>1. UNCHANGED <<file, open, openLen, pending, logicalToPhysical, done>> /\ pc' = "idle"
        BY <1>8 DEF SyncFlush, SyncFlushFails, FsyncSucceeds, storageVars
    <2>2. SyncState'
        BY <1>8, <2>1 DEF SyncFlush, SyncFlushFails, SessionInv, SyncState
    <2> QED
        BY <2>1, <2>2, QuietSession
<1>9. CASE Close \/ Crash
    <2>1. ~open' /\ DOMAIN pending' = {} /\ pc' = "idle" /\ done' = 0
        BY <1>9, NothingType DEF Close, Crash, Forget
    <2> QED
        BY <2>1, ClosedSession
<1>10. CASE UNCHANGED vars
    <2>1. UNCHANGED <<file, open, openLen, pending, logicalToPhysical, done, pc>>
        BY <1>10 DEF vars, storageVars, mapperVars
    <2>2. SyncState'
        BY <2>1 DEF SessionInv, SyncState, LastSlot
    <2> QED
        BY <2>1, <2>2, QuietSession
<1> QED
    BY <1>1, <1>2, <1>3, <1>4, <1>5, <1>6, <1>7, <1>8, <1>9, <1>10 DEF Next, SyncStep

LEMMA InitSession == Init => SessionInv
<1> SUFFICES ASSUME Init PROVE SessionInv
    OBVIOUS
<1>1. ~open /\ DOMAIN pending = {} /\ pc = "idle" /\ done = 0
    BY NothingType DEF Init
<1> QED
    BY <1>1 DEF SessionInv, PendingOrdered, SessionMap, CutIsUnmapped, SessionChain, SyncState

(* At every moment of a session - between the appends of a Sync, after a   *)
(* Sync that failed half way, after writes and truncations on top of it -  *)
(* the mapping is the one the session's log and its remaining pending      *)
(* records call for.  No assumption is made on how earlier sessions ended  *)
(* or on what was done after a failed append.                              *)
THEOREM SessionCorrect == Spec => []SessionInv
<1>1. Init => TypeOK /\ SessionInv
    BY InitType, InitSession
<1>2. TypeOK /\ SessionInv /\ [Next]_vars => (TypeOK /\ SessionInv)'
    BY TypeStep, SessionStep
<1> QED
    BY <1>1, <1>2, PTL DEF Spec

-----------------------------------------------------------------------------
(* Half way through a Sync.                                                *)

(* The newest record of a block that this Sync has appended is the one     *)
(* that is mapped.                                                         *)
Newest(s) == \A t \in DOMAIN pending :
                 s < t /\ t <= done => pending[t].block # pending[s].block

AppendedIsMapped ==
    pc = "appending" => \A s \in DOMAIN pending :
        s <= done /\ pending[s].block \in Block /\ Newest(s) =>
            /\ logicalToPhysical[pending[s].block] \in 1 .. Len(file)
            /\ file[logicalToPhysical[pending[s].block]].data = pending[s].data

(* What an iteration of Sync's loop does.                                  *)
LEMMA SyncAppendIs ==
    ASSUME TypeOK, SessionInv, SyncAppend
    PROVE  \E s \in DOMAIN pending :
               /\ s > done /\ \A t \in DOMAIN pending : t > done => s <= t
               /\ Len(file') = Len(file) + 1 /\ Len(file) \in Nat
               /\ \A i \in 1 .. Len(file) : file'[i] = file[i]
               /\ file'[Len(file) + 1] = Flagged(pending[s], FlagOf(s))
               /\ logicalToPhysical' =
                      [b \in Block |-> IF pending[s].block = b THEN Len(file) + 1
                                       ELSE logicalToPhysical[b]]
               /\ \/ s # LastSlot /\ done' = s /\ UNCHANGED <<pending, pc>>
                  \/ s = LastSlot /\ pending' = NothingPending /\ pc' = "flushing"
<1>1. PICK s \in DOMAIN pending :
          /\ IsNext(s)
          /\ AppendSucceeds(Flagged(pending[s], FlagOf(s)))
          /\ logicalToPhysical' =
                 [b \in Block |-> IF pending[s].block = b THEN Len(file) + 1
                                  ELSE logicalToPhysical[b]]
          /\ \/ s # LastSlot /\ done' = s /\ UNCHANGED <<pending, pc>>
             \/ s = LastSlot /\ pending' = NothingPending /\ pc' = "flushing"
    BY DEF SyncAppend
<1>2. Flagged(pending[s], FlagOf(s)) \in Record
    BY ZeroTypes DEF TypeOK, FlagOf
<1>3. /\ Len(file') = Len(file) + 1 /\ Len(file) \in Nat
      /\ \A i \in 1 .. Len(file) : file'[i] = file[i]
      /\ file'[Len(file) + 1] = Flagged(pending[s], FlagOf(s))
    BY <1>1, <1>2, AppendIs DEF TypeOK, StorageTypeOK
<1> QED
    BY <1>1, <1>3 DEF IsNext

LEMMA SlotType ==
    ASSUME TypeOK
    PROVE  /\ \A s \in DOMAIN pending : s \in Nat /\ s > 0
           /\ done \in Nat
    BY BoundsAssumption DEF TypeOK, Slot

LEMMA AppendedStep ==
    ASSUME TypeOK, SessionInv, AppendedIsMapped, [Next]_vars
    PROVE  AppendedIsMapped'
<1>1. CASE SyncAppend
    <2>1. PICK s \in DOMAIN pending :
               /\ s > done /\ \A t \in DOMAIN pending : t > done => s <= t
               /\ Len(file') = Len(file) + 1 /\ Len(file) \in Nat
               /\ \A i \in 1 .. Len(file) : file'[i] = file[i]
               /\ file'[Len(file) + 1] = Flagged(pending[s], FlagOf(s))
               /\ logicalToPhysical' =
                      [b \in Block |-> IF pending[s].block = b THEN Len(file) + 1
                                       ELSE logicalToPhysical[b]]
               /\ \/ s # LastSlot /\ done' = s /\ UNCHANGED <<pending, pc>>
                  \/ s = LastSlot /\ pending' = NothingPending /\ pc' = "flushing"
        BY <1>1, SyncAppendIs
    <2> SUFFICES ASSUME pc' = "appending", NEW t \in DOMAIN pending',
                        t <= done', pending'[t].block \in Block, Newest(t)'
                 PROVE  /\ logicalToPhysical'[pending'[t].block] \in 1 .. Len(file')
                        /\ file'[logicalToPhysical'[pending'[t].block]].data = pending'[t].data
        BY DEF AppendedIsMapped
    <2>2. done' = s /\ UNCHANGED pending /\ pc = "appending"
        BY <1>1, <2>1 DEF SyncAppend
    <2> DEFINE b == pending[t].block
    <2>3. b \in Block /\ t \in DOMAIN pending
        BY <2>2
    <2>4. logicalToPhysical'[b] = IF pending[s].block = b THEN Len(file) + 1
                                  ELSE logicalToPhysical[b]
        BY <2>1, <2>3
    <2>5. CASE t = s
        <3>1. file'[Len(file) + 1].data = pending[s].data
            BY <2>1 DEF Flagged
        <3> QED
            BY <2>1, <2>2, <2>4, <2>5, <3>1
    <2>6. CASE t # s
        <3>1. t < s /\ t <= done
            BY <2>1, <2>2, <2>3, <2>6, SlotType
        <3>2. pending[s].block # b /\ Newest(t)
            BY <2>1, <2>2, <3>1, SlotType DEF Newest
        <3>3. /\ logicalToPhysical[b] \in 1 .. Len(file)
              /\ file[logicalToPhysical[b]].data = pending[t].data
            BY <2>2, <2>3, <3>1, <3>2 DEF AppendedIsMapped
        <3> QED
            BY <2>1, <2>2, <2>4, <3>2, <3>3
    <2> QED
        BY <2>5, <2>6
<1>2. CASE SyncStart
    <2>1. done' = done /\ pending' = pending /\ done = 0
        BY <1>2, IdleIs DEF SyncStart
    <2> QED
        BY <2>1, SlotType DEF AppendedIsMapped
<1>3. CASE pc' # "appending"
    BY <1>3 DEF AppendedIsMapped
<1>4. CASE UNCHANGED <<file, logicalToPhysical, pending, done, pc>>
    BY <1>4 DEF AppendedIsMapped, Newest
<1>5. Open => pc' # "appending"
    BY DEF Open, SessionInv, SyncState
<1>6. OpenFails => pc' # "appending"
    BY DEF OpenFails, mapperVars, SessionInv, SyncState
<1>7. Writing \/ Truncating => pc' # "appending"
    BY DEF Writing, Truncating, Write, WriteReadFails, Truncate, Idle
<1>8. SyncAppendFails \/ SyncFlush \/ SyncFlushFails \/ Close \/ Crash => pc' # "appending"
    BY DEF SyncAppendFails, SyncFlush, SyncFlushFails, Close, Crash, Forget
<1>9. UNCHANGED vars => UNCHANGED <<file, logicalToPhysical, pending, done, pc>>
    BY DEF vars, storageVars, mapperVars
<1> QED
    BY <1>1, <1>2, <1>3, <1>4, <1>5, <1>6, <1>7, <1>8, <1>9 DEF Next, SyncStep

(* A block's newest pending record.                                        *)
LEMMA LastWriter ==
    ASSUME TypeOK, NEW b \in Block, PendingWriters(b) # {}
    PROVE  /\ LastOf(PendingWriters(b)) \in PendingWriters(b)
           /\ \A t \in PendingWriters(b) : t <= LastOf(PendingWriters(b))
<1> DEFINE W == PendingWriters(b)
<1>1. MaxPending \in Nat /\ W \subseteq 0 .. MaxPending /\ 0 \notin W
    BY BoundsAssumption DEF TypeOK, Slot, PendingWriters
<1> HIDE DEF W
<1>2. LastOf(W) \in W \cup {0} /\ \A s \in W : s <= LastOf(W)
    BY <1>1, LastOfBound
<1>3. PICK s \in W : TRUE
    BY DEF W
<1>4. LastOf(W) # 0
    BY <1>1, <1>2, <1>3
<1> QED
    BY <1>2, <1>4 DEF W

LEMMA SyncAppendKeeps ==
    ASSUME TypeOK, SessionInv, AppendedIsMapped, SyncAppend, NEW b \in Block
    PROVE  CurrentBlock(b)' = CurrentBlock(b)
<1>1. PICK s \in DOMAIN pending :
           /\ s > done /\ \A t \in DOMAIN pending : t > done => s <= t
           /\ Len(file') = Len(file) + 1 /\ Len(file) \in Nat
           /\ \A i \in 1 .. Len(file) : file'[i] = file[i]
           /\ file'[Len(file) + 1] = Flagged(pending[s], FlagOf(s))
           /\ logicalToPhysical' =
                  [c \in Block |-> IF pending[s].block = c THEN Len(file) + 1
                                   ELSE logicalToPhysical[c]]
           /\ \/ s # LastSlot /\ done' = s /\ UNCHANGED <<pending, pc>>
              \/ s = LastSlot /\ pending' = NothingPending /\ pc' = "flushing"
    BY SyncAppendIs
<1>2. logicalToPhysical[b] \in 0 .. Len(file)
    BY DEF TypeOK
<1>3. CASE PendingWriters(b) = {}
    <2>1. pending[s].block # b
        BY <1>3 DEF PendingWriters
    <2>2. logicalToPhysical'[b] = logicalToPhysical[b]
        BY <1>1, <2>1
    <2>3. BlockAt(file', logicalToPhysical[b]) = BlockAt(file, logicalToPhysical[b])
        BY <1>1, <1>2, BlockAtSame
    <2>4. PendingWriters(b)' = {}
        BY <1>1, <1>3, NothingType DEF PendingWriters
    <2> QED
        BY <1>3, <2>2, <2>3, <2>4 DEF CurrentBlock
<1>4. CASE PendingWriters(b) # {} /\ UNCHANGED pending
    <2>1. PendingWriters(b)' = PendingWriters(b)
        BY <1>4 DEF PendingWriters
    <2> QED
        BY <1>4, <2>1 DEF CurrentBlock
<1>5. CASE PendingWriters(b) # {} /\ s = LastSlot /\ pending' = NothingPending
    <2> DEFINE w == LastOf(PendingWriters(b))
    <2>1. w \in PendingWriters(b) /\ \A t \in PendingWriters(b) : t <= w
        BY <1>5, LastWriter
    <2> HIDE DEF w
    <2>2. w \in DOMAIN pending /\ pending[w].block = b
        BY <2>1 DEF PendingWriters
    <2>3. w <= s
        BY <1>5, <2>2, LastSlotType
    <2>4. CurrentBlock(b)' = BlockAt(file', logicalToPhysical'[b])
        BY <1>5, NothingType DEF CurrentBlock, PendingWriters
    <2>5. CurrentBlock(b) = pending[w].data
        BY <1>5 DEF CurrentBlock, w
    <2>6. logicalToPhysical'[b] = IF pending[s].block = b THEN Len(file) + 1
                                  ELSE logicalToPhysical[b]
        BY <1>1
    <2>7. CASE w = s
        <3>1. logicalToPhysical'[b] = Len(file) + 1 /\ Len(file) + 1 # 0
            BY <1>1, <2>2, <2>6, <2>7
        <3>2. file'[Len(file) + 1].data = pending[w].data
            BY <1>1, <2>7 DEF Flagged
        <3> QED
            BY <2>4, <2>5, <3>1, <3>2 DEF BlockAt
    <2>8. CASE w # s
        <3>1. w < s /\ w <= done
            BY <1>1, <2>2, <2>3, <2>8, SlotType
        <3>2. pending[s].block # b
            BY <2>1, <3>1, SlotType DEF PendingWriters
        <3>3. Newest(w)
            BY <2>1, <2>2, SlotType DEF Newest, PendingWriters
        <3>4. pc = "appending"
            BY DEF SyncAppend
        <3>5. /\ logicalToPhysical[b] \in 1 .. Len(file)
              /\ file[logicalToPhysical[b]].data = pending[w].data
            BY <2>2, <3>1, <3>3, <3>4 DEF AppendedIsMapped
        <3>6. BlockAt(file', logicalToPhysical[b]) = pending[w].data
            BY <1>1, <3>5 DEF BlockAt
        <3> QED
            BY <2>4, <2>5, <2>6, <3>2, <3>6
    <2> QED
        BY <2>7, <2>8
<1> QED
    BY <1>1, <1>3, <1>4, <1>5

(* A Sync moves blocks from pending_records_ to the log and the mapping,   *)
(* record by record, and no reader sees it: also when it fails half way,   *)
(* on top of earlier Syncs that did.                                       *)
THEOREM SyncIsUnseen == Spec => SyncKeepsContents
<1>1. Init => TypeOK /\ SessionInv /\ AppendedIsMapped
    BY InitType, InitSession DEF Init, AppendedIsMapped
<1>2. TypeOK /\ SessionInv /\ AppendedIsMapped /\ [Next]_vars
          => (TypeOK /\ SessionInv /\ AppendedIsMapped)'
    BY TypeStep, SessionStep, AppendedStep
<1>3. TypeOK /\ SessionInv /\ AppendedIsMapped /\ [Next]_vars
          => [pc # "idle" /\ open' =>
                  \A b \in Block : CurrentBlock(b)' = CurrentBlock(b)]_vars
    <2> SUFFICES ASSUME TypeOK, SessionInv, AppendedIsMapped, Next, pc # "idle", open',
                        NEW b \in Block
                 PROVE  CurrentBlock(b)' = CurrentBlock(b)
        OBVIOUS
    <2>1. open
        BY DEF SessionInv, SyncState
    <2>2. CASE SyncAppend
        BY <2>2, SyncAppendKeeps
    <2>3. CASE SyncAppendFails \/ SyncFlush \/ SyncFlushFails
        <3>1. UNCHANGED <<file, pending, logicalToPhysical>>
            BY <2>3 DEF SyncAppendFails, SyncFlush, SyncFlushFails, FsyncSucceeds,
                        AppendFailsClean, AppendFailsTorn, storageVars
        <3> QED
            BY <3>1 DEF CurrentBlock, PendingWriters
    <2>4. ~Open /\ ~OpenFails /\ ~Close /\ ~Crash
        BY <2>1 DEF Open, OpenFails, Close, Crash, Forget
    <2>5. ~Writing /\ ~Truncating /\ ~SyncStart
        BY DEF Writing, Write, WriteReadFails, Truncating, Truncate, SyncStart, Idle
    <2> QED
        BY <2>2, <2>3, <2>4, <2>5 DEF Next, SyncStep
<1> QED
    BY <1>1, <1>2, <1>3, PTL DEF Spec, SyncKeepsContents

-----------------------------------------------------------------------------
(* The log a session leaves.                                               *)

(* When no session syncs behind a torn record, all records start on the    *)
(* boundary; when none syncs behind an unfinished chain, a session that    *)
(* appended found a log that ends otherwise.                               *)
LogWhole ==
    /\ intact = Len(file)
    /\ pc = "appending" => ~torn
    /\ open /\ (pc = "appending" \/ Len(file) > openLen) => ~EndsChained(file, openLen)

LEMMA LogWholeStep ==
    ASSUME AppendAfterChain = FALSE, AppendAfterTear = FALSE,
           TypeOK, SessionInv, LogWhole, [Next]_vars
    PROVE  LogWhole'
<1>1. Len(file) \in Nat /\ openLen \in 0 .. Len(file)
    BY DEF TypeOK, StorageTypeOK
<1>2. CASE Open
    <2>1. Len(Framed) \in Nat
        BY FramedType DEF TypeOK
    <2>2. pc' = "idle"
        BY <1>2 DEF Open, SessionInv, SyncState
    <2>3. file' = Framed /\ intact' = Len(Framed) /\ openLen' = Len(Framed)
        BY <1>2 DEF Open
    <2> QED
        BY <2>1, <2>2, <2>3 DEF LogWhole
<1>3. CASE OpenFails
    <2>1. pc' = "idle" /\ ~open' /\ intact' = Len(file')
        BY <1>3 DEF OpenFails, mapperVars, storageVars, SessionInv, SyncState, LogWhole
    <2> QED
        BY <2>1 DEF LogWhole
<1>4. CASE Writing \/ Truncating
    <2>1. UNCHANGED <<storageVars, open, openLen, pc>>
        BY <1>4 DEF Writing, Write, WriteReadFails, Truncating, Truncate
    <2> QED
        BY <2>1 DEF LogWhole, storageVars, EndsChained
<1>5. CASE SyncStart
    <2>1. UNCHANGED <<file, intact, torn, synced, open, openLen>>
        BY <1>5 DEF SyncStart, storageVars
    <2>2. pc' = "appending" => ~torn /\ ~EndsChained(file, openLen)
        BY <1>5 DEF SyncStart, MayAppend
    <2>3. pc = "idle"
        BY <1>5 DEF SyncStart, Idle
    <2> QED
        BY <2>1, <2>2, <2>3 DEF LogWhole, EndsChained
<1>6. CASE SyncAppend
    <2>1. PICK s \in DOMAIN pending : AppendSucceeds(Flagged(pending[s], FlagOf(s)))
        BY <1>6 DEF SyncAppend
    <2>2. Flagged(pending[s], FlagOf(s)) \in Record
        BY ZeroTypes DEF TypeOK, FlagOf
    <2>3. Len(file') = Len(file) + 1 /\ \A i \in 1 .. Len(file) : file'[i] = file[i]
        BY <2>1, <2>2, AppendIs DEF TypeOK
    <2>4. intact' = Len(file') /\ ~torn'
        BY <1>6, <2>1, <2>3 DEF SyncAppend, AppendSucceeds, LogWhole
    <2>5. open /\ pc = "appending" /\ UNCHANGED <<open, openLen>>
        BY <1>6 DEF SyncAppend, SessionInv, SyncState
    <2>6. ~EndsChained(file, openLen)
        BY <2>5 DEF LogWhole
    <2>7. openLen > 0 => file'[openLen] = file[openLen]
        BY <1>1, <2>3
    <2>8. ~EndsChained(file', openLen')
        BY <2>5, <2>6, <2>7 DEF EndsChained
    <2> QED
        BY <2>4, <2>8 DEF LogWhole
<1>7. CASE SyncAppendFails
    <2>1. UNCHANGED <<file, intact, open, openLen>> /\ pc' = "idle" /\ pc = "appending"
        BY <1>7 DEF SyncAppendFails, AppendFailsClean, AppendFailsTorn, storageVars
    <2> QED
        BY <2>1 DEF LogWhole, EndsChained
<1>8. CASE SyncFlush \/ SyncFlushFails
    <2>1. UNCHANGED <<file, intact, torn, open, openLen>> /\ pc' = "idle"
        BY <1>8 DEF SyncFlush, SyncFlushFails, FsyncSucceeds, storageVars
    <2> QED
        BY <2>1 DEF LogWhole, EndsChained
<1>9. CASE Close
    <2>1. UNCHANGED <<file, intact>> /\ pc' = "idle" /\ ~open'
        BY <1>9 DEF Close, Forget, storageVars
    <2> QED
        BY <2>1 DEF LogWhole
<1>10. CASE Crash
    <2>1. PICK n \in synced .. Len(file) :
              file' = SubSeq(file, 1, n) /\ intact' = Smaller(intact, n)
        BY <1>10 DEF Crash, StorageCrashes
    <2>2. n \in 0 .. Len(file) /\ file \in Seq(Record)
        BY <1>1 DEF TypeOK, StorageTypeOK
    <2>3. Len(file') = n
        BY <2>1, <2>2
    <2>4. intact' = n
        BY <1>1, <2>1, <2>2 DEF Smaller, LogWhole
    <2>5. pc' = "idle" /\ ~open'
        BY <1>10 DEF Crash, Forget
    <2> QED
        BY <2>3, <2>4, <2>5 DEF LogWhole
<1>11. CASE UNCHANGED vars
    BY <1>11 DEF vars, storageVars, mapperVars, LogWhole, EndsChained
<1> QED
    BY <1>2, <1>3, <1>4, <1>5, <1>6, <1>7, <1>8, <1>9, <1>10, <1>11 DEF Next, SyncStep

LEMMA InitWhole == Init => LogWhole
<1> SUFFICES ASSUME Init PROVE LogWhole
    OBVIOUS
<1>1. intact = Len(file) /\ pc = "idle" /\ ~open
    BY DEF Init, StorageInit
<1> QED
    BY <1>1 DEF LogWhole

(* A whole log with a torn record behind it is read as if the torn record  *)
(* were not there.                                                         *)
LEMMA FramedIs ==
    ASSUME TypeOK, intact = Len(file)
    PROVE  /\ Len(Framed) \in Nat /\ Len(file) \in Nat
           /\ \A i \in 1 .. Len(file) : Framed[i] = file[i]
           /\ \/ Len(Framed) = Len(file)
              \/ Len(Framed) = Len(file) + 1 /\ Framed[Len(file) + 1].flag = Aborted
<1> DEFINE pad == [i \in 1 .. Len(file) - intact + 1 |-> PadRecord]
           whole == SubSeq(file, 1, intact)
<1>1. file \in Seq(Record) /\ Len(file) \in Nat /\ intact = Len(file)
    BY DEF TypeOK, StorageTypeOK
<1>2. CASE ~torn
    <2>1. ~(intact < Len(file))
        BY <1>1
    <2>2. Framed = file
        BY <1>2, <2>1 DEF Framed
    <2> QED
        BY <1>1, <2>2
<1>3. CASE torn
    <2>1. Len(file) - intact + 1 = 1
        BY <1>1
    <2>2. pad \in Seq(Record) /\ Len(pad) = 1 /\ pad[1] = PadRecord
        BY <2>1, ZeroTypes
    <2>3. whole \in Seq(Record) /\ Len(whole) = Len(file)
          /\ \A i \in 1 .. Len(file) : whole[i] = file[i]
        BY <1>1
    <2>4. Framed = whole \o pad
        BY <1>3 DEF Framed
    <2> HIDE DEF pad, whole
    <2>5. Len(whole \o pad) = Len(file) + 1
          /\ (\A i \in 1 .. Len(file) : (whole \o pad)[i] = file[i])
          /\ (whole \o pad)[Len(file) + 1] = PadRecord
        <3>1. \A i \in 1 .. Len(file) + 1 :
                  (whole \o pad)[i] = IF i <= Len(file) THEN whole[i] ELSE pad[i - Len(file)]
            <4>1. \A i \in 1 .. Len(whole) + Len(pad) :
                      (whole \o pad)[i] = IF i <= Len(whole) THEN whole[i] ELSE pad[i - Len(whole)]
                BY ONLY <2>2, <2>3, ConcatProperties
            <4> QED
                BY ONLY <2>2, <2>3, <4>1
        <3>2. Len(whole \o pad) = Len(file) + 1
            <4>1. Len(whole \o pad) = Len(whole) + Len(pad)
                BY ONLY <2>2, <2>3, ConcatProperties
            <4> QED
                BY ONLY <2>2, <2>3, <4>1
        <3>3. \A i \in 1 .. Len(file) : (whole \o pad)[i] = file[i]
            BY <1>1, <2>3, <3>1
        <3>4. (whole \o pad)[Len(file) + 1] = PadRecord
            <4> DEFINE k == Len(file) + 1
            <4>1. k \in 1 .. Len(file) + 1 /\ ~(k <= Len(file)) /\ k - Len(file) = 1
                BY <1>1
            <4> HIDE DEF k
            <4>2. (whole \o pad)[k] = pad[k - Len(file)]
                BY <3>1, <4>1
            <4> QED
                BY <2>2, <4>1, <4>2 DEF k
        <3> QED
            BY <3>2, <3>3, <3>4
    <2>6. PadRecord.flag = Aborted
        BY DEF PadRecord, Flagged
    <2> QED
        BY <1>1, <2>4, <2>5, <2>6
<1> QED
    BY <1>2, <1>3

LEMMA FramedApplies ==
    ASSUME TypeOK, intact = Len(file)
    PROVE  Applied(Framed, Len(Framed)) = Applied(file, Len(file))
<1> DEFINE n == Len(file)
           log == Framed
<1>1. /\ Len(log) \in Nat /\ n \in Nat /\ \A i \in 1 .. n : log[i] = file[i]
      /\ Len(log) = n \/ (Len(log) = n + 1 /\ log[n + 1].flag = Aborted)
    BY FramedIs
<1> HIDE DEF n, log
<1>2. \A i \in 1 .. n : AppliedUpTo(log, n, i) <=> AppliedUpTo(file, n, i)
    BY <1>1, AppliedSame
<1>3. CASE Len(log) = n
    BY <1>2, <1>3 DEF Applied, n, log
<1>4. CASE Len(log) = n + 1 /\ log[n + 1].flag = Aborted
    <2>1. \A i \in 1 .. n : AppliedUpTo(log, n + 1, i) <=> AppliedUpTo(log, n, i)
        <3> SUFFICES ASSUME NEW i \in 1 .. n
                     PROVE  AppliedUpTo(log, n + 1, i) <=> AppliedUpTo(log, n, i)
            OBVIOUS
        <3>1. \A j \in i .. n + 1 : log[j].flag = Commit => j \in i .. n
            BY <1>1, <1>4 DEF Aborted, Commit
        <3>2. i .. n \subseteq i .. n + 1
            BY <1>1
        <3> QED
            BY <3>1, <3>2 DEF AppliedUpTo
    <2>2. ~AppliedUpTo(log, n + 1, n + 1)
        <3>1. \A j \in n + 1 .. n + 1 : j = n + 1
            BY <1>1
        <3> QED
            BY <1>4, <3>1 DEF AppliedUpTo, Aborted, Commit
    <2>3. 1 .. n + 1 = (1 .. n) \cup {n + 1}
        BY <1>1
    <2>4. Applied(log, n + 1) = Applied(file, n)
        BY <1>2, <2>1, <2>2, <2>3 DEF Applied
    <2> QED
        BY <1>4, <2>4 DEF n, log
<1> QED
    BY <1>1, <1>3, <1>4

(* What a session counts as its records is what the whole log applies.     *)
LEMMA SettledApplies ==
    ASSUME TypeOK, SessionInv, LogWhole, open, DOMAIN pending = {}
    PROVE  Applied(file, Len(file)) = InSession
<1>1. Len(file) \in Nat /\ openLen \in 0 .. Len(file)
    BY DEF TypeOK, StorageTypeOK
<1>2. CASE Len(file) = openLen
    BY <1>1, <1>2 DEF Applied, InSession
<1>3. CASE Len(file) > openLen
    <2>1. /\ \A i \in openLen + 1 .. Len(file) : file[i].flag \in {Commit, Chained}
          /\ file[Len(file)].flag = Commit
        BY <1>1, <1>3 DEF SessionInv, SessionChain
    <2>2. openLen > 0 => file[openLen].flag # Chained
        BY <1>1, <1>3 DEF LogWhole, EndsChained
    <2> QED
        BY <1>1, <1>3, <2>1, <2>2, SessionApplies DEF InSession
<1> QED
    BY <1>1, <1>2, <1>3

LEMMA RecoversSession ==
    ASSUME TypeOK, SessionInv, LogWhole
    PROVE  SettledIsRecovered
<1> SUFFICES ASSUME Settled, NEW b \in Block
             PROVE  BlockAt(Framed, NextMap[b]) = CurrentBlock(b)
    BY DEF SettledIsRecovered
<1>1. Applied(Framed, Len(Framed)) = InSession
    BY FramedApplies, SettledApplies DEF LogWhole, Settled, Idle
<1>2. InSession \subseteq 1 .. Len(file)
    BY InSessionType
<1>3. /\ Len(file) \in Nat
      /\ \A i \in 1 .. Len(file) : Framed[i] = file[i]
    BY FramedIs DEF LogWhole
<1>4. NextMap[b] = LastOf(LiveWrites(Framed, InSession, b))
    BY <1>1 DEF NextMap, RecoveredMap, MapOf
<1>5. LiveWrites(Framed, InSession, b) = LiveWrites(file, InSession, b)
    <2>1. \A i \in InSession : Framed[i] = file[i]
        BY <1>2, <1>3
    <2> QED
        BY <2>1, LiveSame
<1>6. open /\ DOMAIN pending = {}
    BY DEF Settled, Idle
<1>7. logicalToPhysical[b] = LastOf(LiveWrites(file, InSession, b))
    BY <1>6 DEF SessionInv, SessionMap, Remaining
<1>8. logicalToPhysical[b] \in 0 .. Len(file)
    BY DEF TypeOK
<1>9. CurrentBlock(b) = BlockAt(file, logicalToPhysical[b])
    BY <1>6 DEF CurrentBlock, PendingWriters
<1>10. BlockAt(Framed, logicalToPhysical[b]) = BlockAt(file, logicalToPhysical[b])
    BY <1>3, <1>8, BlockAtSame
<1> QED
    BY <1>4, <1>5, <1>7, <1>9, <1>10

(* When no session syncs behind an unfinished chain or a torn record, an   *)
(* open after a settled session serves, block for block, what the session  *)
(* served: whatever failed or crashed in it and in those before.           *)
THEOREM SettledSurvives ==
    ASSUME AppendAfterChain = FALSE, AppendAfterTear = FALSE
    PROVE  Spec => []SettledIsRecovered
<1>1. Init => TypeOK /\ SessionInv /\ LogWhole
    BY InitType, InitSession, InitWhole
<1>2. TypeOK /\ SessionInv /\ LogWhole /\ [Next]_vars => (TypeOK /\ SessionInv /\ LogWhole)'
    BY TypeStep, SessionStep, LogWholeStep
<1>3. TypeOK /\ SessionInv /\ LogWhole => SettledIsRecovered
    BY RecoversSession
<1> QED
    BY <1>1, <1>2, <1>3, PTL DEF Spec

-----------------------------------------------------------------------------
(* The size.                                                               *)

(* A pending record that reaches the logical size and that no pending      *)
(* truncation follows.                                                     *)
PendingReaches(s) ==
    /\ logicalSize <= Extent(pending[s])
    /\ \A t \in DOMAIN pending : t > s => ~IsTruncate(pending[t])

(* A record of the session that does, with no truncation behind it.        *)
LoggedReaches(i) ==
    /\ logicalSize <= Extent(file[i])
    /\ \A k \in InSession : k > i => ~IsTruncate(file[k])

SizeReached ==
    open => \/ logicalSize = 0
            \/ \E s \in DOMAIN pending : PendingReaches(s)
            \/ /\ \A s \in DOMAIN pending : ~IsTruncate(pending[s])
               /\ \E i \in InSession : LoggedReaches(i)

(* What this Sync has appended is in the log in the order of the slots.    *)
AppendedInOrder ==
    pc = "appending" => \A s \in DOMAIN pending : s <= done =>
        \E i \in openLen + 1 .. Len(file) :
            /\ Extent(file[i]) = Extent(pending[s])
            /\ \A k \in i + 1 .. Len(file) : IsTruncate(file[k]) =>
                   \E t \in DOMAIN pending : t > s /\ IsTruncate(pending[t])

SizeInv == SizeReached /\ AppendedInOrder

LEMMA WriteSize ==
    ASSUME TypeOK, SessionInv, SizeInv,
           NEW off \in 0 .. MaxSize - 1, NEW len \in 1 .. MaxSize - off,
           NEW buf \in [0 .. len - 1 -> Inputs],
           Write(off, len, buf) \/ WriteReadFails(off, len, buf)
    PROVE  SizeInv'
<1> DEFINE first == FirstBlock(off)
           last == LastBlock(off, len)
<1>1. off \in Nat /\ len \in Nat /\ off + len \in 0 .. MaxSize /\ off + len - 1 \in Nat
    BY MaxSizeType
<1>2. first \in Block /\ last \in Block /\ first <= last
    BY SpanType
<1>3. UNCHANGED <<file, openLen, open, pc>> /\ pc' # "appending"
    BY DEF Write, WriteReadFails, storageVars, Idle
<1>4. InSession' = InSession
    BY <1>3 DEF InSession
<1>5. /\ DOMAIN pending \subseteq DOMAIN pending'
      /\ \A s \in DOMAIN pending : pending'[s] = pending[s]
      /\ \A s \in DOMAIN pending' \ DOMAIN pending : s > LastSlot /\ ~IsTruncate(pending'[s])
    <2>1. CASE Write(off, len, buf)
        <3>1. FitsPending(last - first + 1) /\ pending' = PushWrites(first, last, off, buf)
            BY <2>1 DEF Write
        <3> QED
            BY <1>1, <1>2, <3>1, PushWritesIs
    <2>2. CASE WriteReadFails(off, len, buf)
        <3>1. first < last /\ FitsPending(last - first)
              /\ pending' = PushWrites(first, last - 1, off, buf)
            BY <2>2 DEF WriteReadFails
        <3>2. last - 1 \in Block /\ first <= last - 1 /\ last - 1 - first + 1 = last - first
            BY <1>2, <3>1, FormatAssumption DEF Block
        <3> QED
            BY <1>1, <1>2, <3>1, <3>2, PushWritesIs
    <2> QED
        BY <2>1, <2>2
<1> HIDE DEF first, last
<1>6. CASE logicalSize' = logicalSize
    <2>1. ASSUME NEW s \in DOMAIN pending, PendingReaches(s)
          PROVE  s \in DOMAIN pending' /\ PendingReaches(s)'
        BY <1>5, <1>6, <2>1 DEF PendingReaches
    <2>2. (\A s \in DOMAIN pending : ~IsTruncate(pending[s]))
              => \A s \in DOMAIN pending' : ~IsTruncate(pending'[s])
        BY <1>5
    <2>3. ASSUME NEW i \in InSession, LoggedReaches(i)
          PROVE  i \in InSession' /\ LoggedReaches(i)'
        BY <1>3, <1>4, <1>6, <2>3 DEF LoggedReaches
    <2>4. SizeReached'
        BY <1>3, <1>6, <2>1, <2>2, <2>3 DEF SizeInv, SizeReached
    <2> QED
        BY <1>3, <2>4 DEF SizeInv, AppendedInOrder
<1>7. CASE Write(off, len, buf) /\ logicalSize' = off + len
    <2>1. LastSlot \in Nat /\ \A s \in DOMAIN pending : s <= LastSlot
        BY LastSlotType
    <2>2. first \in Int /\ last \in Int /\ first <= last
        BY <1>2, FormatAssumption DEF Block
    <2>3. PICK w \in LastSlot + 1 .. LastSlot + 1 + last - first :
              w > LastSlot /\ first + w - LastSlot - 1 = last
        <3>1. LastSlot + 1 + last - first \in LastSlot + 1 .. LastSlot + 1 + last - first
              /\ LastSlot + 1 + last - first > LastSlot
              /\ first + (LastSlot + 1 + last - first) - LastSlot - 1 = last
            BY <2>1, <2>2
        <3> QED
            BY <3>1
    <2>4. w \notin DOMAIN pending
        BY <2>1, <2>3
    <2>5. w \in DOMAIN pending' /\ pending'[w] = DataRecord(last, Overlay(last, off, buf))
        <3>1. pending' = PushWrites(first, last, off, buf)
            BY <1>7 DEF Write, first, last
        <3>2. DOMAIN pending' = DOMAIN pending \cup (LastSlot + 1 .. LastSlot + 1 + last - first)
            BY <3>1 DEF PushWrites
        <3>3. pending'[w] = DataRecord(first + w - LastSlot - 1,
                                       Overlay(first + w - LastSlot - 1, off, buf))
            BY <2>3, <2>4, <3>1 DEF PushWrites
        <3> QED
            BY <2>3, <3>2, <3>3
    <2>6. Extent(pending'[w]) = (last + 1) * BlockUnits
        <3>1. last # Metadata
            BY <1>2, FormatAssumption DEF Block, Metadata
        <3> QED
            BY <2>5, <3>1 DEF DataRecord, Extent
    <2>7. off + len <= (last + 1) * BlockUnits
        <3>1. off + len - 1 + 1 <= ((off + len - 1) \div BlockUnits + 1) * BlockUnits
            BY <1>1, FormatAssumption, DivReaches
        <3>2. off + len - 1 + 1 = off + len
            BY <1>1
        <3> QED
            BY <3>1, <3>2 DEF last, LastBlock
    <2>8. \A t \in DOMAIN pending' : t > w => ~IsTruncate(pending'[t])
        <3>1. \A t \in DOMAIN pending : ~(t > w)
            BY <2>1, <2>3, SlotType
        <3> QED
            BY <1>5, <3>1
    <2>9. PendingReaches(w)'
        BY <1>7, <2>6, <2>7, <2>8 DEF PendingReaches
    <2> QED
        BY <1>3, <2>5, <2>9 DEF SizeInv, SizeReached, AppendedInOrder
<1> QED
    BY <1>6, <1>7 DEF Write, WriteReadFails

LEMMA TruncateSize ==
    ASSUME TypeOK, SessionInv, SizeInv, NEW n \in 0 .. MaxSize, Truncate(n)
    PROVE  SizeInv'
<1> DEFINE keep == {s \in DOMAIN pending : pending[s].block < CeilBlocks(n)}
<1>1. LastSlot \in Nat /\ \A s \in DOMAIN pending : s \in Nat /\ s <= LastSlot
    BY LastSlotType, SlotType
<1>2. PICK w \in Nat : w = LastSlot + 1
    BY <1>1
<1>3. keep \subseteq DOMAIN pending /\ w \notin DOMAIN pending
    BY <1>2, <1>1
<1> HIDE DEF keep
<1>4. pending' = [s \in keep \cup {LastSlot + 1} |->
                     IF s \in keep THEN pending[s] ELSE TruncateRecord(n)]
    BY DEF Truncate, keep
<1>5. w \in DOMAIN pending' /\ pending'[w] = TruncateRecord(n)
      /\ \A t \in DOMAIN pending' : t \in DOMAIN pending \/ t = w
    BY <1>2, <1>3, <1>4
<1>6. Extent(pending'[w]) = n
    BY <1>5, MaxSizeType DEF TruncateRecord, Extent, NoSize, Metadata
<1>7. \A t \in DOMAIN pending' : ~(t > w)
    BY <1>2, <1>1, <1>5
<1>8. PendingReaches(w)'
    BY <1>6, <1>7 DEF PendingReaches, Truncate
<1>9. pc' # "appending"
    BY DEF Truncate, Idle
<1> QED
    BY <1>5, <1>8, <1>9 DEF SizeInv, SizeReached, AppendedInOrder

LEMMA SyncAppendSize ==
    ASSUME TypeOK, SessionInv, SizeInv, SyncAppend
    PROVE  SizeInv'
<1>1. PICK s \in DOMAIN pending :
           /\ s > done /\ \A t \in DOMAIN pending : t > done => s <= t
           /\ Len(file') = Len(file) + 1 /\ Len(file) \in Nat
           /\ \A i \in 1 .. Len(file) : file'[i] = file[i]
           /\ file'[Len(file) + 1] = Flagged(pending[s], FlagOf(s))
           /\ logicalToPhysical' =
                  [c \in Block |-> IF pending[s].block = c THEN Len(file) + 1
                                   ELSE logicalToPhysical[c]]
           /\ \/ s # LastSlot /\ done' = s /\ UNCHANGED <<pending, pc>>
              \/ s = LastSlot /\ pending' = NothingPending /\ pc' = "flushing"
    BY SyncAppendIs
<1>2. open /\ pc = "appending" /\ UNCHANGED <<open, openLen, logicalSize>>
    BY DEF SyncAppend, SessionInv, SyncState
<1>3. PICK new \in Nat : new = Len(file) + 1
    BY <1>1
<1>4. InSession' = InSession \cup {new} /\ InSession \subseteq 1 .. Len(file)
    BY <1>1, <1>2, <1>3, InSessionGrows, InSessionType
<1>5. /\ Extent(file'[new]) = Extent(pending[s])
      /\ IsTruncate(file'[new]) <=> IsTruncate(pending[s])
    BY <1>1, <1>3, FlaggedSame
<1>6. openLen \in 0 .. Len(file)
    BY DEF TypeOK
<1>7. \A t \in DOMAIN pending : t \in Nat /\ t <= LastSlot
    BY LastSlotType, SlotType
(* What is in the log already stays where it is.                           *)
<1>8. ASSUME NEW i \in InSession, LoggedReaches(i), ~IsTruncate(pending[s])
      PROVE  i \in InSession' /\ LoggedReaches(i)'
    <2>1. file'[i] = file[i] /\ \A k \in InSession : file'[k] = file[k]
        BY <1>1, <1>4
    <2>2. \A k \in InSession' : k > i => ~IsTruncate(file'[k])
        BY <1>4, <1>5, <1>8, <2>1 DEF LoggedReaches
    <2> QED
        BY <1>2, <1>4, <1>8, <2>1, <2>2 DEF LoggedReaches
<1>9. AppendedInOrder'
    <2> SUFFICES ASSUME pc' = "appending", NEW t \in DOMAIN pending', t <= done'
                 PROVE  \E i \in openLen' + 1 .. Len(file') :
                            /\ Extent(file'[i]) = Extent(pending'[t])
                            /\ \A k \in i + 1 .. Len(file') : IsTruncate(file'[k]) =>
                                   \E u \in DOMAIN pending' : u > t /\ IsTruncate(pending'[u])
        BY DEF AppendedInOrder
    <2>1. done' = s /\ UNCHANGED pending
        BY <1>1
    <2>2. CASE t = s
        <3>1. new \in openLen' + 1 .. Len(file')
            BY <1>1, <1>2, <1>3, <1>6
        <3>2. \A k \in new + 1 .. Len(file') : FALSE
            BY <1>1, <1>3
        <3> QED
            BY <1>5, <2>1, <2>2, <3>1, <3>2
    <2>3. CASE t # s
        <3>1. t \in DOMAIN pending /\ t < s /\ t <= done
            BY <1>1, <2>1, <2>3, SlotType
        <3>2. PICK i \in openLen + 1 .. Len(file) :
                  /\ Extent(file[i]) = Extent(pending[t])
                  /\ \A k \in i + 1 .. Len(file) : IsTruncate(file[k]) =>
                         \E u \in DOMAIN pending : u > t /\ IsTruncate(pending[u])
            BY <1>2, <3>1 DEF SizeInv, AppendedInOrder
        <3>3. i \in openLen' + 1 .. Len(file') /\ file'[i] = file[i]
            BY <1>1, <1>2, <1>6
        <3>4. ASSUME NEW k \in i + 1 .. Len(file'), IsTruncate(file'[k])
              PROVE  \E u \in DOMAIN pending : u > t /\ IsTruncate(pending[u])
            <4>1. CASE k = new
                BY <1>5, <3>1, <3>4, <4>1
            <4>2. CASE k # new
                <5>1. k \in i + 1 .. Len(file) /\ k \in 1 .. Len(file)
                    BY <1>1, <1>3, <1>6, <4>2
                <5> QED
                    BY <1>1, <3>2, <3>4, <5>1
            <4> QED
                BY <4>1, <4>2
        <3> QED
            BY <2>1, <3>2, <3>3, <3>4
    <2> QED
        BY <2>2, <2>3
<1>10. CASE UNCHANGED pending
    <2>1. ASSUME NEW t \in DOMAIN pending, PendingReaches(t)
          PROVE  t \in DOMAIN pending' /\ PendingReaches(t)'
        BY <1>2, <1>10, <2>1 DEF PendingReaches
    <2>2. SizeReached'
        BY <1>2, <1>8, <1>10, <2>1 DEF SizeInv, SizeReached
    <2> QED
        BY <1>9, <2>2 DEF SizeInv
<1>11. CASE s = LastSlot /\ pending' = NothingPending
    <2>1. ASSUME NEW t \in DOMAIN pending, PendingReaches(t)
          PROVE  \E i \in InSession' : LoggedReaches(i)'
        <3>1. CASE t = s
            <4>1. \A k \in InSession' : ~(k > new)
                BY <1>3, <1>4
            <4> QED
                BY <1>2, <1>4, <1>5, <2>1, <3>1, <4>1 DEF PendingReaches, LoggedReaches
        <3>2. CASE t # s
            <4>1. t < s /\ t <= done
                BY <1>1, <1>7, <1>11, <3>2, SlotType
            <4>2. PICK i \in openLen + 1 .. Len(file) :
                      /\ Extent(file[i]) = Extent(pending[t])
                      /\ \A k \in i + 1 .. Len(file) : IsTruncate(file[k]) =>
                             \E u \in DOMAIN pending : u > t /\ IsTruncate(pending[u])
                BY <1>2, <4>1 DEF SizeInv, AppendedInOrder
            <4>3. i \in InSession
                BY <1>1, <1>6 DEF InSession
            <4>4. LoggedReaches(i)
                <5>1. \A k \in InSession : k > i => k \in i + 1 .. Len(file)
                    BY <1>1, <1>4, <1>6
                <5> QED
                    BY <2>1, <4>2, <5>1 DEF PendingReaches, LoggedReaches
            <4>5. ~IsTruncate(pending[s])
                BY <2>1, <4>1 DEF PendingReaches
            <4> QED
                BY <1>8, <4>3, <4>4, <4>5
        <3> QED
            BY <3>1, <3>2
    <2>2. DOMAIN pending' = {}
        BY <1>11, NothingType
    <2>3. SizeReached'
        BY <1>2, <1>8, <2>1, <2>2 DEF SizeInv, SizeReached
    <2> QED
        BY <1>9, <2>3 DEF SizeInv
<1> QED
    BY <1>1, <1>10, <1>11

LEMMA OpenSize ==
    ASSUME TypeOK, SessionInv, Open
    PROVE  SizeInv'
<1>1. DOMAIN pending = {} /\ pc = "idle"
    BY DEF Open, SessionInv, SyncState
<1>2. /\ file' = Framed /\ openLen' = Len(Framed)
      /\ logicalSize' = RecoveredSize(Framed, Len(Framed))
      /\ UNCHANGED <<pending, pc>>
    BY DEF Open
<1>3. Framed \in Seq(Record) /\ Len(Framed) \in Nat
    BY FramedType DEF TypeOK
<1> DEFINE S == Applied(Framed, Len(Framed))
<1>4. InSession' = S
    <2>1. \A i \in 1 .. Len(Framed) : ~(i > Len(Framed))
        BY <1>3
    <2> QED
        BY <1>2, <2>1 DEF InSession, Applied
<1>5. S \subseteq 1 .. Len(Framed)
    BY DEF Applied
<1>6. logicalSize' = SizeOf(Framed, S)
    BY <1>2 DEF RecoveredSize
<1> HIDE DEF S
<1>7. CASE SizeOf(Framed, S) # 0
    <2>1. \A i \in S : Framed[i] \in Record
        BY <1>3, <1>5
    <2>2. PICK i \in LastPart(Framed, S) : SizeOf(Framed, S) = Extent(Framed[i])
        BY <1>7, <2>1, SizeOfWitness
    <2>3. i \in S /\ \A k \in S : k > i => ~IsTruncate(Framed[k])
        BY <2>2 DEF LastPart
    <2>4. SizeOf(Framed, S) \in 0 .. MaxSize
        BY <2>1, SizeOfType
    <2>5. SizeOf(Framed, S) <= Extent(Framed[i])
        BY <2>2, <2>4, MaxSizeType
    <2>6. i \in InSession' /\ LoggedReaches(i)'
        BY <1>2, <1>4, <1>6, <2>3, <2>5 DEF LoggedReaches
    <2> QED
        BY <1>1, <1>2, <2>6 DEF SizeInv, SizeReached, AppendedInOrder
<1>8. CASE SizeOf(Framed, S) = 0
    BY <1>1, <1>2, <1>6, <1>8 DEF SizeInv, SizeReached, AppendedInOrder
<1> QED
    BY <1>7, <1>8

LEMMA SizeStep ==
    ASSUME TypeOK, SessionInv, SizeInv, [Next]_vars
    PROVE  SizeInv'
<1>1. CASE Open
    BY <1>1, OpenSize
<1>2. CASE Writing
    BY <1>2, WriteSize DEF Writing
<1>3. CASE Truncating
    BY <1>3, TruncateSize DEF Truncating
<1>4. CASE SyncAppend
    BY <1>4, SyncAppendSize
<1>5. CASE SyncStart
    <2>1. UNCHANGED <<file, open, openLen, pending, logicalSize, done>> /\ done = 0
        BY <1>5, IdleIs DEF SyncStart, storageVars
    <2>2. \A s \in DOMAIN pending : ~(s <= 0)
        BY SlotType
    <2>3. AppendedInOrder'
        BY <2>1, <2>2 DEF AppendedInOrder
    <2>4. SizeReached'
        BY <2>1 DEF SizeInv, SizeReached, PendingReaches, LoggedReaches, InSession
    <2> QED
        BY <2>3, <2>4 DEF SizeInv
<1>6. CASE SyncAppendFails \/ SyncFlush \/ SyncFlushFails
    <2>1. UNCHANGED <<file, open, openLen, pending, logicalSize>> /\ pc' = "idle"
        BY <1>6 DEF SyncAppendFails, SyncFlush, SyncFlushFails, FsyncSucceeds,
                    AppendFailsClean, AppendFailsTorn, storageVars
    <2> QED
        BY <2>1 DEF SizeInv, SizeReached, AppendedInOrder, PendingReaches, LoggedReaches,
                    InSession
<1>7. CASE OpenFails \/ Close \/ Crash
    <2>1. ~open' /\ pc' = "idle"
        BY <1>7 DEF OpenFails, Close, Crash, Forget, mapperVars, SessionInv, SyncState
    <2> QED
        BY <2>1 DEF SizeInv, SizeReached, AppendedInOrder
<1>8. CASE UNCHANGED vars
    BY <1>8 DEF vars, storageVars, mapperVars, SizeInv, SizeReached, AppendedInOrder,
                PendingReaches, LoggedReaches, InSession
<1> QED
    BY <1>1, <1>2, <1>3, <1>4, <1>5, <1>6, <1>7, <1>8 DEF Next, SyncStep

LEMMA KeepsSize ==
    ASSUME TypeOK, SessionInv, LogWhole, SizeInv
    PROVE  SizeNotLost
<1> SUFFICES ASSUME Settled
             PROVE  CeilBlocks(RecoveredSize(Framed, Len(Framed))) >= CeilBlocks(logicalSize)
    BY DEF SizeNotLost
<1>1. open /\ DOMAIN pending = {}
    BY DEF Settled, Idle
<1>2. RecoveredSize(Framed, Len(Framed)) = SizeOf(Framed, InSession)
    BY <1>1, FramedApplies, SettledApplies DEF LogWhole, RecoveredSize
<1>3. /\ Len(file) \in Nat /\ Len(Framed) \in Nat /\ Framed \in Seq(Record)
      /\ InSession \subseteq 1 .. Len(file) /\ InSession \subseteq 1 .. Len(Framed)
      /\ \A i \in InSession : Framed[i] = file[i]
    <2>1. InSession \subseteq 1 .. Len(file)
        BY InSessionType
    <2>2. Framed \in Seq(Record)
        BY FramedType DEF TypeOK
    <2>3. Len(file) \in Nat /\ Len(Framed) \in Nat /\ Len(Framed) >= Len(file)
        BY FramedIs, FramedType DEF LogWhole, TypeOK
    <2>4. \A i \in 1 .. Len(file) : Framed[i] = file[i]
        BY FramedIs DEF LogWhole
    <2> QED
        BY <2>1, <2>2, <2>3, <2>4
<1>4. \A i \in InSession : Framed[i] \in Record
    BY <1>3
<1>5. SizeOf(Framed, InSession) \in 0 .. MaxSize /\ logicalSize \in 0 .. MaxSize
    BY <1>4, SizeOfType DEF TypeOK
<1>6. logicalSize <= SizeOf(Framed, InSession)
    <2>1. CASE logicalSize = 0
        BY <1>5, <2>1, MaxSizeType
    <2>2. CASE logicalSize # 0
        <3>1. PICK i \in InSession : LoggedReaches(i)
            BY <1>1, <2>2 DEF SizeInv, SizeReached
        <3>2. i \in LastPart(Framed, InSession)
            BY <1>3, <3>1 DEF LoggedReaches, LastPart
        <3>3. Extent(Framed[i]) <= SizeOf(Framed, InSession)
            BY <1>3, <1>4, <3>2, ExtentBounds
        <3>4. Extent(Framed[i]) \in 0 .. MaxSize
            BY <1>4, ExtentRange
        <3> QED
            BY <1>3, <1>5, <3>1, <3>3, <3>4, MaxSizeType DEF LoggedReaches
    <2> QED
        BY <2>1, <2>2
<1>7. CeilBlocks(logicalSize) <= CeilBlocks(SizeOf(Framed, InSession))
    BY <1>5, <1>6, CeilMonotonic
<1> QED
    BY <1>2, <1>5, <1>7, CeilType

(* Under the same conditions no block falls off the end of the file: it is *)
(* recovered at least as long, in blocks, as the settled session had it,   *)
(* although the size is not in the log but in what its records reach.      *)
THEOREM SizeSurvives ==
    ASSUME AppendAfterChain = FALSE, AppendAfterTear = FALSE
    PROVE  Spec => []SizeNotLost
<1>1. Init => TypeOK /\ SessionInv /\ LogWhole /\ SizeInv
    <2>1. Init => SizeInv
        BY DEF Init, SizeInv, SizeReached, AppendedInOrder
    <2> QED
        BY <2>1, InitType, InitSession, InitWhole
<1>2. TypeOK /\ SessionInv /\ LogWhole /\ SizeInv /\ [Next]_vars
          => (TypeOK /\ SessionInv /\ LogWhole /\ SizeInv)'
    BY TypeStep, SessionStep, LogWholeStep, SizeStep
<1>3. TypeOK /\ SessionInv /\ LogWhole /\ SizeInv => SizeNotLost
    BY KeepsSize
<1> QED
    BY <1>1, <1>2, <1>3, PTL DEF Spec

-----------------------------------------------------------------------------
(* The size, from above: no record that no truncation follows reaches      *)
(* beyond the last block of the file, be it pending or in the log.         *)
PendingWithin ==
    \A s \in DOMAIN pending :
        (\A t \in DOMAIN pending : t > s => ~IsTruncate(pending[t]))
            => CeilBlocks(Extent(pending[s])) <= CeilBlocks(logicalSize)

LoggedWithin ==
    (\A s \in Remaining : ~IsTruncate(pending[s])) =>
        \A i \in LastPart(file, InSession) :
            CeilBlocks(Extent(file[i])) <= CeilBlocks(logicalSize)

SizeWithin == open => PendingWithin /\ LoggedWithin

LEMMA SessionRecords ==
    ASSUME TypeOK
    PROVE  /\ Len(file) \in Nat /\ InSession \subseteq 1 .. Len(file)
           /\ \A i \in InSession : file[i] \in Record
<1>1. Len(file) \in Nat /\ file \in [1 .. Len(file) -> Record]
    BY DEF TypeOK, StorageTypeOK
<1> QED
    BY <1>1, InSessionType

LEMMA SessionSizeWithin ==
    ASSUME TypeOK, SizeWithin, open, \A s \in Remaining : ~IsTruncate(pending[s])
    PROVE  CeilBlocks(SizeOf(file, InSession)) <= CeilBlocks(logicalSize)
<1>1. SizeOf(file, InSession) \in 0 .. MaxSize
    BY SessionRecords, SizeOfType
<1>2. CASE SizeOf(file, InSession) = 0
    <2>1. 0 \in Nat /\ logicalSize \in Nat /\ 0 <= logicalSize
        BY MaxSizeType DEF TypeOK
    <2> QED
        BY <1>2, <2>1, CeilGrows
<1>3. CASE SizeOf(file, InSession) # 0
    <2>1. PICK i \in LastPart(file, InSession) : SizeOf(file, InSession) = Extent(file[i])
        BY <1>3, SessionRecords, SizeOfWitness
    <2> QED
        BY <2>1 DEF SizeWithin, LoggedWithin
<1> QED
    BY <1>2, <1>3

(* What is mapped, and not pending, is within the file.                    *)
LEMMA MappedInSession ==
    ASSUME TypeOK, SessionInv, SizeWithin, Idle,
           NEW b \in Block, PendingWriters(b) = {}, logicalToPhysical[b] # 0
    PROVE  b < CeilBlocks(logicalSize)
<1>1. open /\ Remaining = DOMAIN pending
    BY IdleIs
<1>2. /\ \A s \in DOMAIN pending : ~Cuts(pending[s], b)
      /\ MapOf(file, InSession)[b] # 0
    <2>1. \A s \in Remaining : pending[s].block # b
        BY <1>1 DEF PendingWriters
    <2> QED
        BY <1>1, <2>1 DEF SessionInv, SessionMap, MapOf
<1>3. CeilBlocks(logicalSize) \in Int /\ b \in Int
    BY CeilRange, FormatAssumption DEF TypeOK, Block
<1> DEFINE T == {s \in DOMAIN pending : IsTruncate(pending[s])}
<1>4. CASE T = {}
    <2>1. b < CeilBlocks(SizeOf(file, InSession))
        BY <1>2, SessionRecords, MappedWithin
    <2>2. CeilBlocks(SizeOf(file, InSession)) <= CeilBlocks(logicalSize)
        BY <1>1, <1>4, SessionSizeWithin
    <2>3. CeilBlocks(SizeOf(file, InSession)) \in Int
        <3>1. SizeOf(file, InSession) \in 0 .. MaxSize
            BY SessionRecords, SizeOfType
        <3> QED
            BY <3>1, CeilRange
    <2> QED
        BY <1>3, <2>1, <2>2, <2>3
<1>5. CASE T # {}
    <2>1. T \subseteq 1 .. MaxPending /\ MaxPending \in Nat
        BY BoundsAssumption DEF TypeOK, Slot
    <2> HIDE DEF T
    <2>2. PICK t \in T : \A s \in T : s <= t
        BY <1>5, <2>1, LastExists
    <2>3. t \in DOMAIN pending /\ IsTruncate(pending[t])
        BY <2>2 DEF T
    <2>4. \A s \in DOMAIN pending : s > t => ~IsTruncate(pending[s])
        BY <2>1, <2>2, <2>3, SlotType DEF T
    <2>5. CeilBlocks(Extent(pending[t])) <= CeilBlocks(logicalSize)
        BY <1>1, <2>3, <2>4 DEF SizeWithin, PendingWithin
    <2>6. Extent(pending[t]) = pending[t].size /\ pending[t].size \in 0 .. MaxSize
        <3>1. pending[t] \in Payload
            BY <2>3 DEF TypeOK
        <3> QED
            BY <2>3, <3>1 DEF Extent, IsTruncate, Payload, SizeField
    <2>7. ~(CeilBlocks(pending[t].size) <= b)
        BY <1>2, <2>3 DEF Cuts
    <2>8. CeilBlocks(pending[t].size) \in Int
        BY <2>6, CeilRange
    <2> QED
        BY <1>3, <2>5, <2>6, <2>7, <2>8
<1> QED
    BY <1>4, <1>5

-----------------------------------------------------------------------------
(* What is read after a Write and after a Truncate.                        *)

Pushes(first, last, off, buf) ==
    /\ first \in Block /\ last \in Block /\ first <= last
    /\ pending' = PushWrites(first, last, off, buf)
    /\ UNCHANGED <<file, open, openLen, logicalToPhysical, pc, done>>

(* One new slot for each block of the span, behind all that were there.    *)
LEMMA PushedSlots ==
    ASSUME TypeOK, NEW first, NEW last, NEW off, NEW buf, Pushes(first, last, off, buf)
    PROVE  /\ \A s \in DOMAIN pending : s \in DOMAIN pending' /\ pending'[s] = pending[s]
           /\ \A b \in first .. last : \E s \in DOMAIN pending' :
                  s > LastSlot /\ pending'[s] = DataRecord(b, Overlay(b, off, buf))
           /\ \A s \in DOMAIN pending' \ DOMAIN pending :
                  s > LastSlot /\ \E b \in first .. last : pending'[s] = DataRecord(b, Overlay(b, off, buf))
           /\ \A s, t \in DOMAIN pending' \ DOMAIN pending :
                  pending'[s].block = pending'[t].block => s = t
<1> DEFINE added == LastSlot + 1 .. LastSlot + 1 + last - first
<1>1. first \in Int /\ last \in Int /\ LastSlot \in Nat /\ \A s \in DOMAIN pending : s <= LastSlot
    BY LastSlotType, FormatAssumption DEF Pushes, Block
<1>2. DOMAIN pending' = DOMAIN pending \cup added
    BY DEF Pushes, PushWrites
<1>3. \A s \in added : s \notin DOMAIN pending /\ s > LastSlot /\ s \in Int
    BY <1>1
<1>4. \A s \in added : pending'[s] = DataRecord(first + s - LastSlot - 1,
                                                Overlay(first + s - LastSlot - 1, off, buf))
    BY <1>2, <1>3 DEF Pushes, PushWrites
<1>5. \A s \in added : first + s - LastSlot - 1 \in first .. last
    BY <1>1
<1>6. \A s \in DOMAIN pending : pending'[s] = pending[s]
    BY <1>2 DEF Pushes, PushWrites
<1>7. ASSUME NEW b \in first .. last
      PROVE  \E s \in added : first + s - LastSlot - 1 = b
    <2>1. LastSlot + 1 + b - first \in added /\ first + (LastSlot + 1 + b - first) - LastSlot - 1 = b
        BY <1>1
    <2> QED
        BY <2>1
<1>8. \A s \in added : pending'[s].block = first + s - LastSlot - 1
    <2>1. \A b, d : DataRecord(b, d).block = b
        BY DEF DataRecord
    <2> HIDE DEF added
    <2> QED
        BY <1>4, <2>1, Zenon
<1>9. \A s, t \in added : first + s - LastSlot - 1 = first + t - LastSlot - 1 => s = t
    BY <1>1, <1>3
<1> HIDE DEF added
<1>10. ASSUME NEW b \in first .. last
       PROVE  \E s \in DOMAIN pending' :
                  s > LastSlot /\ pending'[s] = DataRecord(b, Overlay(b, off, buf))
    <2>1. PICK s \in added : first + s - LastSlot - 1 = b
        BY <1>7
    <2>2. pending'[s] = DataRecord(b, Overlay(b, off, buf))
        BY <1>4, <2>1
    <2> QED
        BY <1>2, <1>3, <2>2
<1>11. ASSUME NEW s \in DOMAIN pending' \ DOMAIN pending
       PROVE  s > LastSlot /\ \E b \in first .. last :
                  pending'[s] = DataRecord(b, Overlay(b, off, buf))
    <2>1. s \in added
        BY <1>2
    <2> QED
        BY <1>3, <1>4, <1>5, <2>1
<1>12. \A s, t \in DOMAIN pending' \ DOMAIN pending :
           pending'[s].block = pending'[t].block => s = t
    BY <1>2, <1>8, <1>9
<1> QED
    BY <1>2, <1>6, <1>10, <1>11, <1>12

LEMMA PushedBlock ==
    ASSUME TypeOK, TypeOK', NEW first, NEW last, NEW off, NEW buf,
           Pushes(first, last, off, buf), NEW c \in Block
    PROVE  CurrentBlock(c)' = IF c \in first .. last THEN Overlay(c, off, buf) ELSE CurrentBlock(c)
<1>1. PendingWriters(c)' = {s \in DOMAIN pending' : pending'[s].block = c}
    BY DEF PendingWriters
<1>2. CASE c \in first .. last
    <2>1. PICK s \in DOMAIN pending' :
              s > LastSlot /\ pending'[s] = DataRecord(c, Overlay(c, off, buf))
        BY <1>2, PushedSlots
    <2>2. pending'[s].block = c /\ pending'[s].data = Overlay(c, off, buf)
        BY <2>1 DEF DataRecord
    <2>3. LastSlot \in Nat /\ MaxPending \in Nat /\ DOMAIN pending' \subseteq 1 .. MaxPending
          /\ \A t \in DOMAIN pending : t <= LastSlot /\ t \in Nat
        <3>1. DOMAIN pending \subseteq Slot /\ DOMAIN pending' \subseteq Slot
            BY DEF TypeOK
        <3>2. LastSlot \in Nat /\ \A t \in DOMAIN pending : t <= LastSlot
            BY LastSlotType
        <3> QED
            BY ONLY <3>1, <3>2, SlotType, BoundsAssumption DEF Slot
    <2>4. s \notin DOMAIN pending
        BY <2>1, <2>3
    <2>5. \A t \in DOMAIN pending' : pending'[t].block = c => t <= s
        <3> SUFFICES ASSUME NEW t \in DOMAIN pending', pending'[t].block = c
                     PROVE  t <= s
            OBVIOUS
        <3>1. CASE t \in DOMAIN pending
            BY <2>1, <2>3, <3>1
        <3>2. CASE t \notin DOMAIN pending
            <4>1. t = s
                BY <2>2, <2>4, <3>2, PushedSlots
            <4> QED
                BY <2>3, <4>1
        <3> QED
            BY <3>1, <3>2
    <2> DEFINE W == PendingWriters(c)'
    <2>6. s \in W /\ W \subseteq 0 .. MaxPending /\ \A t \in W : t <= s
        BY <1>1, <2>2, <2>3, <2>5
    <2> HIDE DEF W
    <2>7. LastOf(W) = s
        BY <2>3, <2>6, LastOfIs
    <2>8. CurrentBlock(c)' = IF W # {} THEN pending'[LastOf(W)].data
                             ELSE BlockAt(file', logicalToPhysical'[c])
        BY DEF CurrentBlock, W
    <2> QED
        BY <1>2, <2>2, <2>6, <2>7, <2>8
<1>3. CASE c \notin first .. last
    <2>1. \A s \in DOMAIN pending' \ DOMAIN pending : pending'[s].block # c
        <3> SUFFICES ASSUME NEW s \in DOMAIN pending' \ DOMAIN pending
                     PROVE  pending'[s].block # c
            OBVIOUS
        <3>1. PICK b \in first .. last : pending'[s] = DataRecord(b, Overlay(b, off, buf))
            BY PushedSlots
        <3> QED
            BY <1>3, <3>1 DEF DataRecord
    <2>2. PendingWriters(c)' = PendingWriters(c)
        BY <1>1, <2>1, PushedSlots DEF PendingWriters
    <2> DEFINE W == PendingWriters(c)
    <2>3. W # {} => LastOf(W) \in W /\ W \subseteq DOMAIN pending
        BY LastWriter DEF PendingWriters
    <2>4. CurrentBlock(c)' = IF W # {} THEN pending'[LastOf(W)].data
                             ELSE BlockAt(file', logicalToPhysical'[c])
        BY <2>2 DEF CurrentBlock
    <2>5. CurrentBlock(c) = IF W # {} THEN pending[LastOf(W)].data
                            ELSE BlockAt(file, logicalToPhysical[c])
        BY DEF CurrentBlock
    <2> HIDE DEF W
    <2>6. UNCHANGED <<file, logicalToPhysical>>
        BY DEF Pushes
    <2>7. \A s \in DOMAIN pending : pending'[s] = pending[s]
        BY PushedSlots
    <2> QED
        BY <1>3, <2>3, <2>4, <2>5, <2>6, <2>7
<1> QED
    BY <1>2, <1>3

(* A truncation: the blocks beyond the new end read as zeroes.             *)
LEMMA TruncatedBlock ==
    ASSUME TypeOK, NEW n \in 0 .. MaxSize, Truncate(n), NEW c \in Block
    PROVE  CurrentBlock(c)' = IF c >= CeilBlocks(n) THEN ZeroBlock ELSE CurrentBlock(c)
<1> DEFINE keep == {s \in DOMAIN pending : pending[s].block < CeilBlocks(n)}
<1>1. LastSlot \in Nat /\ \A s \in DOMAIN pending : s <= LastSlot
    BY LastSlotType
<1>2. LastSlot + 1 \notin DOMAIN pending
    BY <1>1
<1>3. pending' = [s \in keep \cup {LastSlot + 1} |->
                     IF s \in keep THEN pending[s] ELSE TruncateRecord(n)]
    BY DEF Truncate
<1>4. TruncateRecord(n).block # c
    BY FormatAssumption DEF TruncateRecord, Metadata, Block
<1>5. PendingWriters(c)' = {s \in DOMAIN pending' : pending'[s].block = c}
    BY DEF PendingWriters
<1>6. PendingWriters(c)' = {s \in keep : pending[s].block = c}
    BY <1>2, <1>3, <1>4, <1>5
<1>7. /\ logicalToPhysical'[c] = IF c >= CeilBlocks(n) THEN 0 ELSE logicalToPhysical[c]
      /\ file' = file
    BY DEF Truncate, storageVars
<1>8. CeilBlocks(n) \in Int /\ c \in Int
    BY CeilRange, FormatAssumption DEF Block
<1> DEFINE W == PendingWriters(c)'
<1>9. CurrentBlock(c)' = IF W # {} THEN pending'[LastOf(W)].data
                         ELSE BlockAt(file', logicalToPhysical'[c])
    BY DEF CurrentBlock
<1>10. CASE c >= CeilBlocks(n)
    <2>1. W = {}
        BY <1>6, <1>8, <1>10
    <2> QED
        BY <1>7, <1>9, <1>10, <2>1 DEF BlockAt
<1>11. CASE ~(c >= CeilBlocks(n))
    <2>1. W = PendingWriters(c)
        BY <1>6, <1>8, <1>11 DEF PendingWriters
    <2>2. W # {} => LastOf(W) \in keep
        <3>1. W # {} => LastOf(W) \in W
            BY <2>1, LastWriter
        <3> QED
            BY <1>6, <3>1
    <2>3. \A s \in keep : pending'[s] = pending[s]
        BY <1>3
    <2>4. CurrentBlock(c) = IF W # {} THEN pending[LastOf(W)].data
                            ELSE BlockAt(file, logicalToPhysical[c])
        BY <2>1 DEF CurrentBlock
    <2> HIDE DEF W, keep
    <2> QED
        BY <1>7, <1>9, <1>11, <2>2, <2>3, <2>4
<1> QED
    BY <1>10, <1>11

LEMMA WriteIs ==
    ASSUME TypeOK, NEW off \in 0 .. MaxSize - 1, NEW len \in 1 .. MaxSize - off,
           NEW buf \in [0 .. len - 1 -> Inputs], Write(off, len, buf)
    PROVE  /\ Pushes(FirstBlock(off), LastBlock(off, len), off, buf)
           /\ Idle /\ UNCHANGED storageVars
           /\ CeilBlocks(off + len) = LastBlock(off, len) + 1
           /\ CeilBlocks(logicalSize') = IF CeilBlocks(logicalSize) >= CeilBlocks(off + len)
                                         THEN CeilBlocks(logicalSize) ELSE CeilBlocks(off + len)
<1>1. off \in Nat /\ len \in Nat /\ off + len \in 0 .. MaxSize /\ logicalSize \in 0 .. MaxSize
    BY MaxSizeType DEF TypeOK
<1>2. /\ CeilBlocks(off + len) \in Int /\ CeilBlocks(logicalSize) \in Int
      /\ logicalSize >= off + len => CeilBlocks(logicalSize) >= CeilBlocks(off + len)
      /\ off + len >= logicalSize => CeilBlocks(off + len) >= CeilBlocks(logicalSize)
    BY <1>1, CeilMonotonic, CeilRange
<1>3. logicalSize' = IF logicalSize >= off + len THEN logicalSize ELSE off + len
    BY DEF Write
<1>4. CeilBlocks(off + len) = LastBlock(off, len) + 1
    <2>1. PICK k \in Nat \ {0} : k = BlockUnits
        BY FormatAssumption
    <2>2. PICK a \in Nat : a = off + len - 1
        BY <1>1
    <2>3. off + len + k - 1 = a + k
        BY <1>1, <2>2
    <2>4. (a + k) \div k = (a \div k) + 1
        OBVIOUS
    <2> QED
        BY <2>1, <2>2, <2>3, <2>4 DEF CeilBlocks, LastBlock
<1>5. CeilBlocks(logicalSize') = IF CeilBlocks(logicalSize) >= CeilBlocks(off + len)
                                 THEN CeilBlocks(logicalSize) ELSE CeilBlocks(off + len)
    <2>1. CASE logicalSize >= off + len
        BY <1>2, <1>3, <2>1
    <2>2. CASE ~(logicalSize >= off + len)
        <3>1. logicalSize' = off + len /\ off + len >= logicalSize
            BY <1>1, <1>3, <2>2, MaxSizeType
        <3> QED
            BY <1>2, <3>1
    <2> QED
        BY <2>1, <2>2
<1> QED
    BY <1>4, <1>5, SpanType DEF Write, Pushes, storageVars

LEMMA WriteReadFailsIs ==
    ASSUME TypeOK, NEW off \in 0 .. MaxSize - 1, NEW len \in 1 .. MaxSize - off,
           NEW buf \in [0 .. len - 1 -> Inputs], WriteReadFails(off, len, buf)
    PROVE  LET last == LastBlock(off, len)
           IN  /\ Pushes(FirstBlock(off), last - 1, off, buf)
               /\ Idle /\ UNCHANGED <<storageVars, logicalSize>>
               /\ last \in Block /\ PendingWriters(last) = {} /\ logicalToPhysical[last] # 0
<1> DEFINE last == LastBlock(off, len)
           first == FirstBlock(off)
<1>1. first \in Block /\ last \in Block /\ first < last
    BY SpanType DEF WriteReadFails
<1>2. last - 1 \in Block /\ first <= last - 1
    BY <1>1, FormatAssumption DEF Block
<1> QED
    BY <1>1, <1>2 DEF WriteReadFails, Pushes, storageVars

LEMMA PayloadExtent ==
    ASSUME NEW r \in Payload
    PROVE  Extent(r) \in 0 .. MaxSize /\ CeilBlocks(Extent(r)) \in Int
<1>1. Flagged(r, Commit) \in Record
    BY DEF Payload, Record, Flagged, Commit
<1>2. Extent(r) \in 0 .. MaxSize
    BY <1>1, ExtentRange, FlaggedSame
<1> QED
    BY <1>2, CeilRange

LEMMA PushesWithin ==
    ASSUME TypeOK, SessionInv, SizeWithin, Idle,
           NEW first, NEW last, NEW off, NEW buf, Pushes(first, last, off, buf),
           CeilBlocks(logicalSize') \in Int,
           CeilBlocks(logicalSize') >= CeilBlocks(logicalSize),
           CeilBlocks(logicalSize') >= last + 1
    PROVE  SizeWithin'
<1>1. open /\ done = 0 /\ Remaining = DOMAIN pending /\ CeilBlocks(logicalSize) \in Int
    BY IdleIs, CeilRange DEF TypeOK
<1>2. PendingWithin /\ LoggedWithin
    BY <1>1 DEF SizeWithin
<1>3. ASSUME NEW s \in DOMAIN pending',
             \A t \in DOMAIN pending' : t > s => ~IsTruncate(pending'[t])
      PROVE  CeilBlocks(Extent(pending'[s])) <= CeilBlocks(logicalSize')
    <2>1. CASE s \in DOMAIN pending
        <3>1. pending'[s] = pending[s] /\ \A t \in DOMAIN pending : t > s => ~IsTruncate(pending[t])
            BY <1>3, <2>1, PushedSlots
        <3>2. CeilBlocks(Extent(pending[s])) <= CeilBlocks(logicalSize)
            BY <1>2, <2>1, <3>1 DEF PendingWithin
        <3>3. CeilBlocks(Extent(pending[s])) \in Int
            BY <2>1, PayloadExtent DEF TypeOK
        <3> QED
            BY <1>1, <3>1, <3>2, <3>3
    <2>2. CASE s \notin DOMAIN pending
        <3>1. PICK b \in first .. last : pending'[s] = DataRecord(b, Overlay(b, off, buf))
            BY <2>2, PushedSlots
        <3>2. b \in Nat /\ last \in Int /\ b + 1 <= last + 1 /\ b # Metadata
            BY FormatAssumption DEF Pushes, Block, Metadata
        <3>3. Extent(pending'[s]) = (b + 1) * BlockUnits
            BY <3>1, <3>2 DEF DataRecord, Extent
        <3>4. CeilBlocks(Extent(pending'[s])) = b + 1
            BY <3>2, <3>3, CeilOfBlocks
        <3> QED
            BY <3>2, <3>4
    <2> QED
        BY <2>1, <2>2
<1>4. ASSUME \A s \in Remaining' : ~IsTruncate(pending'[s]),
             NEW i \in LastPart(file', InSession')
      PROVE  CeilBlocks(Extent(file'[i])) <= CeilBlocks(logicalSize')
    <2>1. UNCHANGED <<file, openLen, done>> /\ InSession' = InSession
        BY DEF Pushes, InSession
    <2>2. \A s \in DOMAIN pending : s \in Remaining'
        BY <1>1, <2>1, PushedSlots, SlotType DEF Remaining
    <2>3. \A s \in Remaining : ~IsTruncate(pending[s])
        BY <1>1, <1>4, <2>2, PushedSlots
    <2>4. CeilBlocks(Extent(file[i])) <= CeilBlocks(logicalSize)
        BY <1>2, <1>4, <2>1, <2>3 DEF LoggedWithin
    <2>5. file[i] \in Record
        BY <1>4, <2>1, SessionRecords DEF LastPart
    <2>6. CeilBlocks(Extent(file[i])) \in Int
        BY <2>5, ExtentRange, CeilRange
    <2> QED
        BY <1>1, <2>1, <2>4, <2>6
<1> QED
    BY <1>3, <1>4 DEF SizeWithin, PendingWithin, LoggedWithin

LEMMA WritingWithin ==
    ASSUME TypeOK, TypeOK', SessionInv, SizeWithin,
           NEW off \in 0 .. MaxSize - 1, NEW len \in 1 .. MaxSize - off,
           NEW buf \in [0 .. len - 1 -> Inputs],
           Write(off, len, buf) \/ WriteReadFails(off, len, buf)
    PROVE  SizeWithin'
<1> DEFINE first == FirstBlock(off)
           last == LastBlock(off, len)
<1>1. CeilBlocks(logicalSize') \in Int /\ CeilBlocks(logicalSize) \in Int /\ last \in Int
    BY CeilRange, SpanType, FormatAssumption DEF TypeOK, Block
<1>2. CASE Write(off, len, buf)
    <2>1. Idle /\ Pushes(first, last, off, buf)
        BY <1>2, WriteIs
    <2>2. /\ CeilBlocks(logicalSize') >= CeilBlocks(logicalSize)
          /\ CeilBlocks(logicalSize') >= last + 1
        BY <1>1, <1>2, WriteIs
    <2> HIDE DEF first, last
    <2> QED
        BY <1>1, <2>1, <2>2, PushesWithin
<1>3. CASE WriteReadFails(off, len, buf)
    <2>1. Idle /\ Pushes(first, last - 1, off, buf) /\ logicalSize' = logicalSize
        BY <1>3, WriteReadFailsIs
    <2>2. last < CeilBlocks(logicalSize)
        BY <1>3, WriteReadFailsIs, MappedInSession
    <2> DEFINE l == last - 1
    <2>3. Pushes(first, l, off, buf) /\ CeilBlocks(logicalSize') >= l + 1
          /\ CeilBlocks(logicalSize') >= CeilBlocks(logicalSize)
        BY <1>1, <2>1, <2>2
    <2> HIDE DEF first, last, l
    <2> QED
        BY <1>1, <2>1, <2>3, PushesWithin
<1> QED
    BY <1>2, <1>3

LEMMA TruncatingWithin ==
    ASSUME TypeOK, SessionInv, NEW n \in 0 .. MaxSize, Truncate(n)
    PROVE  SizeWithin'
<1> DEFINE keep == {s \in DOMAIN pending : pending[s].block < CeilBlocks(n)}
<1>1. LastSlot \in Nat /\ \A s \in DOMAIN pending : s \in Nat /\ s <= LastSlot
    BY LastSlotType, SlotType
<1>2. PICK w \in Nat : w = LastSlot + 1
    BY <1>1
<1>3. keep \subseteq DOMAIN pending /\ w \notin DOMAIN pending /\ w > 0
    BY <1>1, <1>2
<1> HIDE DEF keep
<1>4. pending' = [s \in keep \cup {LastSlot + 1} |->
                     IF s \in keep THEN pending[s] ELSE TruncateRecord(n)]
    BY DEF Truncate, keep
<1>5. /\ w \in DOMAIN pending' /\ pending'[w] = TruncateRecord(n)
      /\ \A s \in DOMAIN pending' : s = w \/ s \in DOMAIN pending
    BY <1>2, <1>3, <1>4
<1>6. Extent(pending'[w]) = n /\ IsTruncate(pending'[w])
    BY <1>5, MaxSizeType DEF TruncateRecord, Extent, IsTruncate, NoSize, Metadata
<1>7. logicalSize' = n /\ done' = 0 /\ CeilBlocks(n) \in Int
    BY IdleIs, CeilRange DEF Truncate
<1>8. PendingWithin'
    <2> SUFFICES ASSUME NEW s \in DOMAIN pending',
                        \A t \in DOMAIN pending' : t > s => ~IsTruncate(pending'[t])
                 PROVE  CeilBlocks(Extent(pending'[s])) <= CeilBlocks(logicalSize')
        BY DEF PendingWithin
    <2>1. s = w
        <3> SUFFICES ASSUME s # w PROVE FALSE
            OBVIOUS
        <3>1. s \in Nat /\ w > s
            BY <1>1, <1>2, <1>5
        <3> QED
            BY <1>5, <1>6, <3>1
    <2> QED
        BY <1>6, <1>7, <2>1
<1>9. w \in Remaining'
    BY <1>3, <1>5, <1>7 DEF Remaining
<1> QED
    BY <1>6, <1>8, <1>9 DEF SizeWithin, LoggedWithin

LEMMA SyncAppendWithin ==
    ASSUME TypeOK, SessionInv, SizeWithin, SyncAppend
    PROVE  SizeWithin'
<1>1. PICK s \in DOMAIN pending :
           /\ s > done /\ \A t \in DOMAIN pending : t > done => s <= t
           /\ Len(file') = Len(file) + 1 /\ Len(file) \in Nat
           /\ \A i \in 1 .. Len(file) : file'[i] = file[i]
           /\ file'[Len(file) + 1] = Flagged(pending[s], FlagOf(s))
           /\ logicalToPhysical' =
                  [c \in Block |-> IF pending[s].block = c THEN Len(file) + 1
                                   ELSE logicalToPhysical[c]]
           /\ \/ s # LastSlot /\ done' = s /\ UNCHANGED <<pending, pc>>
              \/ s = LastSlot /\ pending' = NothingPending /\ pc' = "flushing"
    BY SyncAppendIs
<1>2. open /\ UNCHANGED <<open, openLen, logicalSize>>
    BY DEF SyncAppend, SessionInv, SyncState
<1>3. PICK new \in Nat : new = Len(file) + 1
    BY <1>1
<1>4. /\ InSession' = InSession \cup {new} /\ InSession \subseteq 1 .. Len(file)
      /\ \A i \in InSession : i < new /\ file'[i] = file[i]
    BY <1>1, <1>2, <1>3, InSessionGrows, InSessionType
<1>5. /\ Extent(file'[new]) = Extent(pending[s])
      /\ IsTruncate(file'[new]) <=> IsTruncate(pending[s])
    BY <1>1, <1>3, FlaggedSame
<1>6. PendingWithin /\ LoggedWithin
    BY <1>2 DEF SizeWithin
<1>7. PendingWithin'
    BY <1>1, <1>2, <1>6, NothingType DEF PendingWithin
<1>8. ASSUME \A t \in Remaining' : ~IsTruncate(pending'[t]),
             NEW i \in LastPart(file', InSession')
      PROVE  CeilBlocks(Extent(file'[i])) <= CeilBlocks(logicalSize')
    <2>1. \A t \in DOMAIN pending : t > s => ~IsTruncate(pending[t])
        <3>1. CASE s = LastSlot
            <4>1. \A t \in DOMAIN pending : t <= s /\ t \in Nat /\ s \in Nat
                BY <3>1, LastSlotType, SlotType
            <4> QED
                BY <4>1
        <3>2. CASE s # LastSlot
            <4>1. done' = s /\ pending' = pending
                BY <1>1, <3>2
            <4> QED
                BY <1>8, <4>1 DEF Remaining
        <3> QED
            BY <3>1, <3>2
    <2>2. CASE i = new
        BY <1>2, <1>5, <1>6, <2>1, <2>2 DEF PendingWithin
    <2>3. CASE i # new
        <3>1. i \in InSession /\ \A k \in InSession \cup {new} : k > i => ~IsTruncate(file'[k])
            BY <1>4, <1>8, <2>3 DEF LastPart
        <3>2. i < new /\ ~IsTruncate(pending[s]) /\ file'[i] = file[i]
            BY <1>3, <1>4, <1>5, <3>1, SessionRecords
        <3>3. \A t \in Remaining : ~IsTruncate(pending[t])
            <4>1. \A t \in Remaining : t = s \/ t > s
                BY <1>1, SlotType DEF Remaining
            <4> QED
                BY <2>1, <3>2, <4>1 DEF Remaining
        <3>4. i \in LastPart(file, InSession)
            BY <1>4, <3>1 DEF LastPart
        <3> QED
            BY <1>2, <1>6, <3>2, <3>3, <3>4 DEF LoggedWithin
    <2> QED
        BY <2>2, <2>3
<1> QED
    BY <1>7, <1>8 DEF SizeWithin, LoggedWithin

LEMMA OpenWithin ==
    ASSUME TypeOK, SessionInv, Open
    PROVE  SizeWithin'
<1>1. DOMAIN pending' = {}
    BY DEF Open, SessionInv, SyncState
<1>2. /\ file' = Framed /\ openLen' = Len(Framed)
      /\ logicalSize' = RecoveredSize(Framed, Len(Framed))
    BY DEF Open
<1>3. Framed \in Seq(Record) /\ Len(Framed) \in Nat
    BY FramedType DEF TypeOK
<1> DEFINE S == Applied(Framed, Len(Framed))
<1>4. InSession' = S
    <2>1. \A i \in 1 .. Len(Framed) : ~(i > Len(Framed))
        BY <1>3
    <2> QED
        BY <1>2, <2>1 DEF InSession, Applied
<1>5. S \subseteq 1 .. Len(Framed)
    BY DEF Applied
<1>6. logicalSize' = SizeOf(Framed, S)
    BY <1>2 DEF RecoveredSize
<1> HIDE DEF S
<1>7. ASSUME NEW i \in LastPart(Framed, S)
      PROVE  CeilBlocks(Extent(Framed[i])) <= CeilBlocks(SizeOf(Framed, S))
    <2>1. i \in S /\ \A k \in S : Framed[k] \in Record
        BY <1>3, <1>5 DEF LastPart
    <2>2. SizeOf(Framed, S) \in 0 .. MaxSize /\ Extent(Framed[i]) \in 0 .. MaxSize
        BY <2>1, SizeOfType, ExtentRange
    <2>3. Extent(Framed[i]) <= SizeOf(Framed, S)
        BY <1>3, <1>5, <2>1, ExtentBounds
    <2> QED
        BY <2>2, <2>3, CeilMonotonic
<1> QED
    BY <1>1, <1>2, <1>4, <1>6, <1>7 DEF SizeWithin, PendingWithin, LoggedWithin

LEMMA WithinStep ==
    ASSUME TypeOK, TypeOK', SessionInv, SizeWithin, [Next]_vars
    PROVE  SizeWithin'
<1>1. CASE Open
    BY <1>1, OpenWithin
<1>2. CASE Writing
    BY <1>2, WritingWithin DEF Writing
<1>3. CASE Truncating
    BY <1>3, TruncatingWithin DEF Truncating
<1>4. CASE SyncAppend
    BY <1>4, SyncAppendWithin
<1>5. CASE SyncStart \/ SyncFlush \/ SyncFlushFails \/ UNCHANGED vars
    <2>1. UNCHANGED <<file, open, openLen, pending, logicalSize, done>>
        BY <1>5 DEF SyncStart, SyncFlush, SyncFlushFails, FsyncSucceeds, storageVars,
                    vars, mapperVars
    <2> QED
        BY <2>1 DEF SizeWithin, PendingWithin, LoggedWithin, Remaining, InSession
<1>6. CASE SyncAppendFails
    <2>1. UNCHANGED <<file, open, openLen, pending, logicalSize>> /\ done' = 0
        BY <1>6 DEF SyncAppendFails, AppendFailsClean, AppendFailsTorn, storageVars
    <2>2. \A s \in DOMAIN pending : s > 0
        BY SlotType
    <2>3. (\A s \in Remaining' : ~IsTruncate(pending'[s]))
              => \A s \in Remaining : ~IsTruncate(pending[s])
        BY <2>1, <2>2 DEF Remaining
    <2>4. InSession' = InSession
        BY <2>1 DEF InSession
    <2> QED
        BY <2>1, <2>3, <2>4 DEF SizeWithin, PendingWithin, LoggedWithin
<1>7. CASE OpenFails \/ Close \/ Crash
    <2>1. ~open'
        BY <1>7 DEF OpenFails, Close, Crash, Forget, mapperVars
    <2> QED
        BY <2>1 DEF SizeWithin
<1> QED
    BY <1>1, <1>2, <1>3, <1>4, <1>5, <1>6, <1>7 DEF Next, SyncStep

-----------------------------------------------------------------------------
(* The file as the durable byte array: what its reader sees, and what an   *)
(* Init finds when the machine stops with n records in the file.           *)

Shown == ImageFrom([b \in Block |-> CurrentBlock(b)], logicalSize)
Seen == IF open THEN Shown ELSE EmptyImage
After(n) == ImageOf(file, Applied(file, n))
Promised == {After(n) : n \in synced .. Len(file)}

LEMMA ContentsAre == Contents = Shown
<1>1. \A u \in 0 .. MaxSize - 1 : u \div BlockUnits \in Block
    BY UnitsBlock
<1> QED
    BY <1>1 DEF Contents, Image, Shown, ImageFrom

LEMMA RecoverableIs ==
    ASSUME TypeOK, LogWhole
    PROVE  Recoverable = Promised
<1>1. /\ Len(file) \in Nat /\ synced \in 0 .. Len(file)
      /\ \A n \in synced .. Len(file) : Smaller(n, intact) = n
    BY DEF TypeOK, StorageTypeOK, LogWhole, Smaller
<1> QED
    BY <1>1 DEF Recoverable, Promised, After

LEMMA ShownType ==
    ASSUME TypeOK
    PROVE  /\ Shown \in Images /\ Shown.size = CeilBlocks(logicalSize)
           /\ \A u \in 0 .. MaxSize - 1 :
                  Shown.data[u] = CurrentBlock(u \div BlockUnits)[u % BlockUnits]
<1> DEFINE f == [b \in Block |-> CurrentBlock(b)]
<1>1. f \in [Block -> BlockData] /\ logicalSize \in 0 .. MaxSize
    BY CurrentBlockType DEF TypeOK
<1>2. Shown = ImageFrom(f, logicalSize)
    BY DEF Shown
<1>3. \A u \in 0 .. MaxSize - 1 : f[u \div BlockUnits] = CurrentBlock(u \div BlockUnits)
    BY UnitsBlock
<1> HIDE DEF f
<1>4. Shown \in Images /\ Shown.size = CeilBlocks(logicalSize)
    BY <1>1, <1>2, ImageFromIs
<1>5. \A u \in 0 .. MaxSize - 1 : Shown.data[u] = f[u \div BlockUnits][u % BlockUnits]
    BY <1>2 DEF ImageFrom
<1> QED
    BY <1>3, <1>4, <1>5

(* With nothing pending the reader sees what the whole log means.          *)
LEMMA SettledShows ==
    ASSUME TypeOK, SessionInv, LogWhole, SizeInv, SizeWithin, open, DOMAIN pending = {}
    PROVE  Shown = After(Len(file))
<1>1. Applied(file, Len(file)) = InSession
    BY SettledApplies
<1>2. Len(file) \in Nat /\ file \in [1 .. Len(file) -> Record] /\ Remaining = {}
    BY DEF TypeOK, StorageTypeOK, Remaining
<1> DEFINE f == [b \in Block |-> BlockAt(file, MapOf(file, InSession)[b])]
           size == SizeOf(file, InSession)
<1>3. \A b \in Block : CurrentBlock(b) = f[b]
    BY <1>2 DEF CurrentBlock, PendingWriters, SessionInv, SessionMap, MapOf
<1>4. [b \in Block |-> CurrentBlock(b)] = f
    BY <1>3
<1>5. size \in 0 .. MaxSize /\ logicalSize \in 0 .. MaxSize
    BY SessionRecords, SizeOfType DEF TypeOK
<1>6. CeilBlocks(logicalSize) = CeilBlocks(size)
    <2>1. CeilBlocks(size) <= CeilBlocks(logicalSize)
        BY <1>2, SessionSizeWithin
    <2>2. logicalSize <= size
        <3>1. CASE logicalSize = 0
            BY <1>5, <3>1, MaxSizeType
        <3>2. CASE logicalSize # 0
            <4>1. PICK i \in InSession : LoggedReaches(i)
                BY <3>2 DEF SizeInv, SizeReached
            <4>2. i \in LastPart(file, InSession) /\ logicalSize <= Extent(file[i])
                BY <4>1 DEF LoggedReaches, LastPart
            <4>3. Extent(file[i]) <= size
                BY <4>2, SessionRecords, ExtentBounds
            <4>4. Extent(file[i]) \in 0 .. MaxSize
                BY <4>1, SessionRecords, ExtentRange
            <4> HIDE DEF size
            <4> QED
                BY <1>5, <4>2, <4>3, <4>4, MaxSizeType
        <3> QED
            BY <3>1, <3>2
    <2>3. CeilBlocks(logicalSize) <= CeilBlocks(size)
        BY <1>5, <2>2, CeilMonotonic
    <2>4. CeilBlocks(logicalSize) \in Int /\ CeilBlocks(size) \in Int
        BY <1>5, CeilRange
    <2> QED
        BY <2>1, <2>3, <2>4
<1>7. After(Len(file)) = ImageFrom(f, size)
    BY <1>1, ImageOfIs DEF After
<1> HIDE DEF f, size
<1>8. ImageFrom(f, logicalSize) = ImageFrom(f, size)
    BY <1>6 DEF ImageFrom
<1> QED
    BY <1>4, <1>7, <1>8 DEF Shown

-----------------------------------------------------------------------------
(* Writes and truncations are modifications of the array.                  *)

LEMMA AbstractNames ==
    /\ Abstract!EmptyImage = EmptyImage /\ Abstract!Images = Images
    /\ \A n : Abstract!CeilBlocks(n) = CeilBlocks(n)
    /\ Abstract!MaxSize = MaxSize /\ Abstract!Unit = 0 .. MaxSize - 1
    BY DEF Abstract!EmptyImage, EmptyImage, Abstract!Image, Image, Abstract!Hole, Hole,
       Abstract!ZeroBlock, ZeroBlock, Abstract!Images, Images, Abstract!Unit, Abstract!MaxSize,
       MaxSize, Abstract!CeilBlocks, CeilBlocks

ShownOK == /\ Shown \in Images /\ Shown.size = CeilBlocks(logicalSize)
           /\ \A u \in 0 .. MaxSize - 1 :
                  Shown.data[u] = CurrentBlock(u \div BlockUnits)[u % BlockUnits]

LEMMA ShownTypes ==
    /\ TypeOK => ShownOK
    /\ TypeOK' => ShownOK'
<1>1. TypeOK => ShownOK
    BY ShownType DEF ShownOK
<1> QED
    BY <1>1, PTL

LEMMA PushIsWritten ==
    ASSUME TypeOK, TypeOK', NEW first, NEW last, NEW off \in Nat, NEW n \in Nat, NEW buf,
           Pushes(first, last, off, buf),
           \A u \in 0 .. MaxSize - 1 :
               u \div BlockUnits \in first .. last /\ u - off \in DOMAIN buf
                   => u \in off .. off + n - 1,
           CeilBlocks(logicalSize') = Abstract!Larger(CeilBlocks(logicalSize), CeilBlocks(off + n))
    PROVE  Abstract!Written(Shown, Shown', off, n)
<1>1. ShownOK /\ ShownOK'
    BY ShownTypes
<1>2. ASSUME NEW u \in (0 .. MaxSize - 1) \ (off .. off + n - 1)
      PROVE  Shown'.data[u] = Shown.data[u]
    <2> DEFINE b == u \div BlockUnits
               r == u % BlockUnits
    <2>1. b \in Block /\ r \in 0 .. BlockUnits - 1 /\ u = b * BlockUnits + r
        BY UnitSplit
    <2>2. Shown'.data[u] = CurrentBlock(b)'[r] /\ Shown.data[u] = CurrentBlock(b)[r]
        BY <1>1 DEF ShownOK
    <2>3. b \in first .. last => u - off \notin DOMAIN buf
        OBVIOUS
    <2> HIDE DEF b, r
    <2>4. CurrentBlock(b)' = IF b \in first .. last THEN Overlay(b, off, buf) ELSE CurrentBlock(b)
        BY <2>1, PushedBlock
    <2>5. ASSUME b \in first .. last PROVE Overlay(b, off, buf)[r] = CurrentBlock(b)[r]
        <3>1. b * BlockUnits + r - off = u - off
            <4>1. b * BlockUnits \in Int /\ r \in Int /\ u = b * BlockUnits + r
                BY <2>1, FormatAssumption DEF Block
            <4> QED
                BY <4>1
        <3>2. b * BlockUnits + r - off \notin DOMAIN buf
            BY ONLY <2>3, <2>5, <3>1
        <3> QED
            BY <2>1, <3>2 DEF Overlay
    <2> QED
        BY <2>2, <2>4, <2>5
<1>3. Shown'.size = Abstract!Larger(Shown.size, CeilBlocks(off + n))
    BY <1>1 DEF ShownOK
<1> QED
    BY <1>2, <1>3, AbstractNames DEF Abstract!Written

LEMMA WriteIsWritten ==
    ASSUME TypeOK, TypeOK', NEW off \in 0 .. MaxSize - 1, NEW len \in 1 .. MaxSize - off,
           NEW buf \in [0 .. len - 1 -> Inputs], Write(off, len, buf)
    PROVE  Abstract!Written(Shown, Shown', off, len)
<1>1. off \in Nat /\ len \in Nat
    BY MaxSizeType
<1>2. \A u \in 0 .. MaxSize - 1 : u - off \in DOMAIN buf => u \in off .. off + len - 1
    BY <1>1, MaxSizeType
<1>3. CeilBlocks(logicalSize') = Abstract!Larger(CeilBlocks(logicalSize), CeilBlocks(off + len))
    BY WriteIs DEF Abstract!Larger
<1> DEFINE first == FirstBlock(off)
           last == LastBlock(off, len)
<1>4. Pushes(first, last, off, buf)
    BY WriteIs
<1> HIDE DEF first, last
<1> QED
    BY <1>1, <1>2, <1>3, <1>4, PushIsWritten

LEMMA ReadFailsIsWritten ==
    ASSUME TypeOK, TypeOK', SessionInv, SizeWithin,
           NEW off \in 0 .. MaxSize - 1, NEW len \in 1 .. MaxSize - off,
           NEW buf \in [0 .. len - 1 -> Inputs], WriteReadFails(off, len, buf)
    PROVE  \E n \in 1 .. MaxSize - off : Abstract!Written(Shown, Shown', off, n)
<1> DEFINE first == FirstBlock(off)
           last == LastBlock(off, len)
           end == last * BlockUnits
<1>1. off \in Nat /\ len \in Nat /\ BlockUnits \in Nat \ {0} /\ MaxSize \in Nat
    BY MaxSizeType, FormatAssumption
<1>2. /\ first \in Nat /\ first < last /\ last \in Block /\ last \in Nat /\ last <= NumBlocks
    BY SpanType, FormatAssumption DEF WriteReadFails, Block
<1>3. end \in Nat /\ end <= MaxSize
    BY <1>1, <1>2, Monotonic, FormatAssumption DEF MaxSize
<1>4. off < end
    BY <1>1, <1>2, UnitBelow DEF FirstBlock
<1>5. Pushes(first, last - 1, off, buf) /\ Idle /\ logicalSize' = logicalSize
    BY WriteReadFailsIs
<1>6. last < CeilBlocks(logicalSize)
    BY WriteReadFailsIs, MappedInSession
<1>7. CeilBlocks(end) = last
    BY <1>2, CeilOfBlocks
<1>8. CeilBlocks(logicalSize) \in Int
    BY CeilRange DEF TypeOK
<1>9. PICK n \in 1 .. MaxSize - off : off + n = end
    <2> HIDE DEF end
    <2>1. end - off \in 1 .. MaxSize - off /\ off + (end - off) = end
        BY <1>1, <1>3, <1>4
    <2> QED
        BY <2>1
<1>10. CeilBlocks(logicalSize') = Abstract!Larger(CeilBlocks(logicalSize), CeilBlocks(off + n))
    BY <1>2, <1>5, <1>6, <1>7, <1>8, <1>9 DEF Abstract!Larger
<1>11. ASSUME NEW u \in 0 .. MaxSize - 1,
              u \div BlockUnits \in first .. last - 1, u - off \in DOMAIN buf
       PROVE  u \in off .. off + n - 1
    <2>1. u \div BlockUnits < last
        BY <1>2, <1>11
    <2>2. u < end
        BY <1>2, <2>1, UnitBelow
    <2>3. u - off \in 0 .. len - 1
        BY <1>11
    <2> HIDE DEF end
    <2>4. u \in Int /\ off <= u
        BY <1>1, <2>3
    <2> QED
        BY <1>1, <1>3, <1>9, <2>2, <2>4
<1> DEFINE l == last - 1
<1>12. Pushes(first, l, off, buf)
    BY <1>5
<1>13. \A u \in 0 .. MaxSize - 1 :
           u \div BlockUnits \in first .. l /\ u - off \in DOMAIN buf => u \in off .. off + n - 1
    BY <1>11
<1> HIDE DEF first, last, end, l
<1>14. Abstract!Written(Shown, Shown', off, n)
    <2>1. n \in Nat
        BY <1>1
    <2> QED
        BY <1>1, <1>10, <1>12, <1>13, <2>1, PushIsWritten
<1> QED
    BY <1>14

LEMMA TruncateIsTruncated ==
    ASSUME TypeOK, TypeOK', NEW n \in 0 .. MaxSize, Truncate(n)
    PROVE  Abstract!Truncated(Shown, Shown', n)
<1> DEFINE c == CeilBlocks(n)
<1>1. c \in Nat
    BY CeilRange, FormatAssumption
<1>2. ShownOK /\ ShownOK' /\ logicalSize' = n
    BY ShownTypes DEF Truncate
<1>3. \A b \in Block : CurrentBlock(b)' = IF b >= c THEN ZeroBlock ELSE CurrentBlock(b)
    BY TruncatedBlock
<1> HIDE DEF c
<1>4. ASSUME NEW u \in 0 .. MaxSize - 1
      PROVE  Shown'.data[u] = IF u < c * BlockUnits THEN Shown.data[u] ELSE Zero
    <2> DEFINE b == u \div BlockUnits
               r == u % BlockUnits
    <2>1. b \in Block /\ r \in 0 .. BlockUnits - 1 /\ b \in Nat
        BY UnitSplit, FormatAssumption DEF Block
    <2>2. u < c * BlockUnits <=> b < c
        BY <1>1, UnitBelow
    <2>3. Shown'.data[u] = CurrentBlock(b)'[r] /\ Shown.data[u] = CurrentBlock(b)[r]
        BY <1>2 DEF ShownOK
    <2> HIDE DEF b, r
    <2>4. ZeroBlock[r] = Zero
        BY <2>1 DEF ZeroBlock
    <2>5. CurrentBlock(b)' = IF b < c THEN CurrentBlock(b) ELSE ZeroBlock
        BY <1>1, <1>3, <2>1
    <2> QED
        BY <2>2, <2>3, <2>4, <2>5
<1>5. Shown'.size = c
    BY <1>2 DEF ShownOK, c
<1> QED
    BY <1>4, <1>5, AbstractNames DEF Abstract!Truncated, c

-----------------------------------------------------------------------------
(* What each step makes of the outcomes of an open.                        *)

Extends(n) ==
    /\ n \in Nat /\ Len(file') \in Nat /\ n <= Len(file')
    /\ \A i \in 1 .. n : file'[i] = file[i]

LEMMA AfterSame ==
    ASSUME NEW n \in Nat, Extends(n), NEW m \in 0 .. n
    PROVE  After(m)' = After(m)
<1>1. m \in Nat /\ m <= m /\ \A i \in 1 .. m : file'[i] = file[i]
    BY DEF Extends
<1>2. \A i \in m + 1 .. m : file'[i].flag # Commit
    BY <1>1
<1> QED
    BY ONLY <1>1, <1>2, UncommittedUnseen DEF After

LEMMA AfterUncommitted ==
    ASSUME NEW n \in Nat, Extends(n), NEW m \in Nat, m = n + 1, file'[m].flag # Commit
    PROVE  After(m)' = After(n)
<1>1. n <= m /\ \A i \in 1 .. n : file'[i] = file[i]
    BY DEF Extends
<1>2. \A i \in n + 1 .. m : file'[i].flag # Commit
    <2>1. \A i \in n + 1 .. m : i = m
        OBVIOUS
    <2> QED
        BY <2>1
<1> QED
    BY ONLY <1>1, <1>2, UncommittedUnseen DEF After

StorageOK == Len(file) \in Nat /\ synced \in 0 .. Len(file)

LEMMA StorageIs == (TypeOK => StorageOK) /\ (TypeOK' => StorageOK')
<1>1. TypeOK => StorageOK
    BY DEF TypeOK, StorageTypeOK, StorageOK
<1> QED
    BY <1>1, PTL

(* A record that does not commit adds no outcome.                          *)
LEMMA UncommittedPromise ==
    ASSUME StorageOK, synced' = synced, Extends(Len(file)),
           \/ Len(file') = Len(file)
           \/ Len(file') = Len(file) + 1 /\ file'[Len(file) + 1].flag # Commit
    PROVE  Promised' = Promised
<1>1. PICK n \in Nat : n = Len(file) /\ Extends(n) /\ synced \in 0 .. n
    BY DEF StorageOK
<1>2. \A m \in 0 .. n : After(m)' = After(m)
    BY <1>1, AfterSame
<1>3. Promised = {After(m) : m \in synced .. n}
    BY <1>1 DEF Promised
<1>4. Promised' = {After(m)' : m \in synced .. Len(file')}
    BY DEF Promised
<1>5. CASE Len(file') = n
    BY <1>1, <1>2, <1>3, <1>4, <1>5
<1>6. CASE Len(file') = n + 1 /\ file'[n + 1].flag # Commit
    <2>1. PICK l \in Nat : l = n + 1
        OBVIOUS
    <2>2. After(l)' = After(n)
        BY <1>1, <1>6, <2>1, AfterUncommitted
    <2>3. synced .. l = (synced .. n) \cup {l} /\ n \in synced .. n /\ synced .. n \subseteq 0 .. n
        BY <1>1, <2>1
    <2> QED
        BY <1>2, <1>3, <1>4, <1>6, <2>1, <2>2, <2>3
<1> QED
    BY <1>1, <1>5, <1>6

(* Any other record adds one.                                              *)
LEMMA OnePromise ==
    ASSUME StorageOK, synced' = synced, Extends(Len(file)), NEW l \in Nat,
           l = Len(file) + 1, Len(file') = l
    PROVE  Promised' = Promised \cup {After(l)'}
<1>1. PICK n \in Nat : n = Len(file) /\ Extends(n) /\ synced \in 0 .. n
    BY DEF StorageOK
<1>2. \A m \in 0 .. n : After(m)' = After(m)
    BY <1>1, AfterSame
<1>3. Promised = {After(m) : m \in synced .. n}
    BY <1>1 DEF Promised
<1>4. Promised' = {After(m)' : m \in synced .. l}
    BY DEF Promised
<1>5. synced .. l = (synced .. n) \cup {l} /\ synced .. n \subseteq 0 .. n
    BY <1>1
<1> QED
    BY <1>2, <1>3, <1>4, <1>5

LEMMA CrashPromise ==
    ASSUME TypeOK, TypeOK', Crash
    PROVE  Promised' \in SUBSET Promised
<1>1. StorageOK /\ StorageOK' /\ file \in Seq(Record)
    BY StorageIs DEF TypeOK, StorageTypeOK
<1>2. PICK n \in synced .. Len(file) : file' = SubSeq(file, 1, n) /\ synced' = synced
    BY DEF Crash, StorageCrashes
<1>3. n \in Nat /\ n \in 0 .. Len(file)
    BY <1>1, <1>2 DEF StorageOK
<1>4. Len(file') = n /\ \A i \in 1 .. n : file'[i] = file[i]
    BY <1>1, <1>2, <1>3
<1>5. \A m \in 0 .. n : After(m)' = After(m)
    BY <1>3, <1>4, AfterSame DEF Extends
<1>6. synced .. n \subseteq 0 .. n /\ synced .. n \subseteq synced .. Len(file)
    BY <1>1, <1>2, <1>3 DEF StorageOK
<1>7. Promised' = {After(m)' : m \in synced .. n}
    BY <1>2, <1>4 DEF Promised
<1> QED
    BY <1>5, <1>6, <1>7 DEF Promised

LEMMA PromiseSome ==
    ASSUME StorageOK
    PROVE  Promised # {} /\ After(Len(file)) \in Promised
<1>1. Len(file) \in synced .. Len(file)
    BY DEF StorageOK
<1> QED
    BY <1>1 DEF Promised

-----------------------------------------------------------------------------
(* Every step is one of DurableFile, or changes nothing there.             *)

DurableInv == /\ TypeOK /\ SessionInv /\ AppendedIsMapped
              /\ LogWhole /\ SizeInv /\ SizeWithin

AbstractStep == Abstract!Next \/ UNCHANGED Abstract!vars

StateOK == /\ (IF open THEN Contents ELSE EmptyImage) = Seen
           /\ Recoverable = Promised
           /\ StorageOK

LEMMA StateIs ==
    /\ DurableInv => StateOK
    /\ DurableInv' => StateOK'
<1>1. DurableInv => StateOK
    BY ContentsAre, RecoverableIs, StorageIs DEF DurableInv, StateOK, Seen
<1> QED
    BY <1>1, PTL

LEMMA PromisesNow ==
    /\ StorageOK => After(Len(file)) \in Promised
    /\ StorageOK' => After(Len(file))' \in Promised'
<1> DEFINE IsPromised == After(Len(file)) \in Promised
<1>1. StorageOK => IsPromised
    BY PromiseSome
<1> HIDE DEF IsPromised
<1>2. StorageOK' => IsPromised'
    BY <1>1, PTL
<1> QED
    BY <1>1, <1>2 DEF IsPromised

LEMMA SettledSeen ==
    /\ DurableInv /\ open /\ DOMAIN pending = {} => Shown = After(Len(file))
    /\ DurableInv' /\ open' /\ DOMAIN pending' = {} => Shown' = After(Len(file))'
<1> DEFINE Settles == DurableInv /\ open /\ DOMAIN pending = {}
           Equals == Shown = After(Len(file))
<1>1. Settles => Equals
    BY SettledShows DEF DurableInv
<1> HIDE DEF Settles, Equals
<1>2. Settles' => Equals'
    BY <1>1, PTL
<1> QED
    BY <1>1, <1>2 DEF Settles, Equals

(* Steps that leave the log as it is.                                      *)
LEMMA SameLog ==
    ASSUME UNCHANGED <<file, synced>>
    PROVE  Promised' = Promised /\ (After(Len(file)))' = After(Len(file))
    BY DEF Promised, After

LEMMA SameShown ==
    ASSUME UNCHANGED <<open, logicalSize>>,
           open => \A b \in Block : CurrentBlock(b)' = CurrentBlock(b)
    PROVE  Seen' = Seen
<1>1. CASE open
    BY <1>1 DEF Seen, Shown
<1>2. CASE ~open
    BY <1>2 DEF Seen
<1> QED
    BY <1>1, <1>2

LEMMA FramedPromise ==
    ASSUME DurableInv, DurableInv', file' = Framed, synced' = synced
    PROVE  Promised' = Promised
<1>1. /\ Len(Framed) \in Nat /\ Len(file) \in Nat
      /\ \A i \in 1 .. Len(file) : Framed[i] = file[i]
      /\ \/ Len(Framed) = Len(file)
         \/ Len(Framed) = Len(file) + 1 /\ Framed[Len(file) + 1].flag = Aborted
    BY FramedIs DEF DurableInv, LogWhole
<1>2. StorageOK /\ Extends(Len(file))
    BY <1>1, StorageIs DEF DurableInv, Extends
<1>3. \/ Len(file') = Len(file)
      \/ Len(file') = Len(file) + 1 /\ file'[Len(file) + 1].flag # Commit
    BY <1>1 DEF Aborted, Commit
<1> QED
    BY <1>2, <1>3, UncommittedPromise

LEMMA OpenIsOpen ==
    ASSUME DurableInv, DurableInv', Open
    PROVE  Abstract!Open
<1>1. ~open /\ open' /\ DOMAIN pending' = {}
    BY DEF Open, DurableInv, SessionInv, SyncState
<1>2. Promised' = Promised
    BY FramedPromise DEF Open
<1>3. StateOK /\ StateOK'
    BY StateIs
<1>4. Shown' \in Promised'
    <2>1. Shown' = After(Len(file))'
        BY <1>1, SettledSeen
    <2> QED
        BY <1>3, <2>1, PromisesNow DEF StateOK
<1>5. Seen' = Shown'
    BY <1>1 DEF Seen
<1> QED
    BY <1>1, <1>2, <1>3, <1>4, <1>5 DEF Abstract!Open, StateOK

LEMMA ModifyIsModify ==
    ASSUME DurableInv, DurableInv', Writing \/ Truncating
    PROVE  Abstract!Modify
<1>1. TypeOK /\ TypeOK' /\ SessionInv /\ SizeWithin
    BY DEF DurableInv
<1>2. open /\ open' /\ UNCHANGED storageVars
    <2>1. UNCHANGED <<storageVars, open>>
        BY DEF Writing, Truncating, Write, WriteReadFails, Truncate
    <2>2. open
        BY DEF Writing, Truncating, Write, WriteReadFails, Truncate, Idle
    <2> QED
        BY <2>1, <2>2
<1>3. Promised' = Promised
    BY <1>2, SameLog DEF storageVars
<1>4. StateOK /\ StateOK' /\ ShownOK'
    BY <1>1, StateIs, ShownTypes
<1>5. Seen = Shown /\ Seen' = Shown'
    BY <1>2 DEF Seen
<1>6. \/ \E off \in 0 .. MaxSize - 1 : \E n \in 1 .. MaxSize - off :
             Abstract!Written(Shown, Shown', off, n)
      \/ \E n \in 0 .. MaxSize : Abstract!Truncated(Shown, Shown', n)
    <2>1. CASE Writing
        <3>1. PICK off \in 0 .. MaxSize - 1 : \E len \in 1 .. MaxSize - off :
                  \E buf \in [0 .. len - 1 -> Inputs] :
                      Write(off, len, buf) \/ WriteReadFails(off, len, buf)
            BY <2>1 DEF Writing
        <3>2. PICK len \in 1 .. MaxSize - off : \E buf \in [0 .. len - 1 -> Inputs] :
                  Write(off, len, buf) \/ WriteReadFails(off, len, buf)
            BY <3>1
        <3>3. PICK buf \in [0 .. len - 1 -> Inputs] :
                  Write(off, len, buf) \/ WriteReadFails(off, len, buf)
            BY <3>2
        <3>4. \E n \in 1 .. MaxSize - off : Abstract!Written(Shown, Shown', off, n)
            BY <1>1, <3>3, WriteIsWritten, ReadFailsIsWritten
        <3> QED
            BY <3>4
    <2>2. CASE Truncating
        BY <1>1, <2>2, TruncateIsTruncated DEF Truncating
    <2> QED
        BY <2>1, <2>2
<1>7. Shown' \in Abstract!Images
    BY <1>4, AbstractNames DEF ShownOK
<1> QED
    BY <1>2, <1>3, <1>4, <1>5, <1>6, <1>7, AbstractNames DEF Abstract!Modify, StateOK

LEMMA SyncAppendReaches ==
    ASSUME DurableInv, DurableInv', SyncAppend
    PROVE  Abstract!SyncReaches \/ UNCHANGED Abstract!vars
<1>1. TypeOK /\ TypeOK' /\ SessionInv /\ AppendedIsMapped
    BY DEF DurableInv
<1>2. PICK s \in DOMAIN pending :
           /\ s > done /\ \A t \in DOMAIN pending : t > done => s <= t
           /\ Len(file') = Len(file) + 1 /\ Len(file) \in Nat
           /\ \A i \in 1 .. Len(file) : file'[i] = file[i]
           /\ file'[Len(file) + 1] = Flagged(pending[s], FlagOf(s))
           /\ logicalToPhysical' =
                  [c \in Block |-> IF pending[s].block = c THEN Len(file) + 1
                                   ELSE logicalToPhysical[c]]
           /\ \/ s # LastSlot /\ done' = s /\ UNCHANGED <<pending, pc>>
              \/ s = LastSlot /\ pending' = NothingPending /\ pc' = "flushing"
    BY <1>1, SyncAppendIs
<1>3. open /\ UNCHANGED <<open, openLen, logicalSize, synced>>
    BY <1>1 DEF SyncAppend, SessionInv, SyncState, AppendSucceeds
<1>4. Seen' = Seen /\ Shown' = Shown
    <2>1. \A b \in Block : CurrentBlock(b)' = CurrentBlock(b)
        BY <1>1, SyncAppendKeeps
    <2>2. Seen' = Seen
        BY <1>3, <2>1, SameShown
    <2> QED
        BY <1>3, <2>2 DEF Seen
<1>5. StateOK /\ StateOK' /\ StorageOK
    BY StateIs DEF StateOK
<1>6. Extends(Len(file))
    BY <1>2 DEF Extends
<1>7. file'[Len(file) + 1].flag = FlagOf(s)
    BY <1>2 DEF Flagged
<1>8. CASE s # LastSlot
    <2>1. file'[Len(file) + 1].flag # Commit
        BY <1>7, <1>8 DEF FlagOf, Commit, Chained
    <2>2. Promised' = Promised
        BY <1>2, <1>3, <1>5, <1>6, <2>1, UncommittedPromise
    <2> QED
        BY <1>3, <1>4, <1>5, <2>2 DEF Abstract!vars, StateOK
<1>9. CASE s = LastSlot
    <2>1. DOMAIN pending' = {}
        BY <1>2, <1>9, NothingType
    <2>2. PICK l \in Nat : l = Len(file) + 1
        BY <1>2
    <2>3. Promised' = Promised \cup {After(l)'}
        BY <1>2, <1>3, <1>5, <1>6, <2>2, OnePromise
    <2>4. Shown' = After(Len(file))'
        BY <1>3, <2>1, SettledSeen
    <2>5. After(Len(file))' = After(l)'
        BY <1>2, <2>2 DEF After
    <2>6. Promised' = Promised \cup {Seen}
        BY <1>3, <1>4, <2>3, <2>4, <2>5 DEF Seen
    <2> QED
        BY <1>3, <1>4, <1>5, <2>6 DEF Abstract!SyncReaches, StateOK
<1> QED
    BY <1>8, <1>9

LEMMA FlushSucceeds ==
    ASSUME DurableInv, DurableInv', SyncFlush
    PROVE  Abstract!SyncSucceeds
<1>1. open /\ DOMAIN pending = {}
    BY DEF SyncFlush, DurableInv, SessionInv, SyncState
<1>2. UNCHANGED <<file, open, pending, logicalToPhysical, logicalSize>> /\ synced' = Len(file)
    BY DEF SyncFlush, FsyncSucceeds
<1>3. StateOK /\ StateOK' /\ StorageOK
    BY StateIs DEF StateOK
<1>4. Seen' = Seen
    BY <1>2, SameShown DEF CurrentBlock, PendingWriters
<1>5. Shown = After(Len(file)) /\ After(Len(file)) \in Promised
    BY <1>1, <1>3, SettledSeen, PromiseSome
<1>6. Promised' = {After(Len(file))}
    <2>1. synced' .. Len(file') = {Len(file)}
        BY <1>2, <1>3 DEF StorageOK
    <2>2. \A n : After(n)' = After(n)
        BY <1>2 DEF After
    <2> QED
        BY <2>1, <2>2 DEF Promised
<1> QED
    BY <1>1, <1>2, <1>3, <1>4, <1>5, <1>6 DEF Abstract!SyncSucceeds, StateOK, Seen

LEMMA EndIsStop ==
    ASSUME DurableInv, DurableInv', Close \/ Crash
    PROVE  Abstract!Stop
<1>1. ~open' /\ Seen' = EmptyImage
    BY DEF Close, Crash, Forget, Seen
<1>2. StateOK /\ StateOK' /\ Promised' # {}
    <2>1. StorageOK' => Promised' # {}
        BY PromisesNow
    <2> QED
        BY <2>1, StateIs DEF StateOK
<1>3. Promised' \in SUBSET Promised
    <2>1. CASE Close
        <3>1. UNCHANGED <<file, synced>>
            BY <2>1 DEF Close, storageVars
        <3> QED
            BY <3>1, SameLog
    <2>2. CASE Crash
        BY <2>2, CrashPromise DEF DurableInv
    <2> QED
        BY <2>1, <2>2
<1> QED
    BY <1>1, <1>2, <1>3, AbstractNames DEF Abstract!Stop, StateOK

LEMMA AbstractSteps ==
    DurableInv /\ DurableInv' /\ [Next]_vars => AbstractStep
<1> SUFFICES ASSUME DurableInv, DurableInv', [Next]_vars
             PROVE  AbstractStep
    OBVIOUS
<1>1. StateOK /\ StateOK'
    BY StateIs
<1>2. CASE Open
    BY <1>2, OpenIsOpen DEF AbstractStep, Abstract!Next
<1>3. CASE OpenFails
    <2>1. ~open /\ ~open' /\ synced' = synced /\ (file' = file \/ file' = Framed)
        BY <1>3 DEF OpenFails, mapperVars, storageVars
    <2>2. Promised' = Promised
        BY <2>1, FramedPromise, SameLog
    <2>3. open = FALSE /\ open' = FALSE
        BY <2>1 DEF DurableInv, TypeOK
    <2>4. Seen' = Seen /\ open' = open
        BY <2>3 DEF Seen
    <2> QED
        BY <1>1, <2>2, <2>4 DEF AbstractStep, Abstract!vars, StateOK
<1>4. CASE Writing \/ Truncating
    BY <1>4, ModifyIsModify DEF AbstractStep, Abstract!Next
<1>5. CASE SyncAppend
    BY <1>5, SyncAppendReaches DEF AbstractStep, Abstract!Next
<1>6. CASE SyncFlush
    BY <1>6, FlushSucceeds DEF AbstractStep, Abstract!Next
<1>7. CASE Close \/ Crash
    BY <1>7, EndIsStop DEF AbstractStep, Abstract!Next
<1>8. CASE SyncStart \/ SyncAppendFails \/ SyncFlushFails \/ UNCHANGED vars
    <2>1. UNCHANGED <<file, synced, open, pending, logicalToPhysical, logicalSize>>
        BY <1>8 DEF SyncStart, SyncAppendFails, AppendFailsClean, AppendFailsTorn,
                    SyncFlushFails, storageVars, vars, mapperVars
    <2>2. Promised' = Promised /\ Seen' = Seen
        BY <2>1, SameLog, SameShown DEF CurrentBlock, PendingWriters
    <2> QED
        BY <1>1, <2>1, <2>2 DEF AbstractStep, Abstract!vars, StateOK
<1> QED
    BY <1>2, <1>3, <1>4, <1>5, <1>6, <1>7, <1>8 DEF Next, SyncStep

LEMMA InitAbstract == Init => DurableInv /\ Abstract!Init
<1> SUFFICES ASSUME Init PROVE DurableInv /\ Abstract!Init
    OBVIOUS
<1>1. TypeOK /\ SessionInv /\ LogWhole
    BY InitType, InitSession, InitWhole
<1>2. ~open /\ pc = "idle" /\ file = <<>> /\ synced = 0 /\ Len(file) = 0
    BY DEF Init, StorageInit
<1>3. DurableInv
    BY <1>1, <1>2 DEF DurableInv, AppendedIsMapped, SizeInv, SizeReached, AppendedInOrder, SizeWithin
<1>4. Promised = {After(0)}
    <2>1. synced .. Len(file) = {0}
        BY <1>2
    <2> QED
        BY <2>1 DEF Promised
<1>5. After(0) = EmptyImage
    <2>1. Applied(file, 0) = {}
        BY DEF Applied
    <2>2. After(0) = ImageFrom([b \in Block |-> BlockAt(file, 0)], 0)
        <3>1. \A b \in Block : MapOf(file, {})[b] = 0
            BY NothingYet
        <3>2. SizeOf(file, {}) = 0
            BY NothingYet
        <3> QED
            BY <2>1, <3>1, <3>2, ImageOfIs DEF After
    <2>3. \A u \in 0 .. MaxSize - 1 : u \div BlockUnits \in Block
        BY UnitsBlock
    <2> QED
        BY <2>2, <2>3 DEF ImageFrom, EmptyImage, Image, Hole, BlockAt
<1>6. StateOK
    BY <1>3, StateIs
<1>7. Seen = EmptyImage /\ open = FALSE
    BY <1>2 DEF Seen, Init
<1> QED
    BY <1>3, <1>4, <1>5, <1>6, <1>7, AbstractNames DEF Abstract!Init, StateOK

(* A mapper over a local file implements the durable byte array when no    *)
(* session syncs behind an unfinished chain or a torn record: a batch adds *)
(* one outcome, its contents as a whole, when its last record is appended; *)
(* fsync leaves no other; what fails or crashes adds none; and an open     *)
(* reads one of them (BlockMapper's Init, Read, Write, Truncate and Sync   *)
(* over LocalStorage).                                                     *)
THEOREM MapperIsDurable ==
    ASSUME AppendAfterChain = FALSE, AppendAfterTear = FALSE
    PROVE  Spec => Implements
<1>1. Init => DurableInv /\ Abstract!Init
    BY InitAbstract
<1>2. DurableInv /\ [Next]_vars => DurableInv'
    BY TypeStep, SessionStep, AppendedStep, LogWholeStep, SizeStep, WithinStep DEF DurableInv
<1>3. DurableInv /\ DurableInv' /\ [Next]_vars => [Abstract!Next]_Abstract!vars
    BY AbstractSteps DEF AbstractStep
<1> QED
    BY <1>1, <1>2, <1>3, PTL DEF Spec, Implements, Abstract!Spec
=============================================================================
