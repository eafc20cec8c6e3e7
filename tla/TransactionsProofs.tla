------------------------- MODULE TransactionsProofs -------------------------
(* SQLite's transactions over a database in GCS, for every number and size *)
(* of blocks, every set of values and every bound: the types, that outside *)
(* a transaction a session reads what it committed and, when no Sync of it *)
(* has failed, only what is stored; and, when no session syncs behind an   *)
(* unfinished chain, that an open finds whole transactions only and that   *)
(* the file is the durable byte array of DurableFile.                      *)
EXTENDS Transactions, LogFormatProofs, FiniteSetTheorems, SequenceTheorems

-----------------------------------------------------------------------------
(* The mapper's operators, by the names of this module.                    *)

LastSlot == LastOf(DOMAIN pending)
Writers(b) == {s \in DOMAIN pending : pending[s].block = b}
Page(b) == IF Writers(b) # {} THEN pending[LastOf(Writers(b))].data
           ELSE BlockAt(appended, logicalToPhysical[b])
Pages == [b \in Block |-> Page(b)]
Unmapped == [b \in Block |-> 0]
EndsChained(log, n) == n > 0 /\ log[n].flag = Chained
Flag(s) == IF s = LastSlot THEN Commit ELSE Chained

LEMMA LastOfNames == \A S : M!LastOf(S) = LastOf(S)
    BY DEF M!LastOf, LastOf

LEMMA PageNames ==
    /\ \A b : M!CurrentBlock(b) = Page(b)
    /\ \A b : M!CurrentBlock(b)' = Page(b)'
    BY LastOfNames DEF M!CurrentBlock, M!PendingWriters, M!BlockAt, M!ZeroBlock,
       Page, Writers, BlockAt, ZeroBlock

LEMMA ReadNames ==
    /\ \A b : ReadBlock(b) = IF Writers(b) # {} THEN pending[LastOf(Writers(b))].data
                             ELSE BlockAt(stored, logicalToPhysical[b])
    /\ \A b : Readable(b) <=> (Writers(b) = {} /\ logicalToPhysical[b] # 0
                                  => logicalToPhysical[b] <= Len(stored))
    BY DEF ReadBlock, Readable, InObject, M!PendingWriters, Writers

LEMMA SlotNames ==
    /\ M!LastSlot = LastSlot
    /\ \A s : M!FlagOf(s) = Flag(s)
    /\ M!FitsPending(1) <=> /\ LastSlot + 1 <= MaxPending
                            /\ Len(appended) + LastSlot + 1 <= MaxLength
    /\ DOMAIN M!NothingPending = {}
    /\ M!Unmapped = Unmapped
    /\ M!MayAppend <=> AppendAfterChain \/ ~EndsChained(appended, openLen)
    BY LastOfNames DEF M!LastSlot, LastSlot, M!FlagOf, Flag, M!FitsPending, M!NothingPending,
       M!Unmapped, Unmapped, M!Block, Block, M!MayAppend, M!EndsChained, EndsChained,
       M!Commit, Commit, M!Chained, Chained

LEMMA PushNames ==
    ASSUME NEW b \in Block, NEW d \in BlockData, LastSlot \in Nat
    PROVE  M!PushWrites(b, b, b * BlockUnits, d) =
               [s \in DOMAIN pending \cup {LastSlot + 1} |->
                   IF s \in DOMAIN pending THEN pending[s] ELSE DataRecord(b, d)]
<1>1. b \in Int /\ BlockUnits \in Nat /\ b * BlockUnits \in Int
    BY FormatAssumption DEF Block
<1>2. d = [u \in 0 .. BlockUnits - 1 |-> d[u]] /\ DOMAIN d = 0 .. BlockUnits - 1
    BY DEF BlockData
<1>3. M!Overlay(b, b * BlockUnits, d) = d
    <2>1. \A u \in 0 .. BlockUnits - 1 : b * BlockUnits + u - b * BlockUnits = u
        BY <1>1
    <2> QED
        BY <1>2, <2>1 DEF M!Overlay
<1>4. LastSlot + 1 .. LastSlot + 1 + b - b = {LastSlot + 1}
    BY <1>1
<1>5. ASSUME NEW s, s = LastSlot + 1
      PROVE  b + s - LastSlot - 1 = b
    BY <1>1, <1>5
<1> QED
    BY <1>3, <1>4, <1>5, SlotNames DEF M!PushWrites, M!DataRecord, DataRecord, M!NoSize, NoSize

-----------------------------------------------------------------------------
(* A set of slots can be put in order, in one way only as far as the proofs *)
(* need to know.                                                           *)

Increasing(f) == \A i, j \in DOMAIN f : i < j => f[i] < f[j]

LEMMA OrderExists ==
    ASSUME NEW n \in Nat, NEW S, S \subseteq 1 .. n
    PROVE  \E k \in Nat : \E f \in Bijection(1 .. k, S) : Increasing(f)
<1> DEFINE Good(m) == \A T \in SUBSET (1 .. m) :
                          \E k \in Nat : \E f \in Bijection(1 .. k, T) : Increasing(f)
           Bad == {m \in Nat : ~Good(m)}
<1>1. Bad = {}
    <2> SUFFICES ASSUME Bad # {} PROVE FALSE
        OBVIOUS
    <2>1. PICK m \in Bad : \A y \in Bad : m <= y
        <3> HIDE DEF Good
        <3> QED
            BY LeastExists
    <2>2. m \in Nat /\ (m # 0 => Good(m - 1))
        <3> HIDE DEF Good
        <3> QED
            BY <2>1
    <2>3. ASSUME NEW T \in SUBSET (1 .. m)
          PROVE  \E k \in Nat : \E f \in Bijection(1 .. k, T) : Increasing(f)
        <3>1. CASE T = {}
            <4> DEFINE f == [i \in 1 .. 0 |-> i]
            <4>1. f \in Bijection(1 .. 0, T) /\ Increasing(f)
                BY <3>1 DEF Bijection, Injection, Surjection, IsInjective, Increasing
            <4> QED
                BY <4>1
        <3>2. CASE T # {} /\ m \notin T
            <4>1. m # 0 /\ T \in SUBSET (1 .. (m - 1))
                <5>1. \A x \in T : x \in 1 .. (m - 1)
                    BY <2>2, <3>2
                <5>2. T \subseteq 1 .. (m - 1)
                    BY <5>1, Zenon
                <5>3. m # 0
                    <6>1. PICK x \in T : TRUE
                        BY <3>2
                    <6> QED
                        BY <2>2, <6>1
                <5> QED
                    BY <5>2, <5>3, Zenon
            <4> QED
                BY <2>2, <4>1
        <3>3. CASE m \in T
            <4>1. m # 0 /\ T \ {m} \in SUBSET (1 .. (m - 1))
                BY <2>2, <3>3
            <4>2. PICK k \in Nat : \E g \in Bijection(1 .. k, T \ {m}) : Increasing(g)
                BY <2>2, <4>1
            <4>10. PICK g \in Bijection(1 .. k, T \ {m}) : Increasing(g)
                BY <4>2
            <4> DEFINE f == [i \in 1 .. k + 1 |-> IF i = k + 1 THEN m ELSE g[i]]
            <4>3. /\ g \in [1 .. k -> T \ {m}]
                  /\ \A i, j \in 1 .. k : g[i] = g[j] => i = j
                  /\ \A t \in T \ {m} : \E i \in 1 .. k : g[i] = t
                BY <4>10 DEF Bijection, Injection, Surjection, IsInjective
            <4>4. \A i \in 1 .. k + 1 : i = k + 1 \/ i \in 1 .. k
                OBVIOUS
            <4>5. f \in [1 .. k + 1 -> T]
                BY <3>3, <4>3, <4>4
            <4>6. \A i, j \in 1 .. k + 1 : f[i] = f[j] => i = j
                BY <4>3, <4>4
            <4>7. \A t \in T : \E i \in 1 .. k + 1 : f[i] = t
                <5> SUFFICES ASSUME NEW t \in T PROVE \E i \in 1 .. k + 1 : f[i] = t
                    OBVIOUS
                <5>1. CASE t = m
                    BY <5>1
                <5>2. CASE t # m
                    <6>1. PICK i \in 1 .. k : g[i] = t
                        BY <4>3, <5>2
                    <6>2. i \in 1 .. k + 1 /\ i # k + 1
                        OBVIOUS
                    <6> QED
                        BY <6>1, <6>2
                <5> QED
                    BY <5>1, <5>2
            <4>8. Increasing(f)
                <5> SUFFICES ASSUME NEW i \in 1 .. k + 1, NEW j \in 1 .. k + 1, i < j
                             PROVE  f[i] < f[j]
                    BY DEF Increasing
                <5>1. i \in 1 .. k /\ i # k + 1
                    OBVIOUS
                <5>2. CASE j = k + 1
                    <6>1. g[i] \in 1 .. (m - 1)
                        BY <4>1, <4>3, <5>1
                    <6> QED
                        BY <2>2, <5>1, <5>2, <6>1
                <5>3. CASE j \in 1 .. k
                    BY <4>10, <4>3, <5>1, <5>3 DEF Increasing
                <5> QED
                    BY <4>4, <5>2, <5>3
            <4> HIDE DEF f
            <4>9. f \in Bijection(1 .. k + 1, T)
                BY <4>5, <4>6, <4>7 DEF Bijection, Injection, Surjection, IsInjective
            <4> QED
                BY <4>8, <4>9
        <3> QED
            BY <3>1, <3>2, <3>3
    <2> QED
        BY <2>1, <2>3
<1> QED
    BY <1>1

(* What Slots and Batch are.                                               *)
LEMMA SlotsAre ==
    ASSUME DOMAIN pending \subseteq 1 .. MaxPending
    PROVE  LET k == Cardinality(DOMAIN pending)
           IN  /\ k \in Nat /\ Slots \in [1 .. k -> DOMAIN pending]
               /\ \A i, j \in 1 .. k : i < j => Slots[i] < Slots[j]
               /\ \A s \in DOMAIN pending : \E i \in 1 .. k : Slots[i] = s
<1> DEFINE D == DOMAIN pending
<1>1. D \subseteq 1 .. MaxPending /\ MaxPending \in Nat
    BY MapperAssumption
<1> HIDE DEF D
<1>2. PICK k \in Nat : \E f \in Bijection(1 .. k, D) : Increasing(f)
    BY <1>1, OrderExists
<1>3. ExistsBijection(1 .. k, D)
    BY <1>2 DEF ExistsBijection
<1>4. Cardinality(D) = k
    BY <1>2, <1>3, FS_CountingElements
<1>5. Slots = CHOOSE g \in Bijection(1 .. k, D) : Increasing(g)
    BY <1>4 DEF Slots, Increasing, D
<1>6. Slots \in Bijection(1 .. k, D) /\ Increasing(Slots)
    BY <1>2, <1>5
<1>7. Slots \in [1 .. k -> D] /\ \A s \in D : \E i \in 1 .. k : Slots[i] = s
    BY <1>6 DEF Bijection, Injection, Surjection
<1> QED
    BY <1>2, <1>4, <1>6, <1>7 DEF Increasing, D

-----------------------------------------------------------------------------
(* Types, and how the pager's state and the file's go together.            *)

Live == mode \in {"ready", "syncing"}

FileType ==
    /\ mode \in {"none", "ready", "syncing", "closing"}
    /\ stored \in Seq(Record) /\ sent \in Seq(Record)
    /\ appended \in Seq(Record) /\ claimed \in Seq(Record)
    /\ handed = Len(appended)
    /\ openLen \in 0 .. Len(appended)
    /\ DOMAIN pending \subseteq 1 .. MaxPending
    /\ pending \in [DOMAIN pending -> Payload]
    /\ logicalToPhysical \in [Block -> 0 .. Len(appended)]
    /\ logicalSize \in 0 .. MaxSize
    /\ arrives \in BOOLEAN

PagerType ==
    /\ oldSize \in 0 .. MaxSize
    /\ pager \in {"closed", "reader", "writer", "committing", "failed", "restoring",
                  "undoing", "closing"}
    /\ DOMAIN journal \subseteq Block
    /\ journal \in [DOMAIN journal -> BlockData]

(* What no session has, a session that may not write has nothing of.       *)
ModesAgree ==
    /\ pager = "closed" <=> mode = "none"
    /\ pager = "closing" <=> mode = "closing"
    /\ pager \in {"committing", "undoing"} <=> mode = "syncing"
    /\ pager \in {"closed", "reader", "committing", "undoing", "closing"} => DOMAIN pending = {}
    /\ pager \in {"closed", "reader", "undoing", "closing"} => DOMAIN journal = {}
    /\ pager \in {"closed", "reader", "closing"} => oldSize = 0
    /\ ~Live => openLen = 0 /\ logicalToPhysical = Unmapped /\ logicalSize = 0

LEMMA TypeParts ==
    /\ TypeOK <=> FileType /\ PagerType
    /\ TypeOK' <=> FileType' /\ PagerType'
    BY DEF TypeOK, FileType, PagerType

LEMMA RecordTypes ==
    /\ \A n \in 0 .. MaxSize : TruncateRecord(n) \in Payload
    /\ \A d \in BlockData, b \in Block : DataRecord(b, d) \in Payload
    /\ \A r \in Payload, f \in {Commit, Chained} : Flagged(r, f) \in Record
    BY ZeroBlockType DEF TruncateRecord, DataRecord, Flagged, Payload, Record, SizeField,
       Commit, Chained

LEMMA LastSlotType ==
    ASSUME FileType
    PROVE  /\ LastSlot \in 0 .. MaxPending
           /\ \A s \in DOMAIN pending : s \in 1 .. MaxPending /\ s <= LastSlot
           /\ DOMAIN pending # {} => LastSlot \in DOMAIN pending
<1> DEFINE D == DOMAIN pending
<1>1. MaxPending \in Nat /\ D \subseteq 0 .. MaxPending /\ D \subseteq 1 .. MaxPending
    BY MapperAssumption DEF FileType
<1> HIDE DEF D
<1>2. LastOf(D) \in D \cup {0} /\ \A s \in D : s <= LastOf(D)
    BY <1>1, LastOfBound
<1>3. D # {} => LastOf(D) \in D
    <2> SUFFICES ASSUME NEW s \in D, LastOf(D) = 0
                 PROVE  FALSE
        BY <1>2
    <2> QED
        BY <1>1, <1>2
<1>4. 0 \in 0 .. MaxPending
    BY <1>1
<1>5. LastOf(D) \in 0 .. MaxPending
    BY <1>1, <1>2, <1>4, Zenon
<1> QED
    BY <1>1, <1>2, <1>3, <1>5 DEF D, LastSlot

(* A block's newest pending record.                                        *)
LEMMA LastWriter ==
    ASSUME FileType, NEW b \in Block, Writers(b) # {}
    PROVE  /\ LastOf(Writers(b)) \in Writers(b)
           /\ \A t \in Writers(b) : t <= LastOf(Writers(b))
<1> DEFINE W == Writers(b)
<1>1. MaxPending \in Nat /\ W \subseteq 0 .. MaxPending /\ W \subseteq 1 .. MaxPending
    BY MapperAssumption DEF FileType, Writers
<1> HIDE DEF W
<1>2. LastOf(W) \in W \cup {0} /\ \A s \in W : s <= LastOf(W)
    BY <1>1, LastOfBound
<1>3. PICK s \in W : TRUE
    BY DEF W
<1> QED
    BY <1>1, <1>2, <1>3 DEF W

LEMMA PageType ==
    ASSUME FileType, NEW b \in Block
    PROVE  Page(b) \in BlockData
<1>1. CASE Writers(b) # {}
    <2>1. LastOf(Writers(b)) \in DOMAIN pending
        BY <1>1, LastWriter DEF Writers
    <2>2. pending[LastOf(Writers(b))] \in Payload
        BY <2>1 DEF FileType
    <2> QED
        BY <1>1, <2>2 DEF Page, Payload
<1>2. CASE Writers(b) = {}
    <2>1. /\ Len(appended) \in Nat /\ \A i \in 1 .. Len(appended) : appended[i] \in Record
          /\ logicalToPhysical[b] \in 0 .. Len(appended)
        BY DEF FileType
    <2> QED
        BY <1>2, <2>1, BlocksType DEF Page
<1> QED
    BY <1>1, <1>2

(* A record joins those of pending_records_ that are kept.                 *)
Pushed(keep, r) ==
    pending' = [s \in keep \cup {LastSlot + 1} |-> IF s \in keep THEN pending[s] ELSE r]

LEMMA PushIs ==
    ASSUME FileType, NEW keep \in SUBSET DOMAIN pending, NEW r \in Payload,
           Pushed(keep, r), LastSlot + 1 <= MaxPending
    PROVE  /\ DOMAIN pending' = keep \cup {LastSlot + 1} /\ LastSlot + 1 \notin DOMAIN pending
           /\ \A s \in DOMAIN pending : s \in Nat /\ s < LastSlot + 1
           /\ pending'[LastSlot + 1] = r
           /\ \A s \in keep : pending'[s] = pending[s]
           /\ DOMAIN pending' \subseteq 1 .. MaxPending
           /\ pending' \in [DOMAIN pending' -> Payload]
<1>1. LastSlot \in 0 .. MaxPending /\ MaxPending \in Nat
      /\ \A s \in DOMAIN pending : s \in 1 .. MaxPending /\ s <= LastSlot
    BY LastSlotType, MapperAssumption
<1>2. LastSlot + 1 \notin DOMAIN pending
    BY <1>1
<1>3. DOMAIN pending' = keep \cup {LastSlot + 1}
    BY DEF Pushed
<1>4. pending'[LastSlot + 1] = r /\ \A s \in keep : pending'[s] = pending[s]
    BY <1>2 DEF Pushed
<1>5. DOMAIN pending' \subseteq 1 .. MaxPending
    BY <1>1, <1>3
<1>6. \A s \in keep : pending[s] \in Payload
    BY DEF FileType
<1>7. pending' \in [DOMAIN pending' -> Payload]
    BY <1>3, <1>6 DEF Pushed
<1> QED
    BY <1>1, <1>2, <1>3, <1>4, <1>5, <1>7

-----------------------------------------------------------------------------
(* The file's operations: what each does, and the types after it.          *)

LEMMA XWriteIs ==
    ASSUME FileType, NEW b \in Block, NEW d \in BlockData, XWrite(b, d)
    PROVE  /\ mode = "ready" /\ LastSlot + 1 <= MaxPending
           /\ DataRecord(b, d) \in Payload /\ Pushed(DOMAIN pending, DataRecord(b, d))
           /\ (b + 1) * BlockUnits \in 0 .. MaxSize
           /\ logicalSize' = IF logicalSize >= (b + 1) * BlockUnits THEN logicalSize
                             ELSE (b + 1) * BlockUnits
           /\ UNCHANGED <<objectVars, openLen, logicalToPhysical>>
           /\ FileType'
<1>1. LastSlot \in Nat
    BY LastSlotType, MapperAssumption
<1>2. /\ mode = "ready" /\ LastSlot + 1 <= MaxPending
      /\ pending' = [s \in DOMAIN pending \cup {LastSlot + 1} |->
                        IF s \in DOMAIN pending THEN pending[s] ELSE DataRecord(b, d)]
      /\ logicalSize' = IF logicalSize >= (b + 1) * BlockUnits THEN logicalSize
                        ELSE (b + 1) * BlockUnits
      /\ UNCHANGED <<objectVars, openLen, logicalToPhysical>>
    BY <1>1, SlotNames, PushNames DEF XWrite
<1>3. DataRecord(b, d) \in Payload
    BY RecordTypes
<1>4. Pushed(DOMAIN pending, DataRecord(b, d))
    BY <1>2 DEF Pushed
<1>5. (b + 1) * BlockUnits \in 0 .. MaxSize
    <2>1. b + 1 \in Nat /\ b + 1 <= NumBlocks
        BY FormatAssumption DEF Block
    <2> QED
        BY <2>1, Monotonic, FormatAssumption DEF MaxSize
<1>6. logicalSize' \in 0 .. MaxSize
    BY <1>2, <1>5 DEF FileType
<1>7. DOMAIN pending' \subseteq 1 .. MaxPending /\ pending' \in [DOMAIN pending' -> Payload]
    BY <1>2, <1>3, <1>4, PushIs
<1>8. FileType'
    BY <1>2, <1>6, <1>7 DEF FileType, objectVars
<1> QED
    BY <1>2, <1>3, <1>4, <1>5, <1>8

Kept(n) == {s \in DOMAIN pending : pending[s].block < CeilBlocks(n)}

LEMMA XTruncateIs ==
    ASSUME FileType, NEW n \in 0 .. MaxSize, XTruncate(n)
    PROVE  /\ mode = "ready" /\ LastSlot + 1 <= MaxPending
           /\ TruncateRecord(n) \in Payload /\ Pushed(Kept(n), TruncateRecord(n))
           /\ logicalSize' = n
           /\ logicalToPhysical' =
                  [b \in Block |-> IF b >= CeilBlocks(n) THEN 0 ELSE logicalToPhysical[b]]
           /\ UNCHANGED <<objectVars, openLen>>
           /\ FileType'
<1>1. /\ mode = "ready" /\ LastSlot + 1 <= MaxPending
      /\ pending' = [s \in Kept(n) \cup {LastSlot + 1} |->
                        IF s \in Kept(n) THEN pending[s] ELSE TruncateRecord(n)]
      /\ logicalSize' = n
      /\ logicalToPhysical' =
             [b \in Block |-> IF b >= CeilBlocks(n) THEN 0 ELSE logicalToPhysical[b]]
      /\ UNCHANGED <<objectVars, openLen>>
    BY SlotNames DEF XTruncate, Kept
<1>2. TruncateRecord(n) \in Payload
    BY RecordTypes
<1>3. Pushed(Kept(n), TruncateRecord(n)) /\ Kept(n) \in SUBSET DOMAIN pending
    BY <1>1 DEF Pushed, Kept
<1>4. logicalToPhysical' \in [Block -> 0 .. Len(appended)]
    <2>1. Len(appended) \in Nat
        BY DEF FileType
    <2> QED
        BY <1>1, <2>1 DEF FileType
<1>5. DOMAIN pending' \subseteq 1 .. MaxPending /\ pending' \in [DOMAIN pending' -> Payload]
    BY <1>1, <1>2, <1>3, PushIs
<1>6. FileType'
    BY <1>1, <1>4, <1>5 DEF FileType, objectVars
<1> QED
    BY <1>1, <1>2, <1>3, <1>6

(* A batch is one chain, with a commit at its end.                         *)
LEMMA BatchIs ==
    ASSUME FileType, DOMAIN pending # {}
    PROVE  /\ Len(Batch) \in Nat \ {0} /\ Batch \in Seq(Record)
           /\ \A i \in 1 .. Len(Batch) : /\ Slots[i] \in DOMAIN pending
                                         /\ Batch[i] = Flagged(pending[Slots[i]], Flag(Slots[i]))
           /\ \A i, j \in 1 .. Len(Batch) : i < j => Slots[i] < Slots[j]
           /\ \A s \in DOMAIN pending : \E i \in 1 .. Len(Batch) : Slots[i] = s
           /\ \A i \in 1 .. Len(Batch) :
                  Batch[i].flag = IF i = Len(Batch) THEN Commit ELSE Chained
<1> DEFINE k == Cardinality(DOMAIN pending)
<1>1. /\ k \in Nat /\ Slots \in [1 .. k -> DOMAIN pending]
      /\ \A i, j \in 1 .. k : i < j => Slots[i] < Slots[j]
      /\ \A s \in DOMAIN pending : \E i \in 1 .. k : Slots[i] = s
    BY SlotsAre DEF FileType
<1> HIDE DEF k
<1>2. Batch = [i \in 1 .. k |-> Flagged(pending[Slots[i]], Flag(Slots[i]))]
    BY <1>1, SlotNames DEF Batch
<1>3. \A i \in 1 .. k : Flagged(pending[Slots[i]], Flag(Slots[i])) \in Record
    <2> SUFFICES ASSUME NEW i \in 1 .. k
                 PROVE  Flagged(pending[Slots[i]], Flag(Slots[i])) \in Record
        OBVIOUS
    <2>1. pending[Slots[i]] \in Payload
        BY <1>1 DEF FileType
    <2> QED
        BY <2>1, RecordTypes DEF Flag
<1>4. Batch \in Seq(Record) /\ Len(Batch) = k
    BY <1>1, <1>2, <1>3
<1>5. PICK s \in DOMAIN pending : TRUE
    OBVIOUS
<1>6. k # 0
    BY <1>1, <1>5
<1>7. ASSUME NEW i \in 1 .. k
      PROVE  Slots[i] = LastSlot <=> i = k
    <2>1. LastSlot \in DOMAIN pending /\ LastSlot \in Nat
          /\ \A t \in DOMAIN pending : t <= LastSlot /\ t \in Nat
        BY LastSlotType, MapperAssumption
    <2>2. PICK j \in 1 .. k : Slots[j] = LastSlot
        BY <1>1, <2>1
    <2>3. k \in 1 .. k /\ Slots[k] \in Nat /\ Slots[k] <= LastSlot
        BY <1>1, <1>6, <2>1
    <2>4. j = k
        BY <1>1, <2>1, <2>2, <2>3
    <2>5. i # k => Slots[i] < Slots[k]
        BY <1>1, <2>3
    <2>6. Slots[i] \in Nat
        BY <1>1, <2>1
    <2> QED
        BY <2>1, <2>2, <2>3, <2>4, <2>5, <2>6
<1>8. \A i \in 1 .. k : Batch[i].flag = IF i = k THEN Commit ELSE Chained
    BY <1>2, <1>7 DEF Flagged, Flag
<1> QED
    BY <1>1, <1>2, <1>4, <1>6, <1>8

(* The record of the batch that a block is mapped to.                      *)
LEMMA LastInIs ==
    ASSUME FileType, DOMAIN pending # {}, NEW b \in Block
    PROVE  /\ LastIn(Batch, b) \in 0 .. Len(Batch)
           /\ LastIn(Batch, b) = 0 <=> Writers(b) = {}
           /\ LastIn(Batch, b) # 0 =>
                  /\ Slots[LastIn(Batch, b)] = LastOf(Writers(b))
                  /\ \A i \in 1 .. Len(Batch) : i > LastIn(Batch, b) => Batch[i].block # b
<1> DEFINE k == Len(Batch)
           I == {i \in 1 .. k : Batch[i].block = b}
<1>1. /\ k \in Nat
      /\ \A i \in 1 .. k : Slots[i] \in DOMAIN pending
      /\ \A i \in 1 .. k : Batch[i] = Flagged(pending[Slots[i]], Flag(Slots[i]))
      /\ \A i, j \in 1 .. k : i < j => Slots[i] < Slots[j]
      /\ \A s \in DOMAIN pending : \E i \in 1 .. k : Slots[i] = s
    BY BatchIs
<1>2. ASSUME NEW i \in 1 .. k
      PROVE  i \in I <=> Slots[i] \in Writers(b)
    <2>1. Batch[i] = Flagged(pending[Slots[i]], Flag(Slots[i])) /\ Slots[i] \in DOMAIN pending
        BY <1>1
    <2>2. Batch[i].block = pending[Slots[i]].block
        BY <2>1 DEF Flagged
    <2> QED
        BY <2>1, <2>2 DEF Writers
<1>3. LastIn(Batch, b) = LastOf(I)
    BY DEF LastIn
<1>4. I \subseteq 1 .. k /\ I \subseteq 0 .. k
    OBVIOUS
<1> HIDE DEF k
<1>5. /\ LastOf(I) \in I \cup {0} /\ \A i \in I : i <= LastOf(I)
    <2> HIDE DEF I
    <2> QED
        BY <1>1, <1>4, LastOfBound
<1>6. LastOf(I) \in 0 .. k
    <2> HIDE DEF I
    <2>1. 0 \in 0 .. k
        BY <1>1
    <2> QED
        BY <1>4, <1>5, <2>1, Zenon
<1>7. CASE Writers(b) = {}
    <2>1. I = {}
        BY <1>2, <1>4, <1>7
    <2> QED
        BY <1>3, <1>6, <1>7, <2>1, LastOfNone DEF k
<1>8. CASE Writers(b) # {}
    <2> DEFINE s == LastOf(Writers(b))
    <2>1. s \in Writers(b) /\ \A t \in Writers(b) : t <= s
        BY <1>8, LastWriter
    <2>2. s \in DOMAIN pending /\ \A t \in DOMAIN pending : t \in Nat
        BY <2>1, LastSlotType DEF Writers
    <2> HIDE DEF s
    <2>3. PICK j \in 1 .. k : Slots[j] = s
        BY <1>1, <2>2
    <2>4. j \in I
        BY <1>2, <2>1, <2>3
    <2>5. LastOf(I) # 0 /\ LastOf(I) \in I /\ j <= LastOf(I)
        BY <1>4, <1>5, <2>4
    <2>6. LastOf(I) = j
        <3>1. LastOf(I) \in 1 .. k /\ Slots[LastOf(I)] \in Writers(b)
            BY <1>2, <1>4, <2>5
        <3>2. Slots[LastOf(I)] <= s
            BY <2>1, <3>1
        <3>3. Slots[LastOf(I)] \in Nat /\ s \in Nat
            BY <1>1, <2>2, <3>1
        <3> QED
            BY <1>1, <2>3, <2>5, <3>1, <3>2, <3>3
    <2>7. \A i \in 1 .. k : i > LastOf(I) => i \notin I
        BY <1>5, <1>6
    <2>8. \A i \in 1 .. k : i > LastOf(I) => Batch[i].block # b
        BY <2>7
    <2> HIDE DEF I
    <2> QED
        BY <1>3, <1>6, <1>8, <2>3, <2>5, <2>6, <2>8 DEF k, s
<1> QED
    BY <1>7, <1>8

LEMMA XSyncIs ==
    ASSUME FileType, XSync
    PROVE  /\ mode = "ready" /\ mode' = "syncing"
           /\ DOMAIN pending # {} /\ DOMAIN pending' = {}
           /\ AppendAfterChain \/ ~EndsChained(appended, openLen)
           /\ appended' = appended \o Batch
           /\ Len(appended') = Len(appended) + Len(Batch)
           /\ \A i \in 1 .. Len(appended) : appended'[i] = appended[i]
           /\ \A j \in 1 .. Len(Batch) : appended'[Len(appended) + j] = Batch[j]
           /\ sent' = IF arrives THEN sent \o Batch ELSE sent
           /\ logicalToPhysical' = [b \in Block |->
                  IF Writers(b) = {} THEN logicalToPhysical[b]
                  ELSE Len(appended) + LastIn(Batch, b)]
           /\ UNCHANGED <<stored, arrives, claimed, openLen, logicalSize>>
           /\ FileType'
<1>1. /\ mode = "ready" /\ mode' = "syncing"
      /\ DOMAIN pending # {} /\ pending' = M!NothingPending
      /\ AppendAfterChain \/ ~EndsChained(appended, openLen)
      /\ appended' = appended \o Batch
      /\ handed' = Len(appended) + Len(Batch)
      /\ sent' = IF arrives THEN sent \o Batch ELSE sent
      /\ UNCHANGED <<stored, arrives, claimed, openLen, logicalSize>>
    BY SlotNames DEF XSync
<1>2. DOMAIN pending' = {} /\ pending' \in [DOMAIN pending' -> Payload]
    BY <1>1, SlotNames DEF M!NothingPending
<1>3. Batch \in Seq(Record) /\ appended \in Seq(Record) /\ sent \in Seq(Record)
      /\ Len(Batch) \in Nat /\ Len(appended) \in Nat
    BY <1>1, BatchIs DEF FileType
<1>4. /\ appended' \in Seq(Record)
      /\ Len(appended') = Len(appended) + Len(Batch)
      /\ \A i \in 1 .. Len(appended) : appended'[i] = appended[i]
      /\ \A j \in 1 .. Len(Batch) : appended'[Len(appended) + j] = Batch[j]
    <2> HIDE DEF Batch
    <2> QED
        BY <1>1, <1>3, ConcatProperties
<1>5. sent' \in Seq(Record)
    BY <1>1, <1>3, ConcatProperties
<1>6. logicalToPhysical' = [b \in Block |->
          IF Writers(b) = {} THEN logicalToPhysical[b] ELSE Len(appended) + LastIn(Batch, b)]
    <2>1. \A b \in Block : LastIn(Batch, b) = 0 <=> Writers(b) = {}
        BY <1>1, LastInIs
    <2>2. logicalToPhysical' = [b \in Block |->
              IF LastIn(Batch, b) = 0 THEN logicalToPhysical[b]
              ELSE Len(appended) + LastIn(Batch, b)]
        BY DEF XSync
    <2> QED
        BY <2>1, <2>2
<1>7. logicalToPhysical' \in [Block -> 0 .. Len(appended')]
    <2> SUFFICES ASSUME NEW b \in Block
                 PROVE  logicalToPhysical'[b] \in 0 .. Len(appended')
        BY <1>6
    <2>1. LastIn(Batch, b) \in 0 .. Len(Batch) /\ logicalToPhysical[b] \in 0 .. Len(appended)
        BY <1>1, LastInIs DEF FileType
    <2> QED
        BY <1>3, <1>4, <1>6, <2>1
<1>8. openLen' \in 0 .. Len(appended') /\ handed' = Len(appended')
    BY <1>1, <1>3, <1>4 DEF FileType
<1>9. FileType'
    BY <1>1, <1>2, <1>4, <1>5, <1>7, <1>8 DEF FileType
<1> QED
    BY <1>1, <1>2, <1>4, <1>6, <1>9

LEMMA RecoveredType ==
    ASSUME NEW log \in Seq(Record)
    PROVE  /\ RecoveredMap(log, Len(log)) \in [Block -> 0 .. Len(log)]
           /\ RecoveredSize(log, Len(log)) \in 0 .. MaxSize
<1> DEFINE n == Len(log)
           S == Applied(log, n)
<1>1. n \in Nat /\ S \subseteq 1 .. n /\ \A i \in 1 .. n : log[i] \in Record
    BY DEF Applied
<1> HIDE DEF n, S
<1>2. MapOf(log, S) \in [Block -> 0 .. n] /\ SizeOf(log, S) \in 0 .. MaxSize
    BY <1>1, MapOfType, SizeOfType
<1> QED
    BY <1>2 DEF RecoveredMap, RecoveredSize, S, n

LEMMA XOpenIs ==
    ASSUME FileType, XOpen
    PROVE  /\ mode = "none" /\ mode' = "ready" /\ sent = <<>>
           /\ appended' = stored /\ openLen' = Len(stored)
           /\ logicalToPhysical' = RecoveredMap(stored, Len(stored))
           /\ logicalSize' = RecoveredSize(stored, Len(stored))
           /\ UNCHANGED <<stored, sent, claimed, pending>>
           /\ FileType'
<1>1. /\ mode = "none" /\ mode' = "ready" /\ sent = <<>>
      /\ appended' = stored /\ openLen' = Len(stored) /\ handed' = Len(stored)
      /\ arrives' \in BOOLEAN
      /\ logicalToPhysical' = RecoveredMap(stored, Len(stored))
      /\ logicalSize' = RecoveredSize(stored, Len(stored))
      /\ UNCHANGED <<stored, sent, claimed, pending>>
    BY DEF XOpen, OpenObject
<1>2. stored \in Seq(Record) /\ Len(stored) \in Nat
    BY DEF FileType
<1>3. openLen' \in 0 .. Len(appended')
    BY <1>1, <1>2
<1>4. FileType'
    BY <1>1, <1>2, <1>3, RecoveredType DEF FileType
<1> QED
    BY <1>1, <1>4

LEMMA ForgetIs ==
    ASSUME ForgetMapper
    PROVE  /\ openLen' = 0 /\ logicalToPhysical' = Unmapped /\ logicalSize' = 0
           /\ DOMAIN pending' = {} /\ pending' \in [DOMAIN pending' -> Payload]
    BY SlotNames DEF ForgetMapper, M!NothingPending

LEMMA XCloseIs ==
    ASSUME FileType, XClose
    PROVE  /\ mode = "ready" /\ mode' = "closing"
           /\ openLen' = 0 /\ logicalToPhysical' = Unmapped /\ logicalSize' = 0
           /\ DOMAIN pending' = {}
           /\ UNCHANGED <<stored, sent, appended>>
           /\ FileType'
<1>1. /\ mode = "ready" /\ mode' = "closing" /\ Take
      /\ arrives' \in {arrives, FALSE}
      /\ UNCHANGED <<stored, appended, claimed>>
      /\ ForgetMapper
    BY DEF XClose, CloseTakes
<1>2. appended \in Seq(Record) /\ Len(appended) \in Nat /\ sent \in Seq(Record)
      /\ handed = Len(appended)
    BY DEF FileType
<1>3. Buffered = <<>>
    BY <1>2 DEF Buffered
<1>4. sent' = sent /\ handed' = handed
    BY <1>1, <1>2, <1>3 DEF Take
<1>5. Unmapped \in [Block -> 0 .. Len(appended)] /\ 0 \in 0 .. Len(appended)
      /\ 0 \in 0 .. MaxSize
    BY <1>2, MaxSizeType DEF Unmapped
<1>6. FileType'
    BY <1>1, <1>2, <1>4, <1>5, ForgetIs DEF FileType
<1> QED
    BY <1>1, <1>4, <1>6, ForgetIs

LEMMA EndIs ==
    ASSUME FileType, Leave, pending' \in [{} -> Payload], DOMAIN pending' = {},
           logicalToPhysical' = Unmapped, openLen' = 0, logicalSize' = 0
    PROVE  FileType'
<1>1. /\ mode' = "none" /\ arrives' = FALSE /\ appended' = <<>> /\ handed' = 0
      /\ UNCHANGED <<stored, sent, claimed>>
    BY DEF Leave
<1>2. appended' \in Seq(Record) /\ Len(appended') = 0
    BY <1>1
<1>3. Unmapped \in [Block -> 0 .. 0] /\ 0 \in 0 .. 0 /\ 0 \in 0 .. MaxSize
    BY MaxSizeType DEF Unmapped
<1> QED
    BY <1>1, <1>2, <1>3 DEF FileType

LEMMA BackgroundIs ==
    ASSUME FileType, Background
    PROVE  /\ UNCHANGED <<mode, appended, handed, claimed, mapperVars>>
           /\ \/ /\ sent # <<>> /\ stored' = Append(stored, Head(sent)) /\ sent' = Tail(sent)
                 /\ arrives' = arrives
              \/ sent' = <<>> /\ arrives' = FALSE /\ UNCHANGED stored
           /\ stored' \in Seq(Record) /\ Len(stored') >= Len(stored)
           /\ FileType'
<1>1. /\ UNCHANGED <<mode, appended, handed, claimed, mapperVars>>
      /\ \/ /\ sent # <<>> /\ stored' = Append(stored, Head(sent)) /\ sent' = Tail(sent)
            /\ arrives' = arrives
         \/ sent' = <<>> /\ arrives' = FALSE /\ UNCHANGED stored
    BY DEF Background, Persist, CutOff
<1>2. sent \in Seq(Record) /\ stored \in Seq(Record) /\ Len(stored) \in Nat
    BY DEF FileType
<1>3. stored' \in Seq(Record) /\ sent' \in Seq(Record) /\ Len(stored') >= Len(stored)
    <2>1. CASE sent # <<>> /\ stored' = Append(stored, Head(sent)) /\ sent' = Tail(sent)
        <3>1. Head(sent) \in Record /\ Tail(sent) \in Seq(Record)
            BY <1>2, <2>1, HeadTailProperties
        <3> QED
            BY <1>2, <2>1, <3>1, AppendProperties
    <2>2. CASE sent' = <<>> /\ UNCHANGED stored
        BY <1>2, <2>2
    <2> QED
        BY <1>1, <2>1, <2>2
<1>4. arrives' \in BOOLEAN
    BY <1>1 DEF FileType
<1> QED
    BY <1>1, <1>3, <1>4 DEF FileType, mapperVars

-----------------------------------------------------------------------------
(* The type invariant.                                                     *)

TypeInv == FileType /\ PagerType /\ ModesAgree

LEMMA InitType == Init => TypeInv
<1> SUFFICES ASSUME Init PROVE TypeInv
    OBVIOUS
<1>1. /\ DOMAIN pending = {} /\ pending \in [{} -> Payload]
      /\ logicalToPhysical = Unmapped
    BY SlotNames DEF Init, FileInit, M!NothingPending
<1>2. Unmapped \in [Block -> 0 .. 0] /\ 0 \in 0 .. 0 /\ 0 \in 0 .. MaxSize
    BY MaxSizeType DEF Unmapped
<1>3. FileType
    <2>1. <<>> \in Seq(Record) /\ Len(<<>>) = 0
        OBVIOUS
    <2>2. /\ mode = "none" /\ arrives = FALSE /\ handed = 0 /\ openLen = 0
          /\ stored = <<>> /\ sent = <<>> /\ appended = <<>> /\ claimed = <<>>
          /\ logicalSize = 0
        BY DEF Init, FileInit, ObjectInit
    <2>3. DOMAIN pending \subseteq 1 .. MaxPending
        BY <1>1
    <2> QED
        BY <1>1, <1>2, <2>1, <2>2, <2>3 DEF FileType
<1>4. PagerType
    BY <1>2 DEF Init, NoJournal, PagerType
<1>5. ModesAgree
    BY <1>1 DEF Init, FileInit, ObjectInit, ModesAgree, Live, NoJournal
<1> QED
    BY <1>3, <1>4, <1>5 DEF TypeInv

(* The journal after the pages of S were journaled.                        *)
(* A block that can be read is data.                                       *)
LEMMA ReadType ==
    ASSUME FileType, NEW b \in Block, Readable(b)
    PROVE  ReadBlock(b) \in BlockData
<1>1. CASE Writers(b) # {}
    <2>1. ReadBlock(b) = Page(b)
        BY <1>1, ReadNames DEF Page
    <2> QED
        BY <2>1, PageType
<1>2. CASE Writers(b) = {} /\ logicalToPhysical[b] = 0
    BY <1>2, ReadNames, ZeroBlockType DEF BlockAt
<1>3. CASE Writers(b) = {} /\ logicalToPhysical[b] # 0
    <2>1. PICK k \in Nat : k = logicalToPhysical[b]
        BY DEF FileType
    <2>2. k \in 1 .. Len(stored) /\ stored \in Seq(Record)
        BY <1>3, <2>1, ReadNames DEF FileType
    <2>3. stored[k] \in Record
        BY <2>2
    <2>4. ReadBlock(b) = stored[k].data
        BY <1>3, <2>1, ReadNames DEF BlockAt
    <2> QED
        BY <2>3, <2>4 DEF Record
<1> QED
    BY <1>1, <1>2, <1>3

LEMMA JournaledIs ==
    ASSUME TypeInv, NEW S \in SUBSET Block, NEW j, j = Journaled(S),
           \A b \in ToJournal(S) : Readable(b)
    PROVE  /\ DOMAIN j = DOMAIN journal \cup {p \in S : p < CeilBlocks(oldSize)}
           /\ \A b \in DOMAIN journal : j[b] = journal[b]
           /\ \A b \in DOMAIN j \ DOMAIN journal : Readable(b) /\ j[b] = ReadBlock(b)
           /\ DOMAIN j \subseteq Block /\ j \in [DOMAIN j -> BlockData]
<1> DEFINE new == ToJournal(S)
<1>1. j = [b \in DOMAIN journal \cup new |->
              IF b \in DOMAIN journal THEN journal[b] ELSE ReadBlock(b)]
    BY DEF Journaled
<1>2. DOMAIN journal \subseteq Block /\ \A b \in DOMAIN journal : journal[b] \in BlockData
    BY DEF TypeInv, PagerType
<1>3. new = {p \in S : p < CeilBlocks(oldSize)} \ DOMAIN journal
    BY DEF ToJournal
<1>4. \A b \in new : b \in Block /\ Readable(b) /\ ReadBlock(b) \in BlockData
    BY <1>3, ReadType DEF TypeInv
<1>5. DOMAIN j = DOMAIN journal \cup new
    BY <1>1
<1>6. DOMAIN j = DOMAIN journal \cup {p \in S : p < CeilBlocks(oldSize)}
    BY <1>3, <1>5
<1> HIDE DEF new
<1>7. \A b \in DOMAIN j : j[b] = IF b \in DOMAIN journal THEN journal[b] ELSE ReadBlock(b)
    BY <1>1, <1>5
<1>8. j \in [DOMAIN j -> BlockData]
    <2>1. \A b \in DOMAIN j : j[b] \in BlockData
        BY <1>2, <1>4, <1>5, <1>7
    <2>2. j = [b \in DOMAIN j |-> j[b]]
        BY <1>1
    <2> QED
        BY <2>1, <2>2
<1> QED
    BY <1>2, <1>4, <1>5, <1>6, <1>7, <1>8

LEMMA WritePageType ==
    ASSUME TypeInv, NEW b \in Block, NEW d \in PageData, WritePage(b, d)
    PROVE  TypeInv'
<1>1. pager = "writer" /\ journal' = Journaled({b}) /\ UNCHANGED <<pager, oldSize>>
      /\ XWrite(b, d) /\ d \in BlockData /\ \A p \in ToJournal({b}) : Readable(p)
    BY PageAssumption DEF WritePage
<1>2. mode = "ready" /\ mode' = mode /\ FileType'
    BY <1>1, XWriteIs DEF TypeInv, objectVars
<1>3. DOMAIN journal' \subseteq Block /\ journal' \in [DOMAIN journal' -> BlockData]
    BY <1>1, JournaledIs
<1> QED
    BY <1>1, <1>2, <1>3 DEF TypeInv, PagerType, ModesAgree, Live

(* A page count is a size.                                                 *)
LEMMA BlocksSize ==
    ASSUME NEW n \in 0 .. NumBlocks
    PROVE  n * BlockUnits \in 0 .. MaxSize /\ CeilBlocks(n * BlockUnits) = n
<1>1. n \in Nat /\ n <= NumBlocks
    BY FormatAssumption
<1> QED
    BY <1>1, Monotonic, CeilOfBlocks, FormatAssumption DEF MaxSize

LEMMA ShrinkToType ==
    ASSUME TypeInv, NEW n \in 0 .. NumBlocks, ShrinkTo(n)
    PROVE  TypeInv'
<1>1. pager = "writer" /\ journal' = Journaled({b \in Block : b >= n})
      /\ UNCHANGED <<pager, oldSize>> /\ XTruncate(n * BlockUnits)
      /\ \A p \in ToJournal({b \in Block : b >= n}) : Readable(p)
    BY DEF ShrinkTo
<1>2. mode = "ready" /\ mode' = mode /\ FileType'
    BY <1>1, BlocksSize, XTruncateIs DEF TypeInv, objectVars
<1>3. DOMAIN journal' \subseteq Block /\ journal' \in [DOMAIN journal' -> BlockData]
    BY <1>1, JournaledIs
<1> QED
    BY <1>1, <1>2, <1>3 DEF TypeInv, PagerType, ModesAgree, Live

(* The last page of a database that is not empty.                          *)
LEMMA LastPage ==
    ASSUME NEW n \in 0 .. MaxSize, n > 0
    PROVE  CeilBlocks(n) - 1 \in Block
<1>1. CeilBlocks(n) \in 0 .. NumBlocks
    BY CeilRange
<1>2. CeilBlocks(n) # 0
    <2>1. n \in Nat /\ BlockUnits \in Nat \ {0}
        BY FormatAssumption, MaxSizeType
    <2>2. PICK k \in Nat \ {0} : k = BlockUnits
        BY <2>1
    <2>3. n + k - 1 >= k /\ n + k - 1 \in Nat
        BY <2>1
    <2>4. (n + k - 1) \div k >= k \div k
        BY <2>2, <2>3, DivMonotonic
    <2>5. k \div k = 1
        BY <2>2
    <2> QED
        BY <2>2, <2>4, <2>5 DEF CeilBlocks
<1> QED
    BY <1>1, <1>2, FormatAssumption DEF Block

LEMMA RollbackType ==
    ASSUME TypeInv, Rollback
    PROVE  TypeInv'
<1>1. pager \in {"writer", "failed"} /\ pager' = "restoring" /\ UNCHANGED <<journal, oldSize>>
      /\ oldSize \in 0 .. MaxSize /\ logicalSize \in 0 .. MaxSize
    BY DEF Rollback, TypeInv, PagerType, FileType
<1>2. mode = "ready"
    BY <1>1 DEF TypeInv, ModesAgree, FileType
<1>3. mode' = mode /\ FileType'
    <2>1. CASE XTruncate(oldSize)
        BY <1>1, <2>1, XTruncateIs DEF TypeInv, objectVars
    <2>2. CASE logicalSize < oldSize /\ XWrite(CeilBlocks(oldSize) - 1, ZeroBlock)
        <3>1. CeilBlocks(oldSize) - 1 \in Block
            BY <1>1, <2>2, MaxSizeType, LastPage
        <3> QED
            BY <2>2, <3>1, ZeroBlockType, XWriteIs DEF TypeInv, objectVars
    <2>3. CASE UNCHANGED <<objectVars, mapperVars>>
        BY <2>3 DEF TypeInv, FileType, objectVars, mapperVars
    <2> QED
        BY <2>1, <2>2, <2>3 DEF Rollback
<1> QED
    BY <1>1, <1>2, <1>3 DEF TypeInv, PagerType, ModesAgree, Live

LEMMA RestorePageType ==
    ASSUME TypeInv, RestorePage
    PROVE  TypeInv'
<1>1. PICK b \in DOMAIN journal :
          XWrite(b, journal[b]) /\ journal' = [p \in DOMAIN journal \ {b} |-> journal[p]]
    BY DEF RestorePage
<1>2. pager = "restoring" /\ UNCHANGED <<pager, oldSize>>
    BY DEF RestorePage
<1>3. b \in Block /\ journal[b] \in BlockData
    BY DEF TypeInv, PagerType
<1>4. mode = "ready" /\ mode' = mode /\ FileType'
    BY <1>1, <1>3, XWriteIs DEF TypeInv, objectVars
<1>5. DOMAIN journal' \subseteq Block /\ journal' \in [DOMAIN journal' -> BlockData]
    BY <1>1 DEF TypeInv, PagerType
<1> QED
    BY <1>2, <1>4, <1>5 DEF TypeInv, PagerType, ModesAgree, Live

LEMMA SyncingType ==
    ASSUME TypeInv, CommitStart \/ RestoreSync
    PROVE  TypeInv'
<1>1. /\ XSync /\ UNCHANGED <<journal, oldSize>>
      /\ pager' \in {"committing", "undoing"}
      /\ pager' = "undoing" => DOMAIN journal = {}
    BY DEF CommitStart, RestoreSync
<1>2. mode' = "syncing" /\ DOMAIN pending' = {} /\ FileType'
    BY <1>1, XSyncIs DEF TypeInv
<1> QED
    BY <1>1, <1>2 DEF TypeInv, PagerType, ModesAgree, Live

LEMMA SyncedType ==
    ASSUME TypeInv, CommitOk \/ CommitFails \/ RollbackOk \/ RollbackFails
    PROVE  TypeInv'
<1>1. /\ mode = "syncing" /\ mode' = "ready" /\ arrives' \in {arrives, FALSE}
      /\ claimed' \in {claimed, appended}
      /\ UNCHANGED <<stored, sent, appended, handed, mapperVars>>
      /\ pager' \in {"reader", "failed"}
      /\ \/ pager' = "reader" /\ journal' = NoJournal /\ oldSize' = 0
         \/ pager' = "failed" /\ UNCHANGED <<journal, oldSize>>
         \/ pager = "undoing" /\ pager' = "reader" /\ UNCHANGED journal /\ oldSize' = 0
    BY DEF CommitOk, CommitFails, RollbackOk, RollbackFails, XSyncOk, XSyncFails, SyncOk,
           SyncFails
<1>2. FileType'
    BY <1>1 DEF TypeInv, FileType, mapperVars
<1>3. DOMAIN pending' = {}
    BY <1>1 DEF TypeInv, ModesAgree, PagerType, mapperVars
<1>4. DOMAIN NoJournal = {} /\ NoJournal \in [{} -> BlockData] /\ 0 \in 0 .. MaxSize
    BY MaxSizeType DEF NoJournal
<1>5. /\ DOMAIN journal' \subseteq Block /\ journal' \in [DOMAIN journal' -> BlockData]
      /\ oldSize' \in 0 .. MaxSize
      /\ pager' = "reader" => DOMAIN journal' = {} /\ oldSize' = 0
    BY <1>1, <1>4 DEF TypeInv, PagerType, ModesAgree
<1> QED
    BY <1>1, <1>2, <1>3, <1>5 DEF TypeInv, PagerType, ModesAgree, Live

LEMMA OpenedType ==
    ASSUME TypeInv, OpenDatabase \/ CloseDatabase
    PROVE  TypeInv'
<1>1. CASE OpenDatabase
    <2>1. /\ pager = "closed" /\ pager' = "reader" /\ XOpen /\ UNCHANGED <<journal, oldSize>>
        BY <1>1 DEF OpenDatabase
    <2>2. mode' = "ready" /\ UNCHANGED pending /\ FileType'
        BY <2>1, XOpenIs DEF TypeInv
    <2> QED
        BY <2>1, <2>2 DEF TypeInv, PagerType, ModesAgree, Live
<1>2. CASE CloseDatabase
    <2>1. /\ pager = "reader" /\ pager' = "closing" /\ XClose /\ UNCHANGED <<journal, oldSize>>
        BY <1>2 DEF CloseDatabase
    <2>2. /\ mode' = "closing" /\ DOMAIN pending' = {} /\ FileType'
          /\ openLen' = 0 /\ logicalToPhysical' = Unmapped /\ logicalSize' = 0
        BY <2>1, XCloseIs DEF TypeInv
    <2>3. Unmapped' = Unmapped
        BY DEF Unmapped
    <2> QED
        BY <2>1, <2>2, <2>3 DEF TypeInv, PagerType, ModesAgree, Live
<1> QED
    BY <1>1, <1>2

LEMMA EndedType ==
    ASSUME TypeInv, CloseEnds \/ Crash
    PROVE  TypeInv'
<1>1. /\ Leave /\ pager' = "closed"
      /\ DOMAIN journal' = {} /\ journal' \in [{} -> BlockData] /\ oldSize' = 0
    BY DEF CloseEnds, Crash, Destroyed, Die, End, NoJournal, TypeInv, ModesAgree, PagerType
<1>2. /\ openLen' = 0 /\ logicalToPhysical' = Unmapped /\ logicalSize' = 0
      /\ DOMAIN pending' = {} /\ pending' \in [{} -> Payload]
    <2>1. CASE CloseEnds
        <3>1. pager = "closing" /\ UNCHANGED mapperVars /\ mode = "closing"
            BY <2>1 DEF CloseEnds, Destroyed
        <3> QED
            BY <3>1 DEF TypeInv, ModesAgree, Live, FileType, mapperVars
    <2>2. CASE Crash
        BY <2>2, ForgetIs DEF Crash, Die
    <2> QED
        BY <2>1, <2>2
<1>3. FileType' /\ mode' = "none" /\ Unmapped' = Unmapped
    BY <1>1, <1>2, EndIs DEF TypeInv, Leave, Unmapped
<1>4. 0 \in 0 .. MaxSize
    BY MaxSizeType
<1> QED
    BY <1>1, <1>2, <1>3, <1>4 DEF TypeInv, PagerType, ModesAgree, Live

LEMMA OtherType ==
    ASSUME TypeInv, Begin \/ RestoreNothing \/ Meanwhile \/ UNCHANGED vars
    PROVE  TypeInv'
<1>1. CASE Begin \/ RestoreNothing
    <2>1. /\ UNCHANGED <<objectVars, mapperVars, journal>> /\ pager \in {"reader", "restoring"}
          /\ \/ pager' = "writer" /\ oldSize' = logicalSize
             \/ pager' = "reader" /\ oldSize' = 0 /\ DOMAIN journal = {} /\ DOMAIN pending = {}
        BY <1>1 DEF Begin, RestoreNothing
    <2>2. FileType' /\ mode = "ready" /\ mode' = mode
        BY <2>1 DEF TypeInv, FileType, ModesAgree, objectVars, mapperVars
    <2>3. oldSize' \in 0 .. MaxSize
        BY <2>1, MaxSizeType DEF TypeInv, FileType
    <2> QED
        BY <2>1, <2>2, <2>3 DEF TypeInv, PagerType, ModesAgree, Live, mapperVars
<1>2. CASE Meanwhile
    <2>1. Background /\ UNCHANGED pagerVars
        BY <1>2 DEF Meanwhile
    <2>2. UNCHANGED <<mode, mapperVars>> /\ FileType'
        BY <2>1, BackgroundIs DEF TypeInv
    <2> QED
        BY <2>1, <2>2 DEF TypeInv, PagerType, ModesAgree, Live, pagerVars, mapperVars, Unmapped
<1>3. CASE UNCHANGED vars
    BY <1>3 DEF vars, objectVars, mapperVars, pagerVars, TypeInv, FileType, PagerType,
                ModesAgree, Live, Unmapped
<1> QED
    BY <1>1, <1>2, <1>3

LEMMA TypeStep == TypeInv /\ [Next]_vars => TypeInv'
<1> SUFFICES ASSUME TypeInv, Step \/ UNCHANGED vars PROVE TypeInv'
    BY DEF Next
<1> QED
    BY WritePageType, ShrinkToType, RollbackType, RestorePageType, SyncingType, SyncedType,
       OpenedType, EndedType, OtherType DEF Step

(* The database file, the pager and its journal keep their types through   *)
(* every transaction, failed sync, close and crash.                        *)
THEOREM TransactionsTypeCorrect == Spec => []TypeOK
<1>1. TypeInv => TypeOK
    BY TypeParts DEF TypeInv
<1> QED
    BY <1>1, InitType, TypeStep, PTL DEF Spec

-----------------------------------------------------------------------------
(* What the pager's steps are for the file.                                *)

Writes == \E b \in Block : \E d \in BlockData : XWrite(b, d)

Truncates == \E n \in 0 .. MaxSize :
                 XTruncate(n) /\ (n = oldSize \/ \E m \in 0 .. NumBlocks : n = m * BlockUnits)

Modifies == /\ Writes \/ Truncates \/ UNCHANGED <<objectVars, mapperVars>>
            /\ UNCHANGED <<committed, doubt>>

Syncs == XSync /\ doubt' = doubt \cup {contents} /\ UNCHANGED committed

SyncReturns ==
    /\ mode = "syncing" /\ mode' = "ready"
    /\ UNCHANGED <<stored, sent, appended, mapperVars>>
    /\ \/ /\ arrives /\ arrives' /\ sent = <<>> /\ doubt' = {}
          /\ committed' = contents \/ (pager = "undoing" /\ UNCHANGED committed)
       \/ arrives' \in {arrives, FALSE} /\ UNCHANGED <<committed, doubt>>

Ends == ~Live' /\ UNCHANGED <<stored, sent, committed, doubt>>

LEMMA FileSteps ==
    ASSUME TypeInv, Step \/ UNCHANGED vars
    PROVE  \/ OpenDatabase \/ Modifies \/ Syncs \/ SyncReturns \/ Ends
           \/ Background /\ UNCHANGED <<committed, doubt>>
<1>1. CASE \E b \in Block, d \in PageData : WritePage(b, d)
    BY <1>1, PageAssumption DEF WritePage, Modifies, Writes
<1>2. CASE \E n \in 0 .. NumBlocks : ShrinkTo(n)
    <2>1. PICK n \in 0 .. NumBlocks : ShrinkTo(n)
        BY <1>2
    <2>2. n * BlockUnits \in 0 .. MaxSize
        BY BlocksSize
    <2> QED
        BY <2>1, <2>2 DEF ShrinkTo, Modifies, Truncates
<1>3. CASE Rollback
    <2>1. oldSize \in 0 .. MaxSize /\ logicalSize \in 0 .. MaxSize /\ UNCHANGED <<committed, doubt>>
        BY <1>3 DEF Rollback, TypeInv, PagerType, FileType
    <2>2. CASE logicalSize < oldSize /\ XWrite(CeilBlocks(oldSize) - 1, ZeroBlock)
        <3>1. CeilBlocks(oldSize) - 1 \in Block
            BY <2>1, <2>2, MaxSizeType, LastPage
        <3> QED
            BY <2>1, <2>2, <3>1, ZeroBlockType DEF Modifies, Writes
    <2>3. CASE XTruncate(oldSize)
        BY <2>1, <2>3 DEF Modifies, Truncates
    <2> QED
        BY <1>3, <2>1, <2>2, <2>3 DEF Rollback, Modifies
<1>4. CASE RestorePage
    <2>1. PICK b \in DOMAIN journal : XWrite(b, journal[b])
        BY <1>4 DEF RestorePage
    <2>2. b \in Block /\ journal[b] \in BlockData /\ UNCHANGED <<committed, doubt>>
        BY <1>4 DEF RestorePage, TypeInv, PagerType
    <2> QED
        BY <2>1, <2>2 DEF Modifies, Writes
<1>5. CASE Begin \/ RestoreNothing \/ UNCHANGED vars
    BY <1>5 DEF Begin, RestoreNothing, vars, Modifies
<1>6. CASE CommitStart \/ RestoreSync
    BY <1>6 DEF CommitStart, RestoreSync, Syncs
<1>7. CASE CommitOk \/ CommitFails \/ RollbackOk \/ RollbackFails
    <2>1. /\ mode = "syncing" /\ mode' = "ready"
          /\ UNCHANGED <<stored, sent, appended, mapperVars>>
        BY <1>7 DEF CommitOk, CommitFails, RollbackOk, RollbackFails, XSyncOk, XSyncFails,
                    SyncOk, SyncFails
    <2>2. CASE CommitOk \/ RollbackOk
        <3>1. /\ arrives /\ arrives' = arrives /\ sent = <<>> /\ doubt' = {}
              /\ committed' = contents \/ (pager = "undoing" /\ UNCHANGED committed)
            BY <2>2 DEF CommitOk, RollbackOk, XSyncOk, SyncOk
        <3> QED
            BY <2>1, <3>1 DEF SyncReturns
    <2>3. CASE CommitFails \/ RollbackFails
        <3>1. arrives' \in {arrives, FALSE} /\ UNCHANGED <<committed, doubt>>
            BY <2>3 DEF CommitFails, RollbackFails, XSyncFails, SyncFails
        <3> QED
            BY <2>1, <3>1 DEF SyncReturns
    <2> QED
        BY <1>7, <2>2, <2>3
<1>8. CASE CloseDatabase
    <2>1. mode' = "closing" /\ UNCHANGED <<stored, sent, committed, doubt>>
        BY <1>8, XCloseIs DEF CloseDatabase, TypeInv
    <2> QED
        BY <2>1 DEF Ends, Live
<1>9. CASE CloseEnds \/ Crash
    BY <1>9 DEF CloseEnds, Crash, Destroyed, Die, End, Leave, Ends, Live
<1>10. CASE Meanwhile
    BY <1>10 DEF Meanwhile
<1> QED
    BY <1>1, <1>2, <1>3, <1>4, <1>5, <1>6, <1>7, <1>8, <1>9, <1>10 DEF Step

-----------------------------------------------------------------------------
(* The object and the session.                                             *)

(* What a session that can still reach the stream appended is stored or on *)
(* its way, in order.                                                      *)
Arrival == Live /\ arrives => stored \o sent = appended

LEMMA ConcatNothing == \A s \in Seq(Record) : s \o <<>> = s
    BY ConcatEmptySeq

LEMMA PersistKeeps ==
    ASSUME NEW s \in Seq(Record), NEW t \in Seq(Record), t # <<>>
    PROVE  Append(s, Head(t)) \o Tail(t) = s \o t
<1>1. /\ Head(t) \in Record /\ Tail(t) \in Seq(Record) /\ <<Head(t)>> \in Seq(Record)
      /\ <<Head(t)>> \o Tail(t) = t
    BY HeadTailProperties
<1>2. Append(s, Head(t)) = s \o <<Head(t)>>
    BY <1>1, AppendIsConcat
<1> QED
    BY <1>1, <1>2, ConcatAssociative

LEMMA ConcatThree ==
    ASSUME NEW s \in Seq(Record), NEW t \in Seq(Record), NEW u \in Seq(Record)
    PROVE  s \o (t \o u) = (s \o t) \o u
    BY ConcatAssociative, SMTT(30)

LEMMA ArrivalStep == TypeInv /\ Arrival /\ [Next]_vars => Arrival'
<1> SUFFICES ASSUME TypeInv, Arrival, Step \/ UNCHANGED vars PROVE Arrival'
    BY DEF Next
<1>1. stored \in Seq(Record) /\ sent \in Seq(Record) /\ appended \in Seq(Record)
    BY DEF TypeInv, FileType
<1>2. CASE OpenDatabase
    <2>1. sent' = <<>> /\ stored' = stored /\ appended' = stored
        BY <1>2, XOpenIs DEF OpenDatabase, TypeInv
    <2> QED
        BY <1>1, <2>1, ConcatNothing DEF Arrival
<1>3. CASE Modifies
    <2>1. UNCHANGED objectVars
        BY <1>3, XWriteIs, XTruncateIs DEF Modifies, Writes, Truncates, TypeInv
    <2> QED
        BY <2>1 DEF Arrival, Live, objectVars
<1>4. CASE Syncs
    <2>1. /\ mode = "ready" /\ appended' = appended \o Batch /\ DOMAIN pending # {}
          /\ sent' = IF arrives THEN sent \o Batch ELSE sent
          /\ UNCHANGED <<stored, arrives>>
        BY <1>4, XSyncIs DEF Syncs, TypeInv
    <2>2. Batch \in Seq(Record)
        BY <2>1, BatchIs DEF TypeInv
    <2>3. stored \o (sent \o Batch) = (stored \o sent) \o Batch
        BY <1>1, <2>2, ConcatThree
    <2> QED
        BY <2>1, <2>3 DEF Arrival, Live
<1>5. CASE SyncReturns
    BY <1>5 DEF SyncReturns, Arrival, Live, TypeInv, FileType
<1>6. CASE Ends
    BY <1>6 DEF Ends, Arrival
<1>7. CASE Background
    <2>1. /\ UNCHANGED <<mode, appended>>
          /\ \/ /\ sent # <<>> /\ stored' = Append(stored, Head(sent)) /\ sent' = Tail(sent)
                /\ arrives' = arrives
             \/ arrives' = FALSE
        BY <1>7, BackgroundIs DEF TypeInv
    <2>2. sent # <<>> => Append(stored, Head(sent)) \o Tail(sent) = stored \o sent
        BY <1>1, PersistKeeps
    <2> QED
        BY <2>1, <2>2 DEF Arrival, Live
<1> QED
    BY <1>2, <1>3, <1>4, <1>5, <1>6, <1>7, FileSteps

(* What is stored and on its way is in any case the beginning of what the  *)
(* session appended: no record of it ever gets another one's place.        *)
Begins(s, t) == Len(s) <= Len(t) /\ \A i \in 1 .. Len(s) : t[i] = s[i]
InOrder == Live => Begins(stored \o sent, appended)

LEMMA BeginsLonger ==
    ASSUME NEW s \in Seq(Record), NEW t \in Seq(Record), NEW u \in Seq(Record),
           Begins(s, t), Len(t) <= Len(u), \A i \in 1 .. Len(t) : u[i] = t[i]
    PROVE  Begins(s, u)
    BY DEF Begins

LEMMA BeginsFirst ==
    ASSUME NEW s \in Seq(Record), NEW t \in Seq(Record), NEW u \in Seq(Record),
           Begins(s \o t, u)
    PROVE  Begins(s, u)
<1>1. /\ Len(s \o t) = Len(s) + Len(t) /\ Len(s) \in Nat /\ Len(t) \in Nat
      /\ Len(u) \in Nat
    OBVIOUS
<1>2. \A i \in 1 .. Len(s) : (s \o t)[i] = s[i]
    OBVIOUS
<1> QED
    BY <1>1, <1>2 DEF Begins

LEMMA InOrderStep == TypeInv /\ Arrival /\ InOrder /\ [Next]_vars => InOrder'
<1> SUFFICES ASSUME TypeInv, Arrival, InOrder, Step \/ UNCHANGED vars PROVE InOrder'
    BY DEF Next
<1>1. stored \in Seq(Record) /\ sent \in Seq(Record) /\ appended \in Seq(Record)
      /\ stored \o sent \in Seq(Record)
    BY DEF TypeInv, FileType
<1>2. CASE OpenDatabase
    <2>1. sent' = <<>> /\ stored' = stored /\ appended' = stored
        BY <1>2, XOpenIs DEF OpenDatabase, TypeInv
    <2> QED
        BY <1>1, <2>1, ConcatNothing DEF InOrder, Begins
<1>3. CASE Modifies
    <2>1. UNCHANGED objectVars
        BY <1>3, XWriteIs, XTruncateIs DEF Modifies, Writes, Truncates, TypeInv
    <2> QED
        BY <2>1 DEF InOrder, Live, objectVars
<1>4. CASE Syncs
    <2>1. /\ Live /\ UNCHANGED <<stored, arrives>>
          /\ sent' = IF arrives THEN sent \o Batch ELSE sent
          /\ appended' = appended \o Batch /\ DOMAIN pending # {}
          /\ Len(appended') = Len(appended) + Len(Batch)
          /\ \A i \in 1 .. Len(appended) : appended'[i] = appended[i]
        BY <1>4, XSyncIs DEF Syncs, TypeInv, Live
    <2>2. Batch \in Seq(Record)
        BY <2>1, BatchIs DEF TypeInv
    <2>3. appended' \in Seq(Record)
        BY <1>1, <2>1, <2>2
    <2>4. CASE arrives
        <3>1. stored \o sent = appended
            BY <2>1, <2>4 DEF Arrival
        <3>2. stored \o (sent \o Batch) = (stored \o sent) \o Batch
            BY <1>1, <2>2, ConcatThree
        <3>3. stored' \o sent' = appended'
            BY <2>1, <2>4, <3>1, <3>2
        <3> QED
            BY <2>3, <3>3 DEF InOrder, Begins
    <2>5. CASE ~arrives
        <3>1. Begins(stored \o sent, appended) /\ Len(appended) <= Len(appended')
            BY <1>1, <2>1, <2>2 DEF InOrder
        <3>2. Begins(stored \o sent, appended')
            BY <1>1, <2>1, <2>3, <3>1, BeginsLonger
        <3> QED
            BY <2>1, <2>5, <3>2 DEF InOrder
    <2> QED
        BY <1>1, <2>4, <2>5 DEF TypeInv, FileType
<1>5. CASE SyncReturns
    BY <1>5 DEF SyncReturns, InOrder, Live
<1>6. CASE Ends
    BY <1>6 DEF Ends, InOrder
<1>7. CASE Background
    <2>1. UNCHANGED <<mode, appended>>
        BY <1>7, BackgroundIs DEF TypeInv
    <2>2. CASE sent # <<>> /\ stored' = Append(stored, Head(sent)) /\ sent' = Tail(sent)
        BY <1>1, <2>1, <2>2, PersistKeeps DEF InOrder, Live
    <2>3. CASE stored' = stored /\ sent' = <<>>
        <3>1. stored' \o sent' = stored
            BY <1>1, <2>3, ConcatNothing
        <3> QED
            BY <1>1, <2>1, <3>1, BeginsFirst DEF InOrder, Live
    <2> QED
        BY <1>7, <2>2, <2>3 DEF Background, Persist, CutOff
<1> QED
    BY <1>2, <1>3, <1>4, <1>5, <1>6, <1>7, FileSteps

(* What a read of a block returns is what the mapper keeps of it: the      *)
(* object has the records it has where the session put them.               *)
LEMMA ReadIsKept ==
    ASSUME FileType, InOrder, Live, NEW b \in Block, Readable(b)
    PROVE  ReadBlock(b) = Page(b)
<1>1. CASE Writers(b) # {} \/ logicalToPhysical[b] = 0
    BY <1>1, ReadNames DEF Page, BlockAt
<1>2. CASE ~(Writers(b) # {} \/ logicalToPhysical[b] = 0)
    <2>1. PICK k \in Nat : k = logicalToPhysical[b]
        BY DEF FileType
    <2>2. k \in 1 .. Len(stored)
        BY <1>2, <2>1, ReadNames DEF FileType
    <2>3. Begins(stored, appended)
        BY BeginsFirst DEF InOrder, FileType
    <2>4. appended[k] = stored[k]
        BY <2>2, <2>3 DEF Begins
    <2> QED
        BY <1>2, <2>1, <2>4, ReadNames DEF Page, BlockAt
<1> QED
    BY <1>1, <1>2

(* As long as no sync failed since the last commit, what is mapped is      *)
(* stored.                                                                 *)
StoredInv == Live /\ doubt = {} => \A b \in Block : logicalToPhysical[b] <= Len(stored)

LEMMA StoredStep == TypeInv /\ Arrival /\ StoredInv /\ [Next]_vars => StoredInv'
<1> SUFFICES ASSUME TypeInv, Arrival, StoredInv, Step \/ UNCHANGED vars PROVE StoredInv'
    BY DEF Next
<1>1. /\ Len(stored) \in Nat /\ Len(appended) \in Nat /\ stored \in Seq(Record)
      /\ logicalToPhysical \in [Block -> 0 .. Len(appended)]
    BY DEF TypeInv, FileType
<1>2. CASE OpenDatabase
    <2>1. stored' = stored /\ logicalToPhysical' = RecoveredMap(stored, Len(stored))
        BY <1>2, XOpenIs DEF OpenDatabase, TypeInv
    <2>2. RecoveredMap(stored, Len(stored)) \in [Block -> 0 .. Len(stored)]
        BY <1>1, RecoveredType
    <2> QED
        BY <1>1, <2>1, <2>2 DEF StoredInv
<1>3. CASE Modifies
    <2>1. UNCHANGED <<objectVars, doubt>>
        BY <1>3, XWriteIs, XTruncateIs DEF Modifies, Writes, Truncates, TypeInv
    <2>2. \A b \in Block : logicalToPhysical'[b] \in {0, logicalToPhysical[b]}
        BY <1>3, XWriteIs, XTruncateIs DEF Modifies, Writes, Truncates, TypeInv, mapperVars
    <2> QED
        BY <1>1, <2>1, <2>2 DEF StoredInv, Live, objectVars
<1>4. CASE Syncs
    BY <1>4 DEF Syncs, StoredInv
<1>5. CASE SyncReturns
    <2>1. UNCHANGED <<stored, logicalToPhysical>> /\ Live
        BY <1>5 DEF SyncReturns, Live, mapperVars
    <2>2. CASE arrives /\ sent = <<>>
        <3>1. stored = appended
            BY <1>1, <2>1, <2>2, ConcatNothing DEF Arrival
        <3> QED
            BY <1>1, <2>1, <3>1 DEF StoredInv
    <2>3. CASE UNCHANGED doubt
        BY <2>1, <2>3 DEF StoredInv
    <2> QED
        BY <1>5, <2>2, <2>3 DEF SyncReturns
<1>6. CASE Ends
    BY <1>6 DEF Ends, StoredInv
<1>7. CASE Background /\ UNCHANGED <<committed, doubt>>
    <2>1. UNCHANGED <<mode, logicalToPhysical, doubt>> /\ Len(stored') >= Len(stored)
          /\ stored' \in Seq(Record)
        BY <1>7, BackgroundIs DEF TypeInv, mapperVars
    <2> QED
        BY <1>1, <2>1 DEF StoredInv, Live
<1> QED
    BY <1>2, <1>3, <1>4, <1>5, <1>6, <1>7, FileSteps

(* A session whose syncs all succeeded since its last commit reads only    *)
(* records that are in the object: what it returns is there for everybody  *)
(* and for good, whatever becomes of the stream (BlockMapper::Sync, which  *)
(* maps its batch before the storage's Sync returns, under SQLite's pager).*)
THEOREM SessionReadsStored == Spec => []ReadsAreStored
<1>1. Init => TypeInv /\ Arrival /\ StoredInv
    BY InitType DEF Init, FileInit, ObjectInit, Arrival, StoredInv, Live
<1>2. TypeInv /\ StoredInv => ReadsAreStored
    BY DEF TypeInv, ModesAgree, FileType, StoredInv, ReadsAreStored, Live
<1> QED
    BY <1>1, <1>2, TypeStep, ArrivalStep, StoredStep, PTL DEF Spec

-----------------------------------------------------------------------------
(* What the reader of the file sees, page by page.                         *)

PagesOK == Pages \in [Block -> BlockData]

LEMMA PagesType == FileType => PagesOK
    BY PageType DEF Pages, PagesOK

LEMMA PagesTypeNext == FileType' => PagesOK'
    BY PagesType, PTL

LEMMA XWritePages ==
    ASSUME FileType, NEW b \in Block, NEW d \in BlockData, XWrite(b, d)
    PROVE  Pages' = [c \in Block |-> IF c = b THEN d ELSE Pages[c]]
<1>1. /\ Pushed(DOMAIN pending, DataRecord(b, d)) /\ LastSlot + 1 <= MaxPending
      /\ DataRecord(b, d) \in Payload
      /\ UNCHANGED <<objectVars, logicalToPhysical>>
    BY XWriteIs
<1>2. /\ DOMAIN pending' = DOMAIN pending \cup {LastSlot + 1}
      /\ \A s \in DOMAIN pending : s \in Nat /\ s < LastSlot + 1 /\ pending'[s] = pending[s]
      /\ pending'[LastSlot + 1] = DataRecord(b, d)
    BY <1>1, PushIs
<1>3. ASSUME NEW c \in Block
      PROVE  Page(c)' = IF c = b THEN d ELSE Page(c)
    <2>1. CASE c # b
        <3>1. Writers(c)' = Writers(c)
            BY <1>2, <2>1 DEF Writers, DataRecord
        <3>2. \A s \in Writers(c) : pending'[s] = pending[s]
            BY <1>2 DEF Writers
        <3>3. Writers(c) # {} => LastOf(Writers(c)) \in Writers(c)
            BY LastWriter
        <3> QED
            BY <1>1, <2>1, <3>1, <3>2, <3>3 DEF Page, objectVars
    <2>2. CASE c = b
        <3>1. Writers(c)' = Writers(c) \cup {LastSlot + 1}
            BY <1>2, <2>2 DEF Writers, DataRecord
        <3>2. LastSlot + 1 \in Nat /\ LastSlot + 1 \in 0 .. MaxPending /\ MaxPending \in Nat
              /\ DOMAIN pending \subseteq 0 .. MaxPending
            BY <1>1, LastSlotType, MapperAssumption
        <3>3. /\ Writers(c)' \subseteq 0 .. MaxPending
              /\ LastSlot + 1 \in Writers(c)'
              /\ \A s \in Writers(c)' : s <= LastSlot + 1
            BY <1>2, <3>1, <3>2 DEF Writers
        <3>4. LastOf(Writers(c)') = LastSlot + 1
            BY <3>2, <3>3, LastOfIs
        <3> QED
            BY <1>2, <2>2, <3>1, <3>4 DEF Page, DataRecord
    <2> QED
        BY <2>1, <2>2
<1> QED
    BY <1>3 DEF Pages

LEMMA XTruncatePages ==
    ASSUME FileType, NEW n \in 0 .. MaxSize, XTruncate(n)
    PROVE  Pages' = [c \in Block |-> IF c >= CeilBlocks(n) THEN ZeroBlock ELSE Pages[c]]
<1>1. /\ Pushed(Kept(n), TruncateRecord(n)) /\ LastSlot + 1 <= MaxPending
      /\ TruncateRecord(n) \in Payload /\ Kept(n) \in SUBSET DOMAIN pending
      /\ UNCHANGED objectVars
      /\ logicalToPhysical' =
             [b \in Block |-> IF b >= CeilBlocks(n) THEN 0 ELSE logicalToPhysical[b]]
    BY XTruncateIs DEF Kept
<1>2. /\ DOMAIN pending' = Kept(n) \cup {LastSlot + 1}
      /\ \A s \in Kept(n) : pending'[s] = pending[s]
      /\ pending'[LastSlot + 1] = TruncateRecord(n)
    BY <1>1, PushIs
<1>3. CeilBlocks(n) \in Int
    BY CeilRange
<1>4. ASSUME NEW c \in Block
      PROVE  Page(c)' = IF c >= CeilBlocks(n) THEN ZeroBlock ELSE Page(c)
    <2>0. c \in Int /\ c # Metadata
        BY FormatAssumption DEF Block, Metadata
    <2>1. CASE c >= CeilBlocks(n)
        <3>1. Writers(c)' = {}
            BY <1>2, <1>3, <2>0, <2>1 DEF Writers, Kept, TruncateRecord
        <3> QED
            BY <1>1, <2>1, <3>1 DEF Page, BlockAt
    <2>2. CASE ~(c >= CeilBlocks(n))
        <3>1. Writers(c)' = Writers(c)
            BY <1>2, <1>3, <2>0, <2>2 DEF Writers, Kept, TruncateRecord
        <3>2. \A s \in Writers(c) : pending'[s] = pending[s]
            BY <1>2, <1>3, <2>0, <2>2 DEF Writers, Kept
        <3>3. Writers(c) # {} => LastOf(Writers(c)) \in Writers(c)
            BY LastWriter
        <3> QED
            BY <1>1, <2>2, <3>1, <3>2, <3>3 DEF Page, objectVars
    <2> QED
        BY <2>1, <2>2
<1> QED
    BY <1>4 DEF Pages

(* A sync changes where the pages are read from, and none of them.         *)
LEMMA XSyncPages ==
    ASSUME FileType, XSync
    PROVE  Pages' = Pages
<1>1. /\ DOMAIN pending # {} /\ DOMAIN pending' = {}
      /\ \A i \in 1 .. Len(appended) : appended'[i] = appended[i]
      /\ \A j \in 1 .. Len(Batch) : appended'[Len(appended) + j] = Batch[j]
      /\ logicalToPhysical' = [b \in Block |->
             IF Writers(b) = {} THEN logicalToPhysical[b] ELSE Len(appended) + LastIn(Batch, b)]
    BY XSyncIs
<1>2. Len(appended) \in Nat /\ Len(Batch) \in Nat
      /\ \A i \in 1 .. Len(Batch) : Batch[i] = Flagged(pending[Slots[i]], Flag(Slots[i]))
    BY <1>1, BatchIs DEF FileType
<1>3. ASSUME NEW c \in Block
      PROVE  Page(c)' = Page(c)
    <2>1. Page(c)' = BlockAt(appended', logicalToPhysical'[c])
        BY <1>1 DEF Page, Writers
    <2>2. CASE Writers(c) = {}
        <3>1. logicalToPhysical'[c] = logicalToPhysical[c]
              /\ logicalToPhysical[c] \in 0 .. Len(appended)
            BY <1>1, <2>2 DEF FileType
        <3> QED
            BY <1>1, <1>2, <2>1, <2>2, <3>1, BlockAtSame DEF Page
    <2>3. CASE Writers(c) # {}
        <3> DEFINE j == LastIn(Batch, c)
        <3>1. j \in 0 .. Len(Batch) /\ j # 0 /\ Slots[j] = LastOf(Writers(c))
            BY <1>1, <2>3, LastInIs
        <3>2. logicalToPhysical'[c] = Len(appended) + j
            BY <1>1, <2>3
        <3> HIDE DEF j
        <3>3. j \in 1 .. Len(Batch) /\ Len(appended) + j # 0
            BY <1>2, <3>1
        <3>4. appended'[Len(appended) + j] = Batch[j]
            BY <1>1, <3>3
        <3>5. Batch[j] = Flagged(pending[Slots[j]], Flag(Slots[j]))
            BY <1>2, <3>3
        <3>6. Batch[j].data = pending[LastOf(Writers(c))].data
            BY <3>1, <3>5 DEF Flagged
        <3> QED
            BY <2>1, <2>3, <3>2, <3>3, <3>4, <3>6 DEF BlockAt, Page
    <2> QED
        BY <2>2, <2>3
<1> QED
    BY <1>3 DEF Pages

LEMMA XOpenPages ==
    ASSUME FileType, DOMAIN pending = {}, XOpen
    PROVE  Leaves(stored, Applied(stored, Len(stored)), Pages', logicalSize')
<1>1. /\ appended' = stored /\ DOMAIN pending' = {}
      /\ logicalToPhysical' = RecoveredMap(stored, Len(stored))
      /\ logicalSize' = RecoveredSize(stored, Len(stored))
    BY XOpenIs
<1>2. \A b \in Block : Page(b)' = BlockAt(stored, logicalToPhysical'[b])
    BY <1>1 DEF Page, Writers
<1> QED
    BY <1>1, <1>2 DEF Leaves, Pages, RecoveredMap, RecoveredSize

-----------------------------------------------------------------------------
(* The records in effect for a session that opened a log of m records: of  *)
(* those the ones that were applied, all it appended, and the pending ones *)
(* p behind them.                                                          *)

InSession(log, m) == {i \in 1 .. Len(log) : i > m \/ AppliedUpTo(log, m, i)}
InEffect(log, m, p) == InSession(log, m) \cup {Len(log) + s : s \in DOMAIN p}
Joined(log, p) == [i \in 1 .. Len(log) + MaxPending |->
                      IF i <= Len(log) THEN log[i] ELSE Flagged(p[i - Len(log)], Commit)]

(* The pages and the size are always what those records leave.             *)
SessionInv ==
    Live => Leaves(Joined(appended, pending), InEffect(appended, openLen, pending),
                   Pages, logicalSize)

LEMMA JoinedIs ==
    ASSUME NEW log \in Seq(Record), NEW m, NEW p, DOMAIN p \subseteq 1 .. MaxPending,
           p \in [DOMAIN p -> Payload]
    PROVE  /\ InSession(log, m) \subseteq 1 .. Len(log)
           /\ InEffect(log, m, p) \subseteq 1 .. Len(log) + MaxPending
           /\ \A i \in 1 .. Len(log) : Joined(log, p)[i] = log[i]
           /\ \A s \in DOMAIN p : Joined(log, p)[Len(log) + s] = Flagged(p[s], Commit)
           /\ \A i \in InEffect(log, m, p) : Joined(log, p)[i] \in Record
<1>1. Len(log) \in Nat /\ MaxPending \in Nat /\ \A i \in 1 .. Len(log) : log[i] \in Record
    BY MapperAssumption
<1>2. InSession(log, m) \subseteq 1 .. Len(log)
    BY DEF InSession
<1>3. \A i \in 1 .. Len(log) : i \in 1 .. Len(log) + MaxPending /\ i <= Len(log)
    BY <1>1
<1>4. \A s \in DOMAIN p : /\ Len(log) + s \in 1 .. Len(log) + MaxPending
                          /\ ~(Len(log) + s <= Len(log)) /\ Len(log) + s - Len(log) = s
    BY <1>1
<1>5. \A i \in 1 .. Len(log) : Joined(log, p)[i] = log[i]
    BY <1>3 DEF Joined
<1>6. \A s \in DOMAIN p : Joined(log, p)[Len(log) + s] = Flagged(p[s], Commit)
    BY <1>4 DEF Joined
<1>7. InEffect(log, m, p) \subseteq 1 .. Len(log) + MaxPending
    BY <1>2, <1>3, <1>4 DEF InEffect
<1>8. ASSUME NEW i \in InEffect(log, m, p)
      PROVE  Joined(log, p)[i] \in Record
    <2>1. CASE i \in InSession(log, m)
        BY <1>1, <1>2, <1>5, <2>1
    <2>2. CASE \E s \in DOMAIN p : i = Len(log) + s
        BY <1>6, <2>2, RecordTypes
    <2> QED
        BY <2>1, <2>2 DEF InEffect
<1> QED
    BY <1>2, <1>5, <1>6, <1>7, <1>8

(* With nothing pending they are records of the log.                       *)
LEMMA NothingJoined ==
    ASSUME NEW log \in Seq(Record), NEW m, NEW p, DOMAIN p = {}, NEW f, NEW size
    PROVE  /\ InEffect(log, m, p) = InSession(log, m)
           /\ Leaves(Joined(log, p), InEffect(log, m, p), f, size)
                  <=> Leaves(log, InSession(log, m), f, size)
<1>1. InEffect(log, m, p) = InSession(log, m)
    BY DEF InEffect
<1>2. Len(log) \in Nat /\ InSession(log, m) \subseteq 1 .. Len(log) /\ MaxPending \in Nat
    BY MapperAssumption DEF InSession
<1>3. \A i \in InSession(log, m) : Joined(log, p)[i] = log[i]
    <2>1. \A i \in 1 .. Len(log) : i \in 1 .. Len(log) + MaxPending /\ i <= Len(log)
        BY <1>2
    <2> QED
        BY <1>2, <2>1 DEF Joined
<1>4. Leaves(log, InSession(log, m), f, size) => Leaves(Joined(log, p), InSession(log, m), f, size)
    BY <1>2, <1>3, LeavesSame
<1>5. Leaves(Joined(log, p), InSession(log, m), f, size) => Leaves(log, InSession(log, m), f, size)
    BY <1>2, <1>3, LeavesSame
<1> QED
    BY <1>1, <1>4, <1>5

(* The joined log with a record behind it, of which not all pending ones   *)
(* are kept.                                                               *)
Longer(r) == [i \in 1 .. Len(appended) + LastSlot + 1 |->
                 IF i = Len(appended) + LastSlot + 1 THEN Flagged(r, Commit)
                 ELSE Joined(appended, pending)[i]]

KeptIn(keep) == InSession(appended, openLen) \cup {Len(appended) + s : s \in keep}

(* What a push does to the records in effect.                              *)
Joins(keep, r, p) ==
    /\ p \in Nat \ {0} /\ InEffect(appended, openLen, pending) \subseteq 1 .. p - 1
    /\ KeptIn(keep) \in SUBSET InEffect(appended, openLen, pending)
    /\ \A i \in InEffect(appended, openLen, pending) \ KeptIn(keep) :
           \E s \in DOMAIN pending \ keep : Longer(r)[i] = Flagged(pending[s], Commit)
    /\ Longer(r)[p] = Flagged(r, Commit)
    /\ \A i \in InEffect(appended, openLen, pending) :
           Longer(r)[i] = Joined(appended, pending)[i] /\ Longer(r)[i] \in Record
    /\ InEffect(appended, openLen, pending)' = KeptIn(keep) \cup {p}
    /\ \A i \in KeptIn(keep) \cup {p} : Joined(appended, pending)'[i] = Longer(r)[i]

LEMMA PushJoins ==
    ASSUME FileType, NEW keep \in SUBSET DOMAIN pending, NEW r \in Payload,
           Pushed(keep, r), LastSlot + 1 <= MaxPending, UNCHANGED <<appended, openLen>>,
           NEW p, p = Len(appended) + LastSlot + 1
    PROVE  Joins(keep, r, p)
<1> DEFINE E == InEffect(appended, openLen, pending)
           J == Joined(appended, pending)
           k == Len(appended)
<1>1. k \in Nat /\ LastSlot \in Nat /\ MaxPending \in Nat
      /\ \A s \in DOMAIN pending : s \in 1 .. LastSlot
    BY LastSlotType, MapperAssumption DEF FileType
<1>2. /\ InSession(appended, openLen) \subseteq 1 .. k
      /\ \A i \in 1 .. k : J[i] = appended[i]
      /\ \A s \in DOMAIN pending : J[k + s] = Flagged(pending[s], Commit)
      /\ \A i \in E : J[i] \in Record
    <2>1. /\ appended \in Seq(Record) /\ DOMAIN pending \subseteq 1 .. MaxPending
          /\ pending \in [DOMAIN pending -> Payload]
        BY DEF FileType
    <2> QED
        BY ONLY <2>1, JoinedIs
<1>3. p \in Nat \ {0} /\ \A i \in 1 .. k : i \in 1 .. p - 1 /\ i # p /\ i \in 1 .. p
    BY <1>1
<1>4. \A s \in DOMAIN pending : k + s \in 1 .. p - 1 /\ k + s # p /\ k + s \in 1 .. p
    BY <1>1
<1>5. E \subseteq 1 .. p - 1 /\ \A i \in E : i # p /\ i \in 1 .. p
    BY <1>2, <1>3, <1>4 DEF InEffect
<1>6. KeptIn(keep) \in SUBSET E
    BY DEF InEffect, KeptIn
<1>7. Longer(r)[p] = Flagged(r, Commit)
    BY <1>3 DEF Longer
<1>8. \A i \in E : Longer(r)[i] = J[i]
    BY <1>5 DEF Longer
<1>9. ASSUME NEW i \in E \ KeptIn(keep)
      PROVE  \E s \in DOMAIN pending \ keep : Longer(r)[i] = Flagged(pending[s], Commit)
    <2>1. PICK s \in DOMAIN pending : i = k + s
        BY DEF InEffect, KeptIn
    <2>2. s \notin keep
        BY <2>1 DEF KeptIn
    <2> QED
        BY <1>2, <1>8, <2>1, <2>2
<1>10. /\ DOMAIN pending' = keep \cup {LastSlot + 1}
       /\ pending'[LastSlot + 1] = r /\ \A s \in keep : pending'[s] = pending[s]
       /\ DOMAIN pending' \subseteq 1 .. MaxPending /\ pending' \in [DOMAIN pending' -> Payload]
    BY PushIs
<1>11. E' = KeptIn(keep) \cup {p}
    <2>1. E' = InSession(appended, openLen) \cup {k + s : s \in DOMAIN pending'}
        BY DEF InEffect
    <2>2. {k + s : s \in DOMAIN pending'} = {k + s : s \in keep} \cup {k + (LastSlot + 1)}
        BY <1>10
    <2>3. k + (LastSlot + 1) = p
        BY <1>1
    <2> QED
        BY <2>1, <2>2, <2>3 DEF KeptIn
<1>12. ASSUME NEW i \in KeptIn(keep) \cup {p}
       PROVE  J'[i] = Longer(r)[i]
    <2>0. J' = Joined(appended, pending')
        BY DEF Joined
    <2>1. /\ \A h \in 1 .. k : Joined(appended, pending')[h] = appended[h]
          /\ \A s \in DOMAIN pending' :
                 Joined(appended, pending')[k + s] = Flagged(pending'[s], Commit)
        <3>1. /\ appended \in Seq(Record) /\ DOMAIN pending' \subseteq 1 .. MaxPending
              /\ pending' \in [DOMAIN pending' -> Payload]
            BY <1>10 DEF FileType
        <3> QED
            BY ONLY <3>1, JoinedIs
    <2>2. CASE i = p
        <3>1. i = k + (LastSlot + 1) /\ LastSlot + 1 \in DOMAIN pending'
            BY <1>1, <1>10, <2>2
        <3> QED
            BY <1>7, <1>10, <2>0, <2>1, <2>2, <3>1
    <2>3. CASE i \in InSession(appended, openLen)
        <3>1. i \in 1 .. k /\ i \in E
            BY <1>2, <2>3 DEF InEffect
        <3> QED
            BY <1>2, <1>8, <2>0, <2>1, <3>1
    <2>4. CASE \E s \in keep : i = k + s
        <3>1. PICK s \in keep : i = k + s
            BY <2>4
        <3>2. i \in E /\ s \in DOMAIN pending /\ s \in DOMAIN pending'
            BY <1>10, <3>1 DEF InEffect
        <3> QED
            BY <1>2, <1>8, <1>10, <2>0, <2>1, <3>1, <3>2
    <2> QED
        BY <2>2, <2>3, <2>4 DEF KeptIn
<1> QED
    BY <1>2, <1>3, <1>5, <1>6, <1>7, <1>8, <1>9, <1>11, <1>12 DEF Joins

LEMMA XWriteSession ==
    ASSUME FileType, SessionInv, NEW b \in Block, NEW d \in BlockData, XWrite(b, d)
    PROVE  SessionInv'
<1> DEFINE r == DataRecord(b, d)
           p == Len(appended) + LastSlot + 1
           E == InEffect(appended, openLen, pending)
           f == [c \in Block |-> IF c = b THEN d ELSE Pages[c]]
           size == IF logicalSize >= (b + 1) * BlockUnits THEN logicalSize
                   ELSE (b + 1) * BlockUnits
<1>1. /\ Pushed(DOMAIN pending, r) /\ LastSlot + 1 <= MaxPending /\ r \in Payload
      /\ UNCHANGED <<appended, openLen>> /\ mode = "ready"
      /\ logicalSize' = size /\ Pages' = f
    BY XWriteIs, XWritePages DEF objectVars
<1>2. /\ p \in Nat \ {0} /\ E \subseteq 1 .. p - 1
      /\ Longer(r)[p] = Flagged(r, Commit)
      /\ \A i \in E : Longer(r)[i] = Joined(appended, pending)[i] /\ Longer(r)[i] \in Record
      /\ E' = E \cup {p}
      /\ \A i \in E \cup {p} : Joined(appended, pending)'[i] = Longer(r)[i]
    <2>1. KeptIn(DOMAIN pending) = E
        BY DEF KeptIn, InEffect
    <2> HIDE DEF r
    <2>2. Joins(DOMAIN pending, r, p)
        BY <1>1, PushJoins
    <2> QED
        BY <2>1, <2>2 DEF Joins
<1>3. Leaves(Joined(appended, pending), E, Pages, logicalSize)
    BY <1>1 DEF SessionInv, Live
<1>4. Longer(r)[p].block = b /\ Longer(r)[p].data = d /\ Longer(r)[p] \in Record
    <2>1. Flagged(r, Commit).block = b /\ Flagged(r, Commit).data = d
        BY DEF Flagged, DataRecord
    <2>2. Flagged(r, Commit) \in Record
        BY <1>1, RecordTypes
    <2> QED
        BY <1>2, <2>1, <2>2
<1>5. \A i \in E \cup {p} : Extent(Longer(r)[i]) \in 0 .. MaxSize
    BY <1>2, <1>4, ExtentRange
<1>6. Adds(Longer(r)[p], Pages, logicalSize, f, size)
    BY <1>4 DEF Adds
<1>7. p \in Nat \ {0} /\ E \subseteq 1 .. p - 1 /\ p - 1 \in Nat
    BY <1>2
<1> HIDE DEF E, p, r, f, size
<1>8. Leaves(Longer(r), E, Pages, logicalSize)
    BY ONLY <1>2, <1>3, <1>7, LeavesSame
<1>9. Leaves(Longer(r), E \cup {p}, f, size)
    BY ONLY <1>5, <1>6, <1>8, <1>7, LeavesWrite
<1>10. E \cup {p} \subseteq 1 .. p /\ p \in Nat
    BY ONLY <1>7
<1>11. Leaves(Joined(appended, pending)', E \cup {p}, f, size)
    BY ONLY <1>2, <1>9, <1>10, LeavesSame
<1> QED
    BY <1>1, <1>2, <1>11 DEF SessionInv, E

LEMMA XTruncateSession ==
    ASSUME FileType, SessionInv, NEW m \in 0 .. MaxSize, XTruncate(m)
    PROVE  SessionInv'
<1> DEFINE r == TruncateRecord(m)
           p == Len(appended) + LastSlot + 1
           E == InEffect(appended, openLen, pending)
           K == KeptIn(Kept(m))
           f == [c \in Block |-> IF c >= CeilBlocks(m) THEN ZeroBlock ELSE Pages[c]]
<1>1. /\ Pushed(Kept(m), r) /\ LastSlot + 1 <= MaxPending /\ r \in Payload
      /\ UNCHANGED <<appended, openLen>> /\ mode = "ready" /\ Kept(m) \in SUBSET DOMAIN pending
      /\ logicalSize' = m /\ Pages' = f
    BY XTruncateIs, XTruncatePages DEF objectVars, Kept
<1>2. /\ p \in Nat \ {0} /\ E \subseteq 1 .. p - 1 /\ K \in SUBSET E
      /\ \A i \in E \ K : \E s \in DOMAIN pending \ Kept(m) :
             Longer(r)[i] = Flagged(pending[s], Commit)
      /\ Longer(r)[p] = Flagged(r, Commit)
      /\ \A i \in E : Longer(r)[i] = Joined(appended, pending)[i] /\ Longer(r)[i] \in Record
      /\ E' = K \cup {p}
      /\ \A i \in K \cup {p} : Joined(appended, pending)'[i] = Longer(r)[i]
    <2> HIDE DEF r
    <2>1. Joins(Kept(m), r, p)
        BY <1>1, PushJoins
    <2> QED
        BY <2>1 DEF Joins
<1>3. Leaves(Joined(appended, pending), E, Pages, logicalSize)
    BY <1>1 DEF SessionInv, Live
<1>4. /\ IsTruncate(Longer(r)[p]) /\ Longer(r)[p].size = m
      /\ Longer(r)[p] \in Record
    <2>1. m # NoSize
        BY MaxSizeType DEF NoSize
    <2>2. IsTruncate(Flagged(r, Commit)) /\ Flagged(r, Commit).size = m
        BY <2>1 DEF Flagged, TruncateRecord, IsTruncate
    <2>3. Flagged(r, Commit) \in Record
        BY <1>1, RecordTypes
    <2> QED
        BY <1>2, <2>2, <2>3
<1>5. \A i \in K \cup {p} : Extent(Longer(r)[i]) \in 0 .. MaxSize
    BY <1>2, <1>4, ExtentRange
<1>6. ASSUME NEW i \in E \ K
      PROVE  Longer(r)[i].block \in Block /\ Longer(r)[i].block >= CeilBlocks(m)
    <2>1. PICK s \in DOMAIN pending \ Kept(m) : Longer(r)[i] = Flagged(pending[s], Commit)
        BY <1>2
    <2>2. pending[s] \in Payload /\ ~(pending[s].block < CeilBlocks(m))
        BY DEF FileType, Kept
    <2>3. pending[s].block \in Block \cup {Metadata} /\ CeilBlocks(m) \in 0 .. NumBlocks
        BY <2>2, CeilRange DEF Payload
    <2>4. pending[s].block \in Block /\ pending[s].block >= CeilBlocks(m)
        BY <2>2, <2>3, FormatAssumption DEF Block, Metadata
    <2> QED
        BY <2>1, <2>4 DEF Flagged
<1>7. Takes(Longer(r)[p], Pages, f, m)
    BY <1>4 DEF Takes
<1>8. p \in Nat \ {0} /\ E \subseteq 1 .. p - 1 /\ p - 1 \in Nat /\ K \in SUBSET E
    BY <1>2
<1> HIDE DEF E, p, r, K, f
<1>9. Leaves(Longer(r), E, Pages, logicalSize)
    BY ONLY <1>2, <1>3, <1>8, LeavesSame
<1>10. Leaves(Longer(r), K \cup {p}, f, m)
    BY ONLY <1>5, <1>6, <1>9, <1>7, <1>8, LeavesCut
<1>11. K \cup {p} \subseteq 1 .. p /\ p \in Nat
    BY ONLY <1>8
<1>12. Leaves(Joined(appended, pending)', K \cup {p}, f, m)
    BY ONLY <1>2, <1>10, <1>11, LeavesSame
<1> QED
    BY <1>1, <1>2, <1>12 DEF SessionInv, E

LEMMA InSessionGrows ==
    ASSUME FileType, NEW k, k = Len(appended), NEW e \in Nat, Len(appended') = k + e,
           \A i \in 1 .. k : appended'[i] = appended[i]
    PROVE  InSession(appended', openLen) = InSession(appended, openLen) \cup (k + 1 .. k + e)
<1>1. k \in Nat /\ openLen \in 0 .. k /\ openLen \in Nat
    BY DEF FileType
<1>2. ASSUME NEW i \in 1 .. k
      PROVE  i \in InSession(appended', openLen) <=> i \in InSession(appended, openLen)
    <2>1. i \in 1 .. k + e
        BY <1>1
    <2>2. CASE i > openLen
        BY <1>2, <2>1, <2>2 DEF InSession
    <2>3. CASE ~(i > openLen)
        <3>1. i \in 1 .. openLen /\ \A h \in 1 .. openLen : appended'[h] = appended[h]
            BY <1>1, <2>3
        <3>2. AppliedUpTo(appended', openLen, i) <=> AppliedUpTo(appended, openLen, i)
            BY <1>1, <3>1, AppliedSame
        <3> QED
            BY <1>2, <2>1, <2>3, <3>2 DEF InSession
    <2> QED
        BY <2>2, <2>3
<1>3. \A i \in k + 1 .. k + e : i \in 1 .. k + e /\ i > openLen
    BY <1>1
<1>4. \A i \in 1 .. k + e : i \in 1 .. k \/ i \in k + 1 .. k + e
    BY <1>1
<1> QED
    BY <1>2, <1>3, <1>4 DEF InSession

(* A sync gives the pending records their places in the log, in order.     *)
LEMMA XSyncRenumbers ==
    ASSUME FileType, XSync
    PROVE  \E g : Renumbers(g, Joined(appended, pending), InEffect(appended, openLen, pending),
                            appended', InSession(appended', openLen))
<1> DEFINE k == Len(appended)
           e == Len(Batch)
           S == InEffect(appended, openLen, pending)
           S2 == InSession(appended', openLen)
           J == Joined(appended, pending)
           Rank(s) == CHOOSE j \in 1 .. e : Slots[j] = s
           g == [i \in S |-> IF i <= k THEN i ELSE k + Rank(i - k)]
<1>1. /\ k \in Nat /\ e \in Nat
      /\ Len(appended') = k + e
      /\ \A i \in 1 .. k : appended'[i] = appended[i]
      /\ \A j \in 1 .. e : appended'[k + j] = Batch[j]
      /\ DOMAIN pending # {}
    <2>1. /\ Len(appended') = Len(appended) + Len(Batch) /\ DOMAIN pending # {}
          /\ \A i \in 1 .. Len(appended) : appended'[i] = appended[i]
          /\ \A j \in 1 .. Len(Batch) : appended'[Len(appended) + j] = Batch[j]
        BY XSyncIs
    <2>2. Len(appended) \in Nat /\ Len(Batch) \in Nat
        BY <2>1, BatchIs DEF FileType
    <2> QED
        BY <2>1, <2>2
<1>2. /\ \A j \in 1 .. e : Slots[j] \in DOMAIN pending
      /\ \A j \in 1 .. e : Batch[j] = Flagged(pending[Slots[j]], Flag(Slots[j]))
      /\ \A i, j \in 1 .. e : i < j => Slots[i] < Slots[j]
      /\ \A s \in DOMAIN pending : \E j \in 1 .. e : Slots[j] = s
    BY <1>1, BatchIs
<1>3. \A s \in DOMAIN pending : s \in Nat \ {0}
    BY MapperAssumption DEF FileType
<1>4. S2 = InSession(appended, openLen) \cup (k + 1 .. k + e)
    <2> HIDE DEF e
    <2> QED
        BY <1>1, InSessionGrows
<1>5. /\ InSession(appended, openLen) \subseteq 1 .. k
      /\ \A i \in 1 .. k : J[i] = appended[i]
      /\ \A s \in DOMAIN pending : J[k + s] = Flagged(pending[s], Commit)
    <2>1. /\ appended \in Seq(Record) /\ DOMAIN pending \subseteq 1 .. MaxPending
          /\ pending \in [DOMAIN pending -> Payload]
        BY DEF FileType
    <2> QED
        BY ONLY <2>1, JoinedIs
<1> HIDE DEF k, e, J
<1>6. \A s \in DOMAIN pending : Rank(s) \in 1 .. e /\ Slots[Rank(s)] = s
    BY <1>2
<1>7. \A s, t \in DOMAIN pending : s < t => Rank(s) < Rank(t)
    <2> SUFFICES ASSUME NEW s \in DOMAIN pending, NEW t \in DOMAIN pending, s < t
                 PROVE  Rank(s) < Rank(t)
        OBVIOUS
    <2>1. /\ Rank(s) \in 1 .. e /\ Slots[Rank(s)] = s /\ s \in Nat
          /\ Rank(t) \in 1 .. e /\ Slots[Rank(t)] = t /\ t \in Nat
        BY <1>3, <1>6
    <2> HIDE DEF Rank
    <2>2. Rank(t) < Rank(s) => t < s
        BY <1>2, <2>1
    <2>3. Rank(t) = Rank(s) => t = s
        BY <2>1
    <2> QED
        BY <1>1, <2>1, <2>2, <2>3
<1>8. \A j \in 1 .. e : Rank(Slots[j]) = j
    <2> SUFFICES ASSUME NEW j \in 1 .. e PROVE Rank(Slots[j]) = j
        OBVIOUS
    <2>1. Slots[j] \in DOMAIN pending /\ Slots[j] \in Nat
        BY <1>2, <1>3
    <2>2. Rank(Slots[j]) \in 1 .. e /\ Slots[Rank(Slots[j])] = Slots[j]
        BY <1>6, <2>1
    <2> HIDE DEF Rank
    <2>3. ~(Rank(Slots[j]) < j) /\ ~(j < Rank(Slots[j]))
        BY <1>2, <2>1, <2>2
    <2> QED
        BY <1>1, <2>2, <2>3
<1> HIDE DEF Rank
<1>9. \A s \in DOMAIN pending : k + s \in S /\ ~(k + s <= k) /\ k + s - k = s
    BY <1>1, <1>3 DEF k, InEffect
<1>10. \A i \in S : \/ i \in InSession(appended, openLen) /\ i \in 1 .. k /\ g[i] = i
                    \/ \E s \in DOMAIN pending : i = k + s /\ g[i] = k + Rank(s)
    <2> SUFFICES ASSUME NEW i \in S
                 PROVE  \/ i \in InSession(appended, openLen) /\ i \in 1 .. k /\ g[i] = i
                        \/ \E s \in DOMAIN pending : i = k + s /\ g[i] = k + Rank(s)
        OBVIOUS
    <2>1. CASE i \in InSession(appended, openLen)
        <3>1. i \in 1 .. k /\ i <= k
            BY <1>1, <1>5, <2>1
        <3> QED
            BY <2>1, <3>1
    <2>2. CASE \E s \in DOMAIN pending : i = k + s
        <3>1. PICK s \in DOMAIN pending : i = k + s
            BY <2>2
        <3>2. ~(i <= k) /\ i - k = s
            BY <1>1, <1>3, <3>1
        <3> QED
            BY <3>1, <3>2
    <2> QED
        BY <2>1, <2>2 DEF InEffect, k
<1>11. g \in [S -> S2]
    <2>1. \A i \in S : g[i] \in S2
        <3> SUFFICES ASSUME NEW i \in S PROVE g[i] \in S2
            OBVIOUS
        <3>1. \A j \in 1 .. e : k + j \in k + 1 .. k + e
            BY <1>1
        <3> HIDE DEF g
        <3> QED
            BY <1>4, <1>6, <1>10, <3>1
    <2> QED
        BY <2>1
<1> HIDE DEF g
<1>12. \A i, j \in S : i < j => g[i] < g[j]
    <2> SUFFICES ASSUME NEW i \in S, NEW j \in S, i < j PROVE g[i] < g[j]
        OBVIOUS
    <2>1. CASE i \in 1 .. k /\ g[i] = i
        <3>1. CASE g[j] = j
            BY <2>1, <3>1
        <3>2. CASE \E t \in DOMAIN pending : j = k + t /\ g[j] = k + Rank(t)
            BY <1>1, <1>6, <2>1, <3>2
        <3> QED
            BY <1>10, <3>1, <3>2
    <2>2. CASE \E s \in DOMAIN pending : i = k + s /\ g[i] = k + Rank(s)
        <3>1. PICK s \in DOMAIN pending : i = k + s /\ g[i] = k + Rank(s)
            BY <2>2
        <3>2. s \in Nat \ {0} /\ Rank(s) \in 1 .. e
            BY <1>3, <1>6
        <3>3. CASE j \in 1 .. k
            BY <1>1, <3>1, <3>2, <3>3
        <3>4. CASE \E t \in DOMAIN pending : j = k + t /\ g[j] = k + Rank(t)
            <4>1. PICK t \in DOMAIN pending : j = k + t /\ g[j] = k + Rank(t)
                BY <3>4
            <4>2. t \in Nat \ {0} /\ Rank(t) \in 1 .. e
                BY <1>3, <1>6
            <4>3. s < t
                BY <1>1, <3>1, <3>2, <4>1, <4>2
            <4>4. Rank(s) < Rank(t)
                BY <1>7, <4>3
            <4> QED
                BY <1>1, <3>1, <3>2, <4>1, <4>2, <4>4
        <3> QED
            BY <1>10, <3>3, <3>4
    <2> QED
        BY <1>10, <2>1, <2>2
<1>13. ASSUME NEW h \in S2
       PROVE  \E i \in S : g[i] = h
    <2>1. CASE h \in InSession(appended, openLen)
        <3>1. h \in S /\ h \in 1 .. k
            BY <1>5, <2>1 DEF InEffect
        <3>2. ~(\E s \in DOMAIN pending : h = k + s)
            BY <1>1, <1>3, <3>1
        <3> QED
            BY <1>10, <3>1, <3>2
    <2>2. CASE h \in k + 1 .. k + e
        <3>1. PICK j \in 1 .. e : h = k + j
            <4>1. h - k \in 1 .. e /\ h = k + (h - k)
                BY <1>1, <2>2
            <4> QED
                BY <4>1
        <3>2. Slots[j] \in DOMAIN pending /\ k + Slots[j] \in S /\ Rank(Slots[j]) = j
            BY <1>2, <1>8, <1>9
        <3>3. g[k + Slots[j]] = k + j
            <4>1. k + Slots[j] \notin 1 .. k
                BY <1>1, <1>3, <3>2
            <4>2. PICK s \in DOMAIN pending : k + Slots[j] = k + s /\ g[k + Slots[j]] = k + Rank(s)
                BY <1>10, <3>2, <4>1
            <4>3. s = Slots[j]
                BY <1>1, <1>3, <3>2, <4>2
            <4> QED
                BY <3>2, <4>2, <4>3
        <3> QED
            BY <3>1, <3>2, <3>3
    <2> QED
        BY <1>4, <2>1, <2>2
<1>14. ASSUME NEW i \in S
       PROVE  /\ appended'[g[i]].block = J[i].block
              /\ appended'[g[i]].data = J[i].data
              /\ appended'[g[i]].size = J[i].size
    <2>1. CASE i \in 1 .. k /\ g[i] = i
        BY <1>1, <1>5, <2>1
    <2>2. CASE \E s \in DOMAIN pending : i = k + s /\ g[i] = k + Rank(s)
        <3>1. PICK s \in DOMAIN pending : i = k + s /\ g[i] = k + Rank(s)
            BY <2>2
        <3>2. Rank(s) \in 1 .. e /\ Slots[Rank(s)] = s
            BY <1>6
        <3>3. appended'[g[i]] = Flagged(pending[s], Flag(s))
            <4>1. appended'[k + Rank(s)] = Batch[Rank(s)]
                BY <1>1, <3>2
            <4>2. Batch[Rank(s)] = Flagged(pending[Slots[Rank(s)]], Flag(Slots[Rank(s)]))
                BY <1>2, <3>2
            <4> QED
                BY <3>1, <3>2, <4>1, <4>2
        <3>4. J[i] = Flagged(pending[s], Commit)
            BY <1>5, <3>1
        <3> QED
            BY <3>3, <3>4 DEF Flagged
    <2> QED
        BY <1>10, <2>1, <2>2
<1> HIDE DEF S, S2
<1>15. Renumbers(g, J, S, appended', S2)
    BY <1>11, <1>12, <1>13, <1>14 DEF Renumbers
<1> QED
    BY <1>15 DEF J, S, S2

LEMMA XSyncSession ==
    ASSUME FileType, SessionInv, XSync
    PROVE  SessionInv'
<1> DEFINE J == Joined(appended, pending)
           S == InEffect(appended, openLen, pending)
           S2 == InSession(appended', openLen)
<1>1. mode = "ready" /\ DOMAIN pending' = {} /\ UNCHANGED <<openLen, logicalSize>> /\ FileType'
    BY XSyncIs
<1>2. Pages' = Pages
    BY XSyncPages
<1>3. PICK g : Renumbers(g, J, S, appended', S2)
    BY XSyncRenumbers
<1>4. Leaves(J, S, Pages, logicalSize)
    BY <1>1 DEF SessionInv, Live
<1>5. Len(appended) + MaxPending \in Nat /\ S \subseteq 1 .. Len(appended) + MaxPending
    <2>1. /\ appended \in Seq(Record) /\ DOMAIN pending \subseteq 1 .. MaxPending
          /\ pending \in [DOMAIN pending -> Payload] /\ MaxPending \in Nat
        BY MapperAssumption DEF FileType
    <2>2. S \subseteq 1 .. Len(appended) + MaxPending
        BY ONLY <2>1, JoinedIs
    <2> QED
        BY <2>1, <2>2
<1>6. Len(appended') \in Nat /\ S2 \subseteq 1 .. Len(appended') /\ appended' \in Seq(Record)
    BY <1>1 DEF FileType, InSession
<1> DEFINE n == Len(appended) + MaxPending
           n2 == Len(appended')
<1> HIDE DEF J, S
<1>7. Leaves(appended', S2, Pages, logicalSize)
    <2>1. n \in Nat /\ S \subseteq 1 .. n /\ n2 \in Nat /\ S2 \subseteq 1 .. n2
        BY <1>5, <1>6
    <2> HIDE DEF n, n2, S2
    <2> QED
        BY ONLY <1>3, <1>4, <2>1, LeavesRenumbered
<1>8. Leaves(Joined(appended', pending'), InEffect(appended', openLen, pending'),
             Pages, logicalSize)
    BY ONLY <1>1, <1>6, <1>7, NothingJoined
<1>9. /\ Joined(appended, pending)' = Joined(appended', pending')
      /\ InEffect(appended, openLen, pending)' = InEffect(appended', openLen, pending')
    BY <1>1 DEF Joined, InEffect, InSession
<1> QED
    BY <1>1, <1>2, <1>8, <1>9 DEF SessionInv

LEMMA XOpenSession ==
    ASSUME FileType, DOMAIN pending = {}, XOpen
    PROVE  SessionInv'
<1>1. /\ appended' = stored /\ openLen' = Len(stored) /\ DOMAIN pending' = {}
      /\ stored \in Seq(Record)
    BY XOpenIs DEF FileType
<1>2. Leaves(stored, Applied(stored, Len(stored)), Pages', logicalSize')
    BY XOpenPages
<1>3. InSession(stored, Len(stored)) = Applied(stored, Len(stored))
    <2>1. \A i \in 1 .. Len(stored) : ~(i > Len(stored))
        BY <1>1
    <2> QED
        BY <2>1 DEF InSession, Applied
<1>4. Leaves(Joined(stored, pending'), InEffect(stored, Len(stored), pending'),
             Pages', logicalSize')
    <2>1. Leaves(stored, InSession(stored, Len(stored)), Pages', logicalSize')
        BY <1>2, <1>3
    <2> QED
        BY ONLY <1>1, <2>1, NothingJoined
<1>5. /\ Joined(appended, pending)' = Joined(stored, pending')
      /\ InEffect(appended, openLen, pending)' = InEffect(stored, Len(stored), pending')
    BY <1>1 DEF Joined, InEffect, InSession
<1> QED
    BY <1>4, <1>5 DEF SessionInv

LEMMA SameSession ==
    ASSUME SessionInv, UNCHANGED <<appended, mapperVars>>, Live' => Live
    PROVE  SessionInv'
<1>1. /\ Joined(appended, pending)' = Joined(appended, pending)
      /\ InEffect(appended, openLen, pending)' = InEffect(appended, openLen, pending)
      /\ Pages' = Pages /\ logicalSize' = logicalSize
    BY DEF mapperVars, Joined, InEffect, InSession, Pages, Page, Writers
<1> QED
    BY <1>1 DEF SessionInv

LEMMA SessionStep == TypeInv /\ SessionInv /\ [Next]_vars => SessionInv'
<1> SUFFICES ASSUME TypeInv, SessionInv, Step \/ UNCHANGED vars PROVE SessionInv'
    BY DEF Next
<1>1. FileType
    BY DEF TypeInv
<1>2. CASE OpenDatabase
    <2>1. DOMAIN pending = {} /\ XOpen
        BY <1>2 DEF OpenDatabase, TypeInv, ModesAgree
    <2> QED
        BY <1>1, <2>1, XOpenSession
<1>3. CASE Modifies
    <2>1. CASE Writes
        BY <1>1, <2>1, XWriteSession DEF Writes
    <2>2. CASE Truncates
        BY <1>1, <2>2, XTruncateSession DEF Truncates
    <2>3. CASE UNCHANGED <<objectVars, mapperVars>>
        <3>1. UNCHANGED <<appended, mapperVars, mode>>
            BY <2>3 DEF objectVars
        <3> QED
            BY <3>1, SameSession DEF Live
    <2> QED
        BY <1>3, <2>1, <2>2, <2>3 DEF Modifies
<1>4. CASE Syncs
    BY <1>1, <1>4, XSyncSession DEF Syncs
<1>5. CASE SyncReturns
    BY <1>5, SameSession DEF SyncReturns, Live
<1>6. CASE Ends
    BY <1>6 DEF Ends, SessionInv
<1>7. CASE Background
    BY <1>1, <1>7, BackgroundIs, SameSession DEF Live
<1> QED
    BY <1>2, <1>3, <1>4, <1>5, <1>6, <1>7, FileSteps

-----------------------------------------------------------------------------
(* What a session appended, when none appends behind an unfinished chain:  *)
(* whole batches, and so all it holds is what an open would find.          *)

SessionChain ==
    Live => /\ \A i \in openLen + 1 .. Len(appended) : appended[i].flag \in {Commit, Chained}
            /\ Len(appended) > openLen => /\ appended[Len(appended)].flag = Commit
                                          /\ ~EndsChained(appended, openLen)

LEMMA XSyncChain ==
    ASSUME AppendAfterChain = FALSE, FileType, SessionChain, XSync
    PROVE  SessionChain'
<1> DEFINE k == Len(appended)
           e == Len(Batch)
<1>1. /\ Live /\ DOMAIN pending # {} /\ ~EndsChained(appended, openLen)
      /\ Len(appended') = k + e /\ openLen' = openLen
      /\ \A i \in 1 .. k : appended'[i] = appended[i]
      /\ \A j \in 1 .. e : appended'[k + j] = Batch[j]
    BY XSyncIs DEF Live
<1>2. /\ e \in Nat \ {0} /\ k \in Nat /\ openLen \in 0 .. k
      /\ \A j \in 1 .. e : Batch[j].flag = IF j = e THEN Commit ELSE Chained
    BY <1>1, BatchIs DEF FileType
<1>3. \A i \in openLen + 1 .. k : appended[i].flag \in {Commit, Chained}
    BY <1>1 DEF SessionChain
<1> HIDE DEF k, e
<1>4. ASSUME NEW i \in openLen + 1 .. k + e
      PROVE  appended'[i].flag \in {Commit, Chained}
    <2>1. CASE i \in openLen + 1 .. k
        <3>1. i \in 1 .. k
            BY <1>2, <2>1
        <3> QED
            BY <1>1, <1>3, <2>1, <3>1
    <2>2. CASE i \notin openLen + 1 .. k
        <3>1. i - k \in 1 .. e /\ k + (i - k) = i
            BY <1>2, <2>2
        <3>2. appended'[k + (i - k)] = Batch[i - k]
            BY <1>1, <3>1
        <3>3. appended'[i] = Batch[i - k]
            BY <3>1, <3>2
        <3> QED
            BY <1>2, <3>1, <3>3
    <2> QED
        BY <2>1, <2>2
<1>5. appended'[k + e].flag = Commit
    <2>1. e \in 1 .. e
        BY <1>2
    <2> QED
        BY <1>1, <1>2, <2>1
<1>6. ~EndsChained(appended', openLen)
    <2>1. openLen > 0 => openLen \in 1 .. k
        BY <1>2
    <2> QED
        BY <1>1, <2>1 DEF EndsChained
<1> QED
    BY <1>1, <1>4, <1>5, <1>6 DEF SessionChain, EndsChained

LEMMA ChainStep ==
    ASSUME AppendAfterChain = FALSE
    PROVE  TypeInv /\ SessionChain /\ [Next]_vars => SessionChain'
<1> SUFFICES ASSUME TypeInv, SessionChain, Step \/ UNCHANGED vars PROVE SessionChain'
    BY DEF Next
<1>1. FileType
    BY DEF TypeInv
<1>2. CASE OpenDatabase
    <2>1. appended' = stored /\ openLen' = Len(stored) /\ Len(stored) \in Nat
        BY <1>1, <1>2, XOpenIs DEF OpenDatabase, FileType
    <2> QED
        BY <2>1 DEF SessionChain
<1>3. CASE Modifies
    <2>1. UNCHANGED <<mode, appended, openLen>>
        BY <1>1, <1>3, XWriteIs, XTruncateIs
        DEF Modifies, Writes, Truncates, objectVars, mapperVars
    <2> QED
        BY <2>1 DEF SessionChain, Live, EndsChained
<1>4. CASE Syncs
    BY <1>1, <1>4, XSyncChain DEF Syncs
<1>5. CASE SyncReturns
    BY <1>5 DEF SyncReturns, SessionChain, Live, EndsChained, mapperVars
<1>6. CASE Ends
    BY <1>6 DEF Ends, SessionChain
<1>7. CASE Background
    <2>1. UNCHANGED <<mode, appended, openLen>>
        BY <1>1, <1>7, BackgroundIs DEF mapperVars
    <2> QED
        BY <2>1 DEF SessionChain, Live, EndsChained
<1> QED
    BY <1>2, <1>3, <1>4, <1>5, <1>6, <1>7, FileSteps

(* What the reader of the file sees.                                       *)
Seen == ImageFrom(Pages, logicalSize)

LEMMA SettledSeen ==
    ASSUME FileType, SessionInv, SessionChain, Live, DOMAIN pending = {}
    PROVE  Found(appended) = Seen
<1> DEFINE S == InSession(appended, openLen)
           n == Len(appended)
<1>1. appended \in Seq(Record) /\ n \in Nat /\ openLen \in 0 .. n /\ openLen \in Nat
    BY DEF FileType
<1>2. Applied(appended, n) = S
    <2>1. CASE n = openLen
        <3>1. \A i \in 1 .. n : ~(i > openLen)
            BY <1>1, <2>1
        <3> QED
            BY <2>1, <3>1 DEF Applied, InSession
    <2>2. CASE n # openLen
        <3>1. /\ openLen < n
              /\ \A i \in openLen + 1 .. n : appended[i].flag \in {Commit, Chained}
              /\ appended[n].flag = Commit
              /\ openLen > 0 => appended[openLen].flag # Chained
            BY <1>1, <2>2 DEF SessionChain, EndsChained
        <3> QED
            BY <1>1, <3>1, SessionApplies DEF InSession
    <2> QED
        BY <2>1, <2>2
<1>3. Leaves(appended, S, Pages, logicalSize)
    <2>1. Leaves(Joined(appended, pending), InEffect(appended, openLen, pending),
                 Pages, logicalSize)
        BY DEF SessionInv
    <2> QED
        BY <1>1, <2>1, NothingJoined
<1>4. Pages \in [Block -> BlockData]
    BY PagesType DEF PagesOK
<1>5. ImageOf(appended, S) = Seen
    <2> HIDE DEF S
    <2> QED
        BY <1>3, <1>4, LeavesImage DEF Seen
<1> QED
    BY <1>2, <1>5 DEF Found

(* Beyond the end of the file every page is zero.                          *)
LEMMA BeyondEnd ==
    ASSUME FileType, SessionInv, Live, NEW b \in Block, b >= CeilBlocks(logicalSize)
    PROVE  Page(b) = ZeroBlock
<1> DEFINE n == Len(appended) + MaxPending
           S == InEffect(appended, openLen, pending)
           J == Joined(appended, pending)
<1>1. n \in Nat /\ S \subseteq 1 .. n /\ \A i \in S : J[i] \in Record
    <2>1. /\ appended \in Seq(Record) /\ DOMAIN pending \subseteq 1 .. MaxPending
          /\ pending \in [DOMAIN pending -> Payload]
        BY DEF FileType
    <2>2. S \subseteq 1 .. n /\ \A i \in S : J[i] \in Record
        BY ONLY <2>1, JoinedIs
    <2> QED
        BY <2>1, <2>2, MapperAssumption
<1>2. Leaves(J, S, Pages, logicalSize)
    BY DEF SessionInv
<1> HIDE DEF n, S, J
<1>3. Pages[b] = ZeroBlock
    BY <1>1, <1>2, LeavesWithin
<1> QED
    BY <1>3 DEF Pages

-----------------------------------------------------------------------------
(* The history variables.                                                  *)

Outcomes(s, t) == {Found(s \o SubSeq(t, 1, n)) : n \in 0 .. Len(t)}

History == /\ found = Outcomes(stored, sent)
           /\ contents = IF Live THEN Seen ELSE EmptyImage

LEMMA HeldIs == Held = IF Live THEN Seen ELSE EmptyImage
<1>1. M!Contents = Seen
    BY UnitsBlock, PageNames
    DEF M!Contents, M!Image, M!MaxSize, MaxSize, M!CeilBlocks, CeilBlocks, Seen, ImageFrom, Pages
<1> QED
    BY <1>1 DEF Held, Live

LEMMA RecoverableIs == Recoverable = Outcomes(stored, sent)
<1> DEFINE logs == {stored \o SubSeq(sent, 1, n) : n \in 0 .. Len(sent)}
           pairs == {<<log, Applied(log, Len(log))>> : log \in logs}
<1>1. Recoverable = {ImageOf(e[1], e[2]) : e \in pairs}
    BY DEF Recoverable
<1>2. ASSUME NEW log
      PROVE  LET e == <<log, Applied(log, Len(log))>> IN ImageOf(e[1], e[2]) = Found(log)
    BY DEF Found
<1>3. \A e \in pairs : \E log \in logs : ImageOf(e[1], e[2]) = Found(log)
    <2> SUFFICES ASSUME NEW log \in logs
                 PROVE  LET e == <<log, Applied(log, Len(log))>>
                        IN  \E l \in logs : ImageOf(e[1], e[2]) = Found(l)
        OBVIOUS
    <2> QED
        BY <1>2
<1>4. \A log \in logs : \E e \in pairs : ImageOf(e[1], e[2]) = Found(log)
    <2> SUFFICES ASSUME NEW log \in logs
                 PROVE  \E e \in pairs : ImageOf(e[1], e[2]) = Found(log)
        OBVIOUS
    <2>1. <<log, Applied(log, Len(log))>> \in pairs
        OBVIOUS
    <2> HIDE DEF pairs
    <2> QED
        BY <1>2, <2>1
<1>5. Outcomes(stored, sent) = {Found(log) : log \in logs}
    BY DEF Outcomes
<1> HIDE DEF logs, pairs
<1> QED
    BY <1>1, <1>3, <1>5, <1>4

LEMMA InitHistory == Init => History
    BY HeldIs, RecoverableIs DEF Init, History

LEMMA NextHistory == (Held = IF Live THEN Seen ELSE EmptyImage)' /\ (Recoverable = Outcomes(stored, sent))'
    BY HeldIs, RecoverableIs, PTL

-----------------------------------------------------------------------------
(* The pager's promise, page by page: the journal holds what was committed *)
(* of every page that differs, or is missing, in the file.                 *)

Saved ==
    /\ committed.size = CeilBlocks(oldSize)
    /\ \A b \in DOMAIN journal : /\ b < CeilBlocks(oldSize)
                                 /\ journal[b] = BlockIn(committed, b)
    /\ \A b \in Block : b >= CeilBlocks(oldSize) => BlockIn(committed, b) = ZeroBlock

Tracked ==
    /\ \A b \in Block \ DOMAIN journal :
           b < CeilBlocks(oldSize) => /\ Page(b) = BlockIn(committed, b)
                                      /\ b < CeilBlocks(logicalSize)
    /\ logicalSize < oldSize => CeilBlocks(logicalSize) < CeilBlocks(oldSize)

Restored ==
    /\ CeilBlocks(logicalSize) = committed.size
    /\ \A b \in Block \ DOMAIN journal : Page(b) = BlockIn(committed, b)

JournalInv ==
    /\ committed \in Images
    /\ pager \in {"writer", "committing", "failed", "restoring"} => Saved
    /\ pager \in {"writer", "committing", "failed"} => Tracked
    /\ pager \in {"reader", "restoring", "undoing"} => Restored

(* A file of more than n blocks has block n.                               *)
LEMMA CeilAbove ==
    ASSUME NEW n \in Nat, NEW size \in Nat, n * BlockUnits < size
    PROVE  n < CeilBlocks(size)
<1>1. PICK k \in Nat \ {0} : k = BlockUnits
    BY FormatAssumption
<1>2. n * k + k - 1 <= size + k - 1 - 1 /\ n * k \in Nat
    BY <1>1, Monotonic
<1>3. (n + 1) * k = n * k + k
    BY <1>1
<1>4. (n + 1) * k <= size + k - 1 /\ (n + 1) * k \in Nat /\ size + k - 1 \in Nat
    BY <1>1, <1>2, <1>3
<1>5. ((n + 1) * k) \div k <= (size + k - 1) \div k
    BY <1>4, DivMonotonic
<1>6. ((n + 1) * k) \div k = n + 1
    BY <1>1
<1>7. (size + k - 1) \div k \in Int
    BY <1>1, <1>4
<1> QED
    BY <1>1, <1>5, <1>6, <1>7 DEF CeilBlocks

LEMMA CeilOfLarger ==
    ASSUME NEW m \in Nat, NEW n \in Nat
    PROVE  CeilBlocks(IF m >= n THEN m ELSE n) =
               IF CeilBlocks(m) >= CeilBlocks(n) THEN CeilBlocks(m) ELSE CeilBlocks(n)
<1>1. CASE m >= n
    <2>1. CeilBlocks(n) <= CeilBlocks(m) /\ CeilBlocks(m) \in Int /\ CeilBlocks(n) \in Int
        BY <1>1, CeilGrows
    <2> QED
        BY <1>1, <2>1
<1>2. CASE ~(m >= n)
    <2>1. CeilBlocks(m) <= CeilBlocks(n) /\ CeilBlocks(m) \in Int /\ CeilBlocks(n) \in Int
        BY <1>2, CeilGrows
    <2> QED
        BY <1>2, <2>1
<1> QED
    BY <1>1, <1>2

(* A write and the number of blocks.                                       *)
LEMMA XWriteSize ==
    ASSUME FileType, NEW b \in Block, NEW d \in BlockData, XWrite(b, d)
    PROVE  /\ CeilBlocks(logicalSize') = IF CeilBlocks(logicalSize) >= b + 1
                                         THEN CeilBlocks(logicalSize) ELSE b + 1
           /\ logicalSize' \in {logicalSize, (b + 1) * BlockUnits}
           /\ b + 1 \in Nat /\ CeilBlocks((b + 1) * BlockUnits) = b + 1
           /\ CeilBlocks(logicalSize) \in Nat /\ logicalSize \in Nat
<1>1. /\ logicalSize' = IF logicalSize >= (b + 1) * BlockUnits THEN logicalSize
                        ELSE (b + 1) * BlockUnits
      /\ (b + 1) * BlockUnits \in 0 .. MaxSize /\ logicalSize \in 0 .. MaxSize
    BY XWriteIs DEF FileType
<1>2. b + 1 \in Nat /\ logicalSize \in Nat /\ (b + 1) * BlockUnits \in Nat
    BY <1>1, FormatAssumption, MaxSizeType DEF Block
<1>3. CeilBlocks((b + 1) * BlockUnits) = b + 1
    BY <1>2, CeilOfBlocks
<1>4. CeilBlocks(logicalSize) \in Nat
    BY <1>1, CeilRange, FormatAssumption
<1> DEFINE n == (b + 1) * BlockUnits
<1>5. n \in Nat /\ logicalSize' = IF logicalSize >= n THEN logicalSize ELSE n
    BY <1>1, <1>2
<1> HIDE DEF n
<1>6. CeilBlocks(logicalSize') = IF CeilBlocks(logicalSize) >= CeilBlocks(n)
                                 THEN CeilBlocks(logicalSize) ELSE CeilBlocks(n)
    BY ONLY <1>2, <1>5, CeilOfLarger
<1> QED
    BY <1>1, <1>2, <1>3, <1>4, <1>6 DEF n

LEMMA BeginJournal ==
    ASSUME TypeInv, SessionInv, JournalInv, Begin
    PROVE  JournalInv'
<1>1. /\ pager = "reader" /\ pager' = "writer" /\ oldSize' = logicalSize
      /\ UNCHANGED <<objectVars, mapperVars, journal, committed>>
    BY DEF Begin
<1>2. FileType /\ Live /\ DOMAIN journal = {}
    BY <1>1 DEF TypeInv, ModesAgree, FileType, Live
<1>3. Restored /\ committed \in Images
    BY <1>1 DEF JournalInv
<1>4. ASSUME NEW b \in Block, b >= CeilBlocks(logicalSize)
      PROVE  BlockIn(committed, b) = ZeroBlock
    <2>1. Page(b) = ZeroBlock
        BY <1>2, <1>4, BeyondEnd
    <2> QED
        BY <1>2, <1>3, <2>1 DEF Restored
<1>5. Saved'
    BY <1>1, <1>2, <1>3, <1>4 DEF Saved, Restored
<1>6. Tracked'
    <2>1. UNCHANGED <<appended, pending, logicalToPhysical, logicalSize>>
        BY <1>1 DEF objectVars, mapperVars
    <2>2. \A b \in Block : Page(b)' = Page(b)
        BY <2>1 DEF Page, Writers
    <2>3. logicalSize \in Int
        BY <1>2, MaxSizeType DEF FileType
    <2> QED
        BY <1>1, <1>2, <1>3, <2>1, <2>2, <2>3 DEF Tracked, Restored
<1> QED
    BY <1>1, <1>3, <1>5, <1>6 DEF JournalInv

(* The pages of S that existed are in the journal as they were committed.  *)
LEMMA JournaledSaves ==
    ASSUME TypeInv, InOrder, Live, Saved, Tracked, NEW S \in SUBSET Block,
           \A b \in ToJournal(S) : Readable(b), journal' = Journaled(S),
           UNCHANGED <<oldSize, committed>>
    PROVE  /\ Saved'
           /\ DOMAIN journal' = DOMAIN journal \cup {p \in S : p < CeilBlocks(oldSize)}
<1>1. /\ DOMAIN journal' = DOMAIN journal \cup {p \in S : p < CeilBlocks(oldSize)}
      /\ \A b \in DOMAIN journal : journal'[b] = journal[b]
      /\ \A b \in DOMAIN journal' \ DOMAIN journal : Readable(b) /\ journal'[b] = ReadBlock(b)
      /\ DOMAIN journal' \subseteq Block
    BY JournaledIs
<1>2. ASSUME NEW b \in DOMAIN journal'
      PROVE  b < CeilBlocks(oldSize) /\ journal'[b] = BlockIn(committed, b)
    <2>1. CASE b \in DOMAIN journal
        BY <1>1, <2>1 DEF Saved
    <2>2. CASE b \notin DOMAIN journal
        <3>1. b \in Block \ DOMAIN journal /\ b < CeilBlocks(oldSize) /\ journal'[b] = Page(b)
            BY <1>1, <2>2, ReadIsKept DEF TypeInv
        <3> QED
            BY <3>1 DEF Tracked
    <2> QED
        BY <2>1, <2>2
<1> QED
    BY <1>1, <1>2 DEF Saved

LEMMA WritePageJournal ==
    ASSUME TypeInv, InOrder, JournalInv, NEW b \in Block, NEW d \in PageData, WritePage(b, d)
    PROVE  JournalInv'
<1>1. /\ pager = "writer" /\ pager' = "writer" /\ journal' = Journaled({b})
      /\ XWrite(b, d) /\ d \in BlockData /\ UNCHANGED <<oldSize, committed>>
      /\ \A p \in ToJournal({b}) : Readable(p)
    BY PageAssumption DEF WritePage
<1>2. FileType /\ Live /\ Saved /\ Tracked /\ committed \in Images
    BY <1>1 DEF JournalInv, TypeInv, XWrite, Live
<1>3. Saved' /\ DOMAIN journal' = DOMAIN journal \cup {p \in {b} : p < CeilBlocks(oldSize)}
    BY <1>1, <1>2, JournaledSaves
<1>4. \A c \in Block : Page(c)' = IF c = b THEN d ELSE Page(c)
    BY <1>1, <1>2, XWritePages DEF Pages
<1>5. /\ CeilBlocks(logicalSize') = IF CeilBlocks(logicalSize) >= b + 1
                                    THEN CeilBlocks(logicalSize) ELSE b + 1
      /\ logicalSize' \in {logicalSize, (b + 1) * BlockUnits}
      /\ b + 1 \in Nat /\ CeilBlocks((b + 1) * BlockUnits) = b + 1
      /\ CeilBlocks(logicalSize) \in Nat /\ logicalSize \in Nat
    BY <1>1, <1>2, XWriteSize
<1>6. ASSUME NEW c \in Block \ DOMAIN journal', c < CeilBlocks(oldSize)
      PROVE  Page(c)' = BlockIn(committed, c) /\ c < CeilBlocks(logicalSize')
    <2>1. c # b /\ c \in Block \ DOMAIN journal /\ c \in Int
        BY <1>3, <1>6, FormatAssumption DEF Block
    <2>2. Page(c) = BlockIn(committed, c) /\ c < CeilBlocks(logicalSize)
        BY <1>2, <1>6, <2>1 DEF Tracked
    <2> QED
        BY <1>4, <1>5, <2>1, <2>2
<1>7. ASSUME logicalSize' < oldSize
      PROVE  CeilBlocks(logicalSize') < CeilBlocks(oldSize)
    <2>1. CASE logicalSize' = logicalSize
        BY <1>2, <1>7, <2>1 DEF Tracked
    <2>2. CASE logicalSize' = (b + 1) * BlockUnits
        <3>1. oldSize \in Nat
            BY MaxSizeType DEF TypeInv, PagerType
        <3>2. b + 1 < CeilBlocks(oldSize)
            BY <1>5, <1>7, <2>2, <3>1, CeilAbove
        <3> QED
            BY <1>5, <2>2, <3>2
    <2> QED
        BY <1>5, <2>1, <2>2
<1>8. Tracked'
    BY <1>1, <1>6, <1>7 DEF Tracked
<1> QED
    BY <1>1, <1>2, <1>3, <1>8 DEF JournalInv

LEMMA ShrinkToJournal ==
    ASSUME TypeInv, InOrder, JournalInv, NEW n \in 0 .. NumBlocks, ShrinkTo(n)
    PROVE  JournalInv'
<1>1. /\ pager = "writer" /\ pager' = "writer" /\ journal' = Journaled({b \in Block : b >= n})
      /\ XTruncate(n * BlockUnits) /\ UNCHANGED <<oldSize, committed>>
      /\ n * BlockUnits \in 0 .. MaxSize /\ CeilBlocks(n * BlockUnits) = n /\ n \in Nat
      /\ \A p \in ToJournal({b \in Block : b >= n}) : Readable(p)
    BY BlocksSize DEF ShrinkTo
<1>2. FileType /\ Live /\ Saved /\ Tracked /\ committed \in Images
    BY <1>1 DEF JournalInv, TypeInv, XTruncate, Live
<1>3. /\ Saved'
      /\ DOMAIN journal' = DOMAIN journal
             \cup {p \in {b \in Block : b >= n} : p < CeilBlocks(oldSize)}
    BY <1>1, <1>2, JournaledSaves
<1>4. \A c \in Block : Page(c)' = IF c >= n THEN ZeroBlock ELSE Page(c)
    BY <1>1, <1>2, XTruncatePages DEF Pages
<1>5. logicalSize' = n * BlockUnits
    BY <1>1, <1>2, XTruncateIs
<1>6. ASSUME NEW c \in Block \ DOMAIN journal', c < CeilBlocks(oldSize)
      PROVE  Page(c)' = BlockIn(committed, c) /\ c < CeilBlocks(logicalSize')
    <2>1. ~(c >= n) /\ c \in Block \ DOMAIN journal /\ c \in Int
        BY <1>3, <1>6, FormatAssumption DEF Block
    <2>2. Page(c) = BlockIn(committed, c)
        BY <1>2, <1>6, <2>1 DEF Tracked
    <2> QED
        BY <1>1, <1>4, <1>5, <2>1, <2>2
<1>7. ASSUME logicalSize' < oldSize
      PROVE  CeilBlocks(logicalSize') < CeilBlocks(oldSize)
    <2>1. oldSize \in Nat
        BY MaxSizeType DEF TypeInv, PagerType
    <2> QED
        BY <1>1, <1>5, <1>7, <2>1, CeilAbove
<1>8. Tracked'
    BY <1>1, <1>6, <1>7 DEF Tracked
<1> QED
    BY <1>1, <1>2, <1>3, <1>8 DEF JournalInv

LEMMA RollbackJournal ==
    ASSUME TypeInv, SessionInv, JournalInv, Rollback
    PROVE  JournalInv'
<1>1. /\ pager \in {"writer", "failed"} /\ pager' = "restoring"
      /\ UNCHANGED <<journal, oldSize, committed>>
    BY DEF Rollback
<1>2. FileType /\ Live /\ Saved /\ Tracked /\ committed \in Images
      /\ oldSize \in 0 .. MaxSize /\ logicalSize \in 0 .. MaxSize
    BY <1>1 DEF JournalInv, TypeInv, ModesAgree, FileType, PagerType, Live
<1>3. /\ CeilBlocks(oldSize) \in Nat /\ CeilBlocks(logicalSize) \in Nat
      /\ oldSize \in Nat /\ logicalSize \in Nat
    BY <1>2, CeilRange, MaxSizeType, FormatAssumption
<1>4. ASSUME NEW c \in Block \ DOMAIN journal, c < CeilBlocks(oldSize)
      PROVE  Page(c) = BlockIn(committed, c) /\ c < CeilBlocks(logicalSize)
    BY <1>2, <1>4 DEF Tracked
<1>5. ASSUME NEW c \in Block, c >= CeilBlocks(oldSize)
      PROVE  BlockIn(committed, c) = ZeroBlock
    BY <1>2, <1>5 DEF Saved
<1>6. \A c \in Block : c \in Int
    BY FormatAssumption DEF Block
<1>7. Restored'
    <2>1. CASE logicalSize > oldSize /\ XTruncate(oldSize)
        <3>1. \A c \in Block : Page(c)' = IF c >= CeilBlocks(oldSize) THEN ZeroBlock ELSE Page(c)
            BY <1>2, <2>1, XTruncatePages DEF Pages
        <3>2. logicalSize' = oldSize
            BY <1>2, <2>1, XTruncateIs
        <3>3. ASSUME NEW c \in Block \ DOMAIN journal
              PROVE  Page(c)' = BlockIn(committed, c)
            <4>1. CASE c >= CeilBlocks(oldSize)
                BY <1>5, <3>1, <4>1
            <4>2. CASE ~(c >= CeilBlocks(oldSize))
                BY <1>3, <1>4, <1>6, <3>1, <4>2
            <4> QED
                BY <4>1, <4>2
        <3> QED
            BY <1>1, <1>2, <3>2, <3>3 DEF Restored, Saved
    <2>2. CASE logicalSize < oldSize /\ XWrite(CeilBlocks(oldSize) - 1, ZeroBlock)
        <3>1. PICK p \in Block : p = CeilBlocks(oldSize) - 1
            BY <1>2, <1>3, <2>2, LastPage
        <3>2. XWrite(p, ZeroBlock) /\ ZeroBlock \in BlockData
            BY <2>2, <3>1, ZeroBlockType
        <3>3. \A c \in Block : Page(c)' = IF c = p THEN ZeroBlock ELSE Page(c)
            BY <1>2, <3>2, XWritePages DEF Pages
        <3>4. CeilBlocks(logicalSize') = IF CeilBlocks(logicalSize) >= p + 1
                                         THEN CeilBlocks(logicalSize) ELSE p + 1
            BY <1>2, <3>2, XWriteSize
        <3>5. CeilBlocks(logicalSize) < CeilBlocks(oldSize)
            BY <1>2, <2>2 DEF Tracked
        <3>6. p \in DOMAIN journal
            BY <1>3, <1>4, <3>1, <3>5
        <3>7. CeilBlocks(logicalSize') = CeilBlocks(oldSize)
            BY <1>3, <3>1, <3>4, <3>5
        <3>8. ASSUME NEW c \in Block \ DOMAIN journal
              PROVE  Page(c)' = BlockIn(committed, c)
            <4>1. Page(c)' = Page(c)
                BY <3>3, <3>6
            <4>2. CASE c >= CeilBlocks(oldSize)
                <5>1. c >= CeilBlocks(logicalSize)
                    BY <1>3, <1>6, <3>5, <4>2
                <5>2. Page(c) = ZeroBlock
                    BY <1>2, <5>1, BeyondEnd
                <5> QED
                    BY <1>5, <4>1, <4>2, <5>2
            <4>3. CASE ~(c >= CeilBlocks(oldSize))
                BY <1>3, <1>4, <1>6, <4>1, <4>3
            <4> QED
                BY <4>2, <4>3
        <3> QED
            BY <1>1, <1>2, <3>7, <3>8 DEF Restored, Saved
    <2>3. CASE logicalSize = oldSize /\ UNCHANGED <<objectVars, mapperVars>>
        <3>1. UNCHANGED <<appended, pending, logicalToPhysical, logicalSize>>
            BY <2>3 DEF objectVars, mapperVars
        <3>2. \A c \in Block : Page(c)' = Page(c)
            BY <3>1 DEF Page, Writers
        <3>3. ASSUME NEW c \in Block \ DOMAIN journal
              PROVE  Page(c)' = BlockIn(committed, c)
            <4>1. CASE c >= CeilBlocks(oldSize)
                <5>1. Page(c) = ZeroBlock
                    BY <1>2, <2>3, <4>1, BeyondEnd
                <5> QED
                    BY <1>5, <3>2, <4>1, <5>1
            <4>2. CASE ~(c >= CeilBlocks(oldSize))
                BY <1>3, <1>4, <1>6, <3>2, <4>2
            <4> QED
                BY <4>1, <4>2
        <3> QED
            BY <1>1, <1>2, <2>3, <3>1, <3>3 DEF Restored, Saved
    <2> QED
        BY <2>1, <2>2, <2>3 DEF Rollback
<1>8. Saved'
    BY <1>1, <1>2 DEF Saved
<1> QED
    BY <1>1, <1>2, <1>7, <1>8 DEF JournalInv

LEMMA RestorePageJournal ==
    ASSUME TypeInv, JournalInv, RestorePage
    PROVE  JournalInv'
<1>1. /\ pager = "restoring" /\ pager' = "restoring" /\ UNCHANGED <<oldSize, committed>>
      /\ FileType /\ Saved /\ Restored /\ committed \in Images
      /\ DOMAIN journal \subseteq Block /\ journal \in [DOMAIN journal -> BlockData]
    BY DEF RestorePage, JournalInv, TypeInv, PagerType
<1>2. PICK b \in DOMAIN journal :
          XWrite(b, journal[b]) /\ journal' = [p \in DOMAIN journal \ {b} |-> journal[p]]
    BY DEF RestorePage
<1>3. b \in Block /\ journal[b] \in BlockData /\ b \in Int
    BY <1>1, FormatAssumption DEF Block
<1>4. \A c \in Block : Page(c)' = IF c = b THEN journal[b] ELSE Page(c)
    BY <1>1, <1>2, <1>3, XWritePages DEF Pages
<1>5. /\ CeilBlocks(logicalSize') = IF CeilBlocks(logicalSize) >= b + 1
                                    THEN CeilBlocks(logicalSize) ELSE b + 1
      /\ CeilBlocks(logicalSize) \in Nat
    BY <1>1, <1>2, <1>3, XWriteSize
<1>6. b < CeilBlocks(oldSize) /\ journal[b] = BlockIn(committed, b)
      /\ CeilBlocks(oldSize) = CeilBlocks(logicalSize)
    BY <1>1 DEF Saved, Restored
<1>7. CeilBlocks(logicalSize') = CeilBlocks(logicalSize)
    BY <1>3, <1>5, <1>6
<1>8. Restored'
    <2>1. \A c \in Block \ DOMAIN journal' : c = b \/ c \in Block \ DOMAIN journal
        BY <1>2
    <2> QED
        BY <1>1, <1>4, <1>6, <1>7, <2>1 DEF Restored
<1>9. Saved'
    <2>1. \A c \in DOMAIN journal' : c \in DOMAIN journal /\ journal'[c] = journal[c]
        BY <1>2
    <2> QED
        BY <1>1, <2>1 DEF Saved
<1> QED
    BY <1>1, <1>8, <1>9 DEF JournalInv

(* Steps that leave all pages as they are.                                 *)
SamePages == Pages' = Pages /\ logicalSize' = logicalSize

LEMMA SameJournal ==
    ASSUME SamePages, UNCHANGED <<journal, oldSize, committed>>
    PROVE  (Saved => Saved') /\ (Tracked => Tracked') /\ (Restored => Restored')
<1>1. \A b \in Block : Page(b)' = Page(b)
    BY DEF SamePages, Pages
<1> QED
    BY <1>1 DEF SamePages, Saved, Tracked, Restored

LEMMA SyncsSame ==
    ASSUME FileType, XSync
    PROVE  SamePages
    BY XSyncIs, XSyncPages DEF SamePages

LEMMA QuietSame ==
    ASSUME UNCHANGED <<appended, mapperVars>>
    PROVE  SamePages
    BY DEF SamePages, Pages, Page, Writers, mapperVars

LEMMA OpenSeen ==
    ASSUME FileType, DOMAIN pending = {}, XOpen
    PROVE  Found(stored) = Seen' /\ PagesOK' /\ logicalSize' \in 0 .. MaxSize /\ Live'
<1>1. FileType' /\ mode' = "ready"
    BY XOpenIs
<1>2. Leaves(stored, Applied(stored, Len(stored)), Pages', logicalSize')
    BY XOpenPages
<1>3. PagesOK'
    BY <1>1, PagesTypeNext
<1>4. Pages' \in [Block -> BlockData]
    BY <1>3 DEF PagesOK
<1>5. ImageOf(stored, Applied(stored, Len(stored))) = ImageFrom(Pages', logicalSize')
    BY ONLY <1>2, <1>4, LeavesImage
<1> QED
    BY <1>1, <1>3, <1>5 DEF Found, Seen, FileType, Live

(* A file that reads as it was committed has all of its pages restored.    *)
LEMMA SeenRestored ==
    ASSUME PagesOK, logicalSize \in 0 .. MaxSize, committed = Seen
    PROVE  Restored /\ committed \in Images
<1>1. Pages \in [Block -> BlockData]
    BY DEF PagesOK
<1>2. /\ Seen \in Images /\ Seen.size = CeilBlocks(logicalSize)
      /\ \A b \in Block : BlockIn(Seen, b) = Pages[b]
    BY <1>1, ImageFromIs DEF Seen
<1> QED
    BY <1>2 DEF Restored, Pages

SeenIsCommitted == PagesOK /\ logicalSize \in 0 .. MaxSize /\ committed = Seen
CommittedIsWhole == Restored /\ committed \in Images

LEMMA SeenRestoredNext == SeenIsCommitted' => CommittedIsWhole'
<1>1. SeenIsCommitted => CommittedIsWhole
    BY SeenRestored DEF SeenIsCommitted, CommittedIsWhole
<1> QED
    BY <1>1, PTL

LEMMA RestoredSeen ==
    ASSUME FileType, Restored, committed \in Images, DOMAIN journal = {}
    PROVE  committed = Seen
<1>1. Pages \in [Block -> BlockData] /\ logicalSize \in 0 .. MaxSize
    BY PagesType DEF PagesOK, FileType
<1>2. /\ Seen \in Images /\ Seen.size = CeilBlocks(logicalSize)
      /\ \A b \in Block : BlockIn(Seen, b) = Pages[b]
    BY <1>1, ImageFromIs DEF Seen
<1>3. \A b \in Block : BlockIn(committed, b) = BlockIn(Seen, b)
    BY <1>2 DEF Restored, Pages
<1> QED
    BY <1>2, <1>3, SameImage DEF Restored

LEMMA JournalStep ==
    TypeInv /\ InOrder /\ SessionInv /\ History /\ JournalInv /\ [Next]_vars => JournalInv'
<1> SUFFICES ASSUME TypeInv, InOrder, SessionInv, History, JournalInv, Step \/ UNCHANGED vars
             PROVE  JournalInv'
    BY DEF Next
<1>1. FileType /\ committed \in Images
    BY DEF TypeInv, JournalInv
<1>2. CASE OpenDatabase
    <2>1. /\ pager' = "reader" /\ committed' = Found(stored) /\ DOMAIN pending = {} /\ XOpen
        BY <1>2 DEF OpenDatabase, TypeInv, ModesAgree
    <2>2. SeenIsCommitted'
        BY <1>1, <2>1, OpenSeen DEF SeenIsCommitted
    <2>3. CommittedIsWhole'
        BY <2>2, SeenRestoredNext
    <2> QED
        BY <2>1, <2>3 DEF JournalInv, CommittedIsWhole
<1>3. CASE CommitOk
    <2>1. /\ pager' = "reader" /\ committed' = contents
          /\ UNCHANGED <<appended, mapperVars>> /\ Live
        BY <1>3 DEF CommitOk, XSyncOk, SyncOk, Live
    <2>2. SamePages
        BY <2>1, QuietSame
    <2>3. committed' = Seen
        BY <2>1 DEF History
    <2>4. SeenIsCommitted'
        BY <1>1, <2>2, <2>3, PagesType DEF SeenIsCommitted, SamePages, Seen, PagesOK, FileType
    <2>5. CommittedIsWhole'
        BY <2>4, SeenRestoredNext
    <2> QED
        BY <2>1, <2>5 DEF JournalInv, CommittedIsWhole
<1>4. CASE CommitStart \/ RestoreSync
    <2>1. /\ UNCHANGED <<journal, oldSize, committed>> /\ XSync
          /\ \/ pager = "writer" /\ pager' = "committing"
             \/ pager = "restoring" /\ pager' = "undoing"
        BY <1>4 DEF CommitStart, RestoreSync
    <2>2. (Saved => Saved') /\ (Tracked => Tracked') /\ (Restored => Restored')
        BY <1>1, <2>1, SyncsSame, SameJournal
    <2> QED
        BY <2>1, <2>2 DEF JournalInv
<1>5. CASE CommitFails \/ Meanwhile \/ UNCHANGED vars
    <2>1. /\ UNCHANGED <<journal, oldSize, committed, appended, mapperVars>>
          /\ \/ pager = "committing" /\ pager' = "failed"
             \/ pager' = pager
        BY <1>1, <1>5, BackgroundIs
        DEF CommitFails, XSyncFails, SyncFails, Meanwhile, pagerVars, vars, objectVars
    <2>2. (Saved => Saved') /\ (Tracked => Tracked') /\ (Restored => Restored')
        BY <2>1, QuietSame, SameJournal
    <2> QED
        BY <2>1, <2>2 DEF JournalInv
<1>6. CASE RestoreNothing \/ RollbackOk \/ RollbackFails
    <2>1. /\ UNCHANGED <<journal, committed, appended, mapperVars>>
          /\ pager \in {"restoring", "undoing"} /\ pager' = "reader"
        BY <1>6 DEF RestoreNothing, RollbackOk, RollbackFails, XSyncFails, SyncFails, XSyncOk,
                    SyncOk, objectVars
    <2>2. SamePages
        BY <2>1, QuietSame
    <2>3. Restored'
        BY <2>1, <2>2 DEF JournalInv, Restored, SamePages, Pages
    <2> QED
        BY <2>1, <2>3 DEF JournalInv
<1>7. CASE CloseDatabase \/ CloseEnds \/ Crash
    BY <1>7 DEF CloseDatabase, CloseEnds, Crash, JournalInv
<1> QED
    BY <1>2, <1>3, <1>4, <1>5, <1>6, <1>7, BeginJournal, WritePageJournal, ShrinkToJournal,
       RollbackJournal, RestorePageJournal DEF Step

LEMMA InitJournal == Init => JournalInv
<1> SUFFICES ASSUME Init PROVE JournalInv
    OBVIOUS
<1>1. pager = "closed" /\ committed = EmptyImage
    BY DEF Init
<1>2. EmptyImage \in Images
    <2>1. ZeroBlock \in BlockData /\ 0 \in 0 .. MaxSize
        BY ZeroBlockType, MaxSizeType
    <2>2. [b \in Block |-> ZeroBlock] \in [Block -> BlockData]
        BY <2>1
    <2>3. EmptyImage = ImageFrom([b \in Block |-> ZeroBlock], 0)
        BY UnitsBlock DEF EmptyImage, Image, Hole, ImageFrom
    <2> QED
        BY <2>1, <2>2, <2>3, ImageFromIs
<1> QED
    BY <1>1, <1>2 DEF JournalInv

LEMMA HistoryStep == History /\ [Next]_vars => History'
<1> SUFFICES ASSUME History, [Next]_vars PROVE History'
    OBVIOUS
<1>1. CASE Next
    <2>1. found' = Recoverable' /\ contents' = Held'
        BY <1>1 DEF Next
    <2> QED
        BY <2>1, NextHistory DEF History
<1>2. CASE UNCHANGED vars
    <2>1. /\ UNCHANGED <<appended, mapperVars, stored, sent, found, contents, mode>>
        BY <1>2 DEF vars, objectVars
    <2>2. SamePages
        BY <2>1, QuietSame
    <2> QED
        BY <2>1, <2>2 DEF History, SamePages, Seen, Live
<1> QED
    BY <1>1, <1>2

FileInv == TypeInv /\ Arrival /\ InOrder /\ SessionInv /\ History /\ JournalInv

LEMMA InitInv == Init => FileInv
<1>1. Init => TypeInv /\ Arrival /\ InOrder /\ SessionInv
    BY InitType DEF Init, FileInit, ObjectInit, Arrival, InOrder, SessionInv, Live
<1> QED
    BY <1>1, InitHistory, InitJournal DEF FileInv

LEMMA InvStep == FileInv /\ [Next]_vars => FileInv'
    BY TypeStep, ArrivalStep, InOrderStep, SessionStep, HistoryStep, JournalStep DEF FileInv

(* A block that starts beyond the end.                                     *)
LEMMA BlockBeyond ==
    ASSUME NEW b \in Block, NEW size \in 0 .. MaxSize, b * BlockUnits >= size
    PROVE  b >= CeilBlocks(size)
<1>1. b \in Nat /\ b * BlockUnits \in Nat /\ size \in Nat
    BY FormatAssumption, Monotonic, MaxSizeType DEF Block
<1>2. CeilBlocks(size) <= CeilBlocks(b * BlockUnits)
    BY <1>1, CeilGrows
<1> QED
    BY <1>1, <1>2, CeilOfBlocks

(* Outside a transaction every read that returns OK returns the page of    *)
(* the last commit, and the size is the one committed (xRead, xFileSize    *)
(* under the pager): also after commits that failed half way, after        *)
(* rollbacks of transactions that let the file grow, shrink or both, and   *)
(* after rollbacks whose own xSync failed.  A record that a sync lost has  *)
(* no other one in its place, so that a read of it can only fail.          *)
THEOREM ReaderSeesCommit == Spec => []SessionSeesCommitted
<1>1. FileInv => SessionSeesCommitted
    <2> SUFFICES ASSUME FileInv, pager = "reader"
                 PROVE  /\ CeilBlocks(logicalSize) = committed.size
                        /\ \A b \in Block : \A r \in XRead(b) :
                               r.rc # "SQLITE_IOERR_READ" => r.data = BlockIn(committed, b)
        BY DEF SessionSeesCommitted
    <2>1. FileType /\ InOrder /\ SessionInv /\ Live /\ DOMAIN journal = {}
        BY DEF FileInv, TypeInv, ModesAgree, FileType, Live
    <2>2. Restored
        BY DEF FileInv, JournalInv
    <2>3. ASSUME NEW b \in Block, NEW r \in XRead(b), r.rc # "SQLITE_IOERR_READ"
          PROVE  r.data = BlockIn(committed, b)
        <3>1. Page(b) = BlockIn(committed, b)
            BY <2>1, <2>2 DEF Restored
        <3>2. CASE b * BlockUnits >= logicalSize
            <4>1. r.data = ZeroBlock
                BY <2>3, <3>2 DEF XRead, Outcome
            <4>2. b >= CeilBlocks(logicalSize)
                BY <2>1, <3>2, BlockBeyond DEF FileType
            <4> QED
                BY <2>1, <3>1, <4>1, <4>2, BeyondEnd
        <3>3. CASE ~(b * BlockUnits >= logicalSize)
            <4>1. Readable(b) /\ r.data = ReadBlock(b)
                BY <2>3, <3>3 DEF XRead, Outcome
            <4> QED
                BY <2>1, <3>1, <4>1, ReadIsKept
        <3> QED
            BY <3>2, <3>3
    <2> QED
        BY <2>2, <2>3 DEF Restored
<1> QED
    BY <1>1, InitInv, InvStep, PTL DEF Spec

-----------------------------------------------------------------------------
(* What an open may find, as the object grows and as syncs come and go.    *)

LEMMA NothingSent ==
    ASSUME NEW s \in Seq(Record), NEW t, t = <<>>
    PROVE  Outcomes(s, t) = {Found(s)}
<1>1. Len(t) = 0 /\ SubSeq(t, 1, 0) = <<>>
    BY SubSeqEmpty
<1>2. s \o SubSeq(t, 1, 0) = s
    BY <1>1, ConcatNothing
<1>3. \A n \in 0 .. Len(t) : s \o SubSeq(t, 1, n) = s
    <2>1. \A n \in 0 .. Len(t) : n = 0
        BY <1>1
    <2> QED
        BY <1>2, <2>1
<1>4. 0 \in 0 .. Len(t)
    BY <1>1
<1> QED
    BY <1>3, <1>4 DEF Outcomes

LEMMA Prefixes ==
    ASSUME NEW t \in Seq(Record), NEW n \in 0 .. Len(t)
    PROVE  /\ SubSeq(t, 1, n) \in Seq(Record) /\ Len(SubSeq(t, 1, n)) = n
           /\ \A i \in 1 .. n : SubSeq(t, 1, n)[i] = t[i]
           /\ n \in Nat
    OBVIOUS

LEMMA FullPrefix == \A t \in Seq(Record) : SubSeq(t, 1, Len(t)) = t
    BY SubSeqFull

LEMMA CutOutcomes ==
    ASSUME NEW s \in Seq(Record), NEW t \in Seq(Record)
    PROVE  Outcomes(s, <<>>) \subseteq Outcomes(s, t)
<1>1. Outcomes(s, <<>>) = {Found(s)}
    BY NothingSent
<1>2. s \o SubSeq(t, 1, 0) = s
    BY SubSeqEmpty, ConcatNothing
<1>3. 0 \in 0 .. Len(t)
    OBVIOUS
<1> QED
    BY <1>1, <1>2, <1>3 DEF Outcomes

LEMMA PersistOutcomes ==
    ASSUME NEW s \in Seq(Record), NEW t \in Seq(Record), t # <<>>
    PROVE  Outcomes(Append(s, Head(t)), Tail(t)) \subseteq Outcomes(s, t)
<1>1. /\ Tail(t) \in Seq(Record) /\ Head(t) \in Record /\ Len(Tail(t)) = Len(t) - 1
      /\ Len(t) \in Nat \ {0} /\ Append(s, Head(t)) \in Seq(Record)
      /\ \A i \in 1 .. Len(Tail(t)) : Tail(t)[i] = t[i + 1]
      /\ Head(t) = t[1]
    BY HeadTailProperties, AppendProperties
<1>2. ASSUME NEW n \in 0 .. Len(Tail(t))
      PROVE  /\ n + 1 \in 0 .. Len(t)
             /\ Append(s, Head(t)) \o SubSeq(Tail(t), 1, n) = s \o SubSeq(t, 1, n + 1)
    <2> DEFINE u == SubSeq(t, 1, n + 1)
    <2>1. n \in Nat /\ n + 1 \in 0 .. Len(t) /\ n + 1 \in 1 .. Len(t)
        BY <1>1
    <2>2. /\ u \in Seq(Record) /\ Len(u) = n + 1 /\ \A i \in 1 .. n + 1 : u[i] = t[i]
        BY <2>1, Prefixes
    <2>3. /\ SubSeq(Tail(t), 1, n) \in Seq(Record) /\ Len(SubSeq(Tail(t), 1, n)) = n
          /\ \A i \in 1 .. n : SubSeq(Tail(t), 1, n)[i] = Tail(t)[i]
        BY <1>1, Prefixes
    <2> HIDE DEF u
    <2>4. u # <<>>
        BY <2>1, <2>2
    <2>5. /\ Tail(u) \in Seq(Record) /\ Len(Tail(u)) = n /\ Head(u) = u[1]
          /\ \A i \in 1 .. n : Tail(u)[i] = u[i + 1]
        BY <2>1, <2>2, <2>4, HeadTailProperties
    <2>6. Head(u) = Head(t)
        BY <1>1, <2>1, <2>2, <2>5
    <2>7. \A i \in 1 .. n : Tail(u)[i] = SubSeq(Tail(t), 1, n)[i]
        <3> SUFFICES ASSUME NEW i \in 1 .. n PROVE Tail(u)[i] = SubSeq(Tail(t), 1, n)[i]
            OBVIOUS
        <3>1. i \in 1 .. Len(Tail(t)) /\ i + 1 \in 1 .. n + 1
            BY <1>1, <2>1
        <3> QED
            BY <1>1, <2>2, <2>3, <2>5, <3>1
    <2>8. Tail(u) = SubSeq(Tail(t), 1, n)
        <3> DEFINE v == SubSeq(Tail(t), 1, n)
                   w == Tail(u)
        <3>1. v \in Seq(Record) /\ w \in Seq(Record) /\ Len(v) = Len(w) /\ Len(w) = n
              /\ \A i \in 1 .. n : w[i] = v[i]
            BY <2>3, <2>5, <2>7
        <3> HIDE DEF v, w
        <3>2. w = v
            BY <3>1, SeqEqual
        <3> QED
            BY <3>2 DEF v, w
    <2>9. Append(s, Head(u)) \o Tail(u) = s \o u
        BY <2>2, <2>4, PersistKeeps
    <2> QED
        BY <2>1, <2>6, <2>8, <2>9 DEF u
<1> QED
    BY <1>2 DEF Outcomes

LEMMA ConcatIs ==
    ASSUME NEW s \in Seq(Record), NEW t \in Seq(Record)
    PROVE  /\ s \o t \in Seq(Record) /\ Len(s \o t) = Len(s) + Len(t)
           /\ \A i \in 1 .. Len(s) : (s \o t)[i] = s[i]
           /\ \A i \in 1 .. Len(t) : (s \o t)[Len(s) + i] = t[i]
           /\ Len(s) \in Nat /\ Len(t) \in Nat
<1>1. s \o t \in Seq(Record) /\ Len(s) \in Nat /\ Len(t) \in Nat
    BY ConcatProperties
<1>2. Len(s \o t) = Len(s) + Len(t)
    BY ConcatProperties
<1>3. \A i \in 1 .. Len(s) : (s \o t)[i] = s[i]
    OBVIOUS
<1>4. \A i \in 1 .. Len(t) : (s \o t)[Len(s) + i] = t[i]
    OBVIOUS
<1> QED
    BY <1>1, <1>2, <1>3, <1>4

(* A batch that has not got there whole is not seen.                       *)
IsBatch(u) == /\ u \in Seq(Record)
              /\ \A i \in 1 .. Len(u) : u[i].flag = IF i = Len(u) THEN Commit ELSE Chained

LEMMA PartUnseen ==
    ASSUME NEW s \in Seq(Record), NEW u, IsBatch(u), NEW j \in 0 .. Len(u), j # Len(u)
    PROVE  Found(s \o SubSeq(u, 1, j)) = Found(s)
<1> DEFINE v == SubSeq(u, 1, j)
           log == s \o v
<1>1. /\ u \in Seq(Record)
      /\ \A i \in 1 .. Len(u) : u[i].flag = IF i = Len(u) THEN Commit ELSE Chained
    BY DEF IsBatch
<1>2. /\ v \in Seq(Record) /\ Len(v) = j /\ j \in Nat
      /\ \A i \in 1 .. j : v[i] = u[i]
    BY <1>1, Prefixes
<1> HIDE DEF v
<1>3. /\ log \in Seq(Record) /\ Len(log) = Len(s) + j /\ Len(s) \in Nat
      /\ \A i \in 1 .. Len(s) : log[i] = s[i]
      /\ \A i \in 1 .. j : log[Len(s) + i] = v[i]
    BY <1>2, ConcatIs
<1>4. ASSUME NEW i \in Len(s) + 1 .. Len(log)
      PROVE  log[i].flag # Commit
    <2>1. i - Len(s) \in 1 .. j /\ Len(s) + (i - Len(s)) = i
        BY <1>2, <1>3
    <2> DEFINE h == i - Len(s)
    <2>2. h \in 1 .. j /\ Len(s) + h = i
        BY <2>1
    <2> HIDE DEF h, log
    <2>3. log[i] = v[h] /\ v[h] = u[h]
        BY <1>2, <1>3, <2>2
    <2>4. h \in 1 .. Len(u) /\ h # Len(u)
        BY <1>1, <1>2, <2>2
    <2>5. u[h].flag = Chained
        BY <1>1, <2>4
    <2> QED
        BY <2>3, <2>5 DEF Commit, Chained
<1> DEFINE n == Len(s)
           n2 == Len(log)
<1>5. n \in Nat /\ n2 \in Nat /\ n <= n2
    BY <1>2, <1>3
<1>6. /\ \A i \in 1 .. n : log[i] = s[i]
      /\ \A i \in n + 1 .. n2 : log[i].flag # Commit
    BY <1>3, <1>4
<1> HIDE DEF log, n, n2
<1>7. ImageOf(log, Applied(log, n2)) = ImageOf(s, Applied(s, n))
    BY ONLY <1>5, <1>6, UncommittedUnseen
<1>8. Found(log) = Found(s)
    BY <1>7 DEF Found, n, n2
<1> QED
    BY <1>8 DEF log, v

(* A sync adds one outcome: the batch as a whole.                          *)
LEMMA BatchOutcomes ==
    ASSUME NEW s \in Seq(Record), NEW t \in Seq(Record), NEW u, IsBatch(u)
    PROVE  /\ Outcomes(s, t) \subseteq Outcomes(s, t \o u)
           /\ Outcomes(s, t \o u) \subseteq Outcomes(s, t) \cup {Found((s \o t) \o u)}
           /\ Found((s \o t) \o u) \in Outcomes(s, t \o u)
<1> DEFINE w == t \o u
<1>1. u \in Seq(Record) /\ Len(t) \in Nat /\ Len(u) \in Nat
    BY DEF IsBatch
<1>2. /\ w \in Seq(Record) /\ Len(w) = Len(t) + Len(u)
      /\ \A i \in 1 .. Len(t) : w[i] = t[i]
      /\ \A i \in 1 .. Len(u) : w[Len(t) + i] = u[i]
    BY <1>1, ConcatIs
<1> HIDE DEF w
<1>3. ASSUME NEW n \in 0 .. Len(t)
      PROVE  n \in 0 .. Len(w) /\ SubSeq(w, 1, n) = SubSeq(t, 1, n)
    <2>1. n \in 0 .. Len(w)
        BY <1>1, <1>2
    <2>2. /\ SubSeq(t, 1, n) \in Seq(Record) /\ Len(SubSeq(t, 1, n)) = n
          /\ \A i \in 1 .. n : SubSeq(t, 1, n)[i] = t[i]
        BY Prefixes
    <2>3. /\ SubSeq(w, 1, n) \in Seq(Record) /\ Len(SubSeq(w, 1, n)) = n
          /\ \A i \in 1 .. n : SubSeq(w, 1, n)[i] = w[i]
        BY <1>2, <2>1, Prefixes
    <2>4. \A i \in 1 .. n : SubSeq(w, 1, n)[i] = SubSeq(t, 1, n)[i]
        BY <1>1, <1>2, <2>2, <2>3
    <2> QED
        BY <2>1, <2>2, <2>3, <2>4, SeqEqual
<1>4. ASSUME NEW j \in 0 .. Len(u)
      PROVE  /\ Len(t) + j \in 0 .. Len(w)
             /\ s \o SubSeq(w, 1, Len(t) + j) = (s \o t) \o SubSeq(u, 1, j)
    <2> DEFINE v == SubSeq(u, 1, j)
               x == SubSeq(w, 1, Len(t) + j)
    <2>1. Len(t) + j \in 0 .. Len(w) /\ j \in Nat
        BY <1>1, <1>2
    <2>2. v \in Seq(Record) /\ Len(v) = j /\ \A i \in 1 .. j : v[i] = u[i]
        BY <1>1, Prefixes
    <2>3. x \in Seq(Record) /\ Len(x) = Len(t) + j /\ \A i \in 1 .. Len(t) + j : x[i] = w[i]
        BY <1>2, <2>1, Prefixes
    <2> HIDE DEF v, x
    <2> DEFINE y == t \o v
    <2>4. /\ y \in Seq(Record) /\ Len(y) = Len(t) + j
          /\ \A i \in 1 .. Len(t) : y[i] = t[i]
          /\ \A i \in 1 .. j : y[Len(t) + i] = v[i]
        BY <2>2, ConcatIs
    <2> HIDE DEF y
    <2>5. ASSUME NEW i \in 1 .. Len(t) + j
          PROVE  x[i] = y[i]
        <3>1. CASE i \in 1 .. Len(t)
            BY <1>2, <2>3, <2>4, <3>1
        <3>2. CASE i \notin 1 .. Len(t)
            <4>1. i - Len(t) \in 1 .. j /\ Len(t) + (i - Len(t)) = i /\ i - Len(t) \in 1 .. Len(u)
                BY <1>1, <2>1, <3>2
            <4>2. y[i] = u[i - Len(t)]
                BY <2>2, <2>4, <4>1
            <4>3. w[i] = u[i - Len(t)]
                BY <1>2, <4>1
            <4> QED
                BY <2>3, <4>2, <4>3
        <3> QED
            BY <3>1, <3>2
    <2>6. x = y
        BY <2>3, <2>4, <2>5, SeqEqual
    <2>7. s \o y = (s \o t) \o v
        BY <2>2, ConcatThree DEF y
    <2> QED
        BY <2>1, <2>6, <2>7 DEF x, v
<1>5. \A n \in 0 .. Len(w) : n \in 0 .. Len(t) \/ \E j \in 0 .. Len(u) : n = Len(t) + j
    <2> SUFFICES ASSUME NEW n \in 0 .. Len(w), n \notin 0 .. Len(t)
                 PROVE  \E j \in 0 .. Len(u) : n = Len(t) + j
        OBVIOUS
    <2>1. n - Len(t) \in 0 .. Len(u) /\ n = Len(t) + (n - Len(t))
        BY <1>1, <1>2
    <2> QED
        BY <2>1
<1>6. /\ s \o t \in Seq(Record) /\ Len(t) \in 0 .. Len(t) /\ s \o SubSeq(t, 1, Len(t)) = s \o t
      /\ Len(u) \in 0 .. Len(u) /\ (s \o t) \o SubSeq(u, 1, Len(u)) = (s \o t) \o u
    <2>1. s \o t \in Seq(Record) /\ Len(t) \in 0 .. Len(t) /\ Len(u) \in 0 .. Len(u)
        BY <1>1, ConcatIs
    <2>2. SubSeq(t, 1, Len(t)) = t /\ SubSeq(u, 1, Len(u)) = u
        BY <1>1, FullPrefix
    <2> QED
        BY <2>1, <2>2
<1>7. Outcomes(s, t) \subseteq Outcomes(s, w)
    BY <1>3 DEF Outcomes
<1>8. ASSUME NEW n \in 0 .. Len(w)
      PROVE  Found(s \o SubSeq(w, 1, n)) \in Outcomes(s, t) \cup {Found((s \o t) \o u)}
    <2>1. CASE n \in 0 .. Len(t)
        BY <1>3, <2>1 DEF Outcomes
    <2>2. CASE \E j \in 0 .. Len(u) : n = Len(t) + j
        <3>1. PICK j \in 0 .. Len(u) : n = Len(t) + j
            BY <2>2
        <3>2. s \o SubSeq(w, 1, n) = (s \o t) \o SubSeq(u, 1, j)
            BY <1>4, <3>1
        <3>3. CASE j = Len(u)
            BY <1>6, <3>2, <3>3
        <3>4. CASE j # Len(u)
            <4>1. Found((s \o t) \o SubSeq(u, 1, j)) = Found(s \o t)
                BY <1>6, <3>4, PartUnseen
            <4>2. Found(s \o t) \in Outcomes(s, t)
                BY <1>6 DEF Outcomes
            <4> QED
                BY <3>2, <4>1, <4>2
        <3> QED
            BY <3>3, <3>4
    <2> QED
        BY <1>5, <2>1, <2>2
<1>9. Found((s \o t) \o u) \in Outcomes(s, w)
    <2>1. /\ Len(t) + Len(u) \in 0 .. Len(w)
          /\ s \o SubSeq(w, 1, Len(t) + Len(u)) = (s \o t) \o u
        BY <1>4, <1>6
    <2> QED
        BY <2>1 DEF Outcomes
<1> QED
    BY <1>7, <1>8, <1>9 DEF Outcomes, w

-----------------------------------------------------------------------------
(* What an open may find, step by step.                                    *)

ChainInv == FileInv /\ SessionChain

SettledSession == FileType /\ SessionInv /\ SessionChain /\ Live /\ DOMAIN pending = {}
SettledIsFound == Found(appended) = Seen

LEMMA SettledNext == SettledSession' => SettledIsFound'
<1>1. SettledSession => SettledIsFound
    BY SettledSeen DEF SettledSession, SettledIsFound
<1> QED
    BY <1>1, PTL

LEMMA OpenFound ==
    ASSUME FileInv, History', OpenDatabase
    PROVE  found' = found /\ found = {committed'} /\ contents' = committed'
<1>1. /\ pager = "closed" /\ committed' = Found(stored) /\ XOpen
      /\ FileType /\ DOMAIN pending = {} /\ stored \in Seq(Record)
    BY DEF OpenDatabase, FileInv, TypeInv, ModesAgree, FileType
<1>2. sent = <<>> /\ UNCHANGED <<stored, sent>>
    BY <1>1, XOpenIs
<1>3. Outcomes(stored, sent) = {Found(stored)}
    BY <1>1, <1>2, NothingSent
<1>4. Found(stored) = Seen' /\ Live'
    BY <1>1, OpenSeen
<1> QED
    BY <1>1, <1>2, <1>3, <1>4 DEF History, FileInv

LEMMA SyncsFound ==
    ASSUME AppendAfterChain = FALSE, ChainInv, ChainInv', Syncs
    PROVE  /\ found' = found \/ found' = found \cup {contents}
           /\ contents' = contents
<1>1. FileType /\ XSync /\ Live /\ Live' /\ History /\ History' /\ Arrival
      /\ stored \in Seq(Record) /\ sent \in Seq(Record)
    BY XSyncIs DEF Syncs, ChainInv, FileInv, TypeInv, FileType, Live
<1>2. /\ DOMAIN pending # {} /\ DOMAIN pending' = {} /\ appended' = appended \o Batch
      /\ sent' = IF arrives THEN sent \o Batch ELSE sent
      /\ stored' = stored
    BY <1>1, XSyncIs
<1>3. IsBatch(Batch)
    BY <1>1, <1>2, BatchIs DEF IsBatch
<1>4. Seen' = Seen
    BY <1>1, SyncsSame DEF SamePages, Seen
<1>5. contents' = contents /\ contents = Seen
    BY <1>1, <1>4 DEF History
<1>6. SettledSession'
    BY <1>1, <1>2 DEF ChainInv, FileInv, TypeInv, SettledSession
<1>7. Found(appended') = Seen'
    BY <1>6, SettledNext DEF SettledIsFound
<1>8. CASE arrives
    <2>1. appended' = (stored \o sent) \o Batch /\ sent' = sent \o Batch
        BY <1>1, <1>2, <1>8 DEF Arrival
    <2> HIDE DEF Batch
    <2>2. /\ Outcomes(stored, sent) \subseteq Outcomes(stored, sent \o Batch)
          /\ Outcomes(stored, sent \o Batch)
                 \subseteq Outcomes(stored, sent) \cup {Found((stored \o sent) \o Batch)}
          /\ Found((stored \o sent) \o Batch) \in Outcomes(stored, sent \o Batch)
        BY ONLY <1>1, <1>3, BatchOutcomes
    <2>3. found' = found \cup {Found(appended')}
        BY <1>1, <1>2, <2>1, <2>2 DEF History
    <2> QED
        BY <1>4, <1>5, <1>7, <2>3
<1>9. CASE ~arrives
    BY <1>1, <1>2, <1>5, <1>9 DEF History
<1> QED
    BY <1>8, <1>9

(* When a sync returns OK everything is stored, and all an open can find   *)
(* is what the session reads.                                              *)
LEMMA ReturnsFound ==
    ASSUME ChainInv, History', SyncReturns
    PROVE  /\ found' = found /\ contents' = contents
           /\ arrives /\ sent = <<>> => found = {contents}
<1>1. /\ mode = "syncing" /\ mode' = "ready" /\ UNCHANGED <<stored, sent, appended, mapperVars>>
      /\ FileType /\ History /\ Arrival /\ Live /\ Live'
      /\ stored \in Seq(Record) /\ sent \in Seq(Record)
    BY DEF SyncReturns, ChainInv, FileInv, TypeInv, FileType, Live
<1>2. SamePages
    BY <1>1, QuietSame
<1>3. found' = found /\ contents' = contents
    BY <1>1, <1>2 DEF History, SamePages, Seen
<1>4. ASSUME arrives, sent = <<>>
      PROVE  found = {contents}
    <2>1. stored = appended
        BY <1>1, <1>4, ConcatNothing DEF Arrival
    <2>2. DOMAIN pending = {}
        BY <1>1 DEF ChainInv, FileInv, TypeInv, ModesAgree
    <2>3. Found(appended) = Seen
        BY <1>1, <2>2, SettledSeen DEF ChainInv, FileInv
    <2> QED
        BY <1>1, <1>4, <2>1, <2>3, NothingSent DEF History
<1> QED
    BY <1>3, <1>4

LEMMA BackgroundFound ==
    ASSUME FileInv, History', Background
    PROVE  found' \in SUBSET found /\ contents' = contents
<1>1. FileType /\ History /\ stored \in Seq(Record) /\ sent \in Seq(Record)
    BY DEF FileInv, TypeInv, FileType
<1>2. /\ UNCHANGED <<mode, appended, mapperVars>>
      /\ \/ sent # <<>> /\ stored' = Append(stored, Head(sent)) /\ sent' = Tail(sent)
         \/ sent' = <<>> /\ UNCHANGED stored
    BY <1>1, BackgroundIs
<1>3. SamePages
    BY <1>2, QuietSame
<1>4. contents' = contents
    BY <1>1, <1>2, <1>3 DEF History, SamePages, Seen, Live
<1>5. Outcomes(stored', sent') \subseteq Outcomes(stored, sent)
    <2>1. CASE sent # <<>> /\ stored' = Append(stored, Head(sent)) /\ sent' = Tail(sent)
        BY <1>1, <2>1, PersistOutcomes
    <2>2. CASE sent' = <<>> /\ UNCHANGED stored
        BY <1>1, <2>2, CutOutcomes
    <2> QED
        BY <1>2, <2>1, <2>2
<1> QED
    BY <1>1, <1>4, <1>5 DEF History

LEMMA ModifiesFound ==
    ASSUME FileInv, History', Modifies
    PROVE  found' = found
<1>1. UNCHANGED <<stored, sent>>
    BY XWriteIs, XTruncateIs DEF FileInv, TypeInv, Modifies, Writes, Truncates, objectVars
<1> QED
    BY <1>1 DEF FileInv, History

LEMMA WholeStep ==
    ASSUME AppendAfterChain = FALSE
    PROVE  ChainInv /\ ChainInv' /\ AllOrNothing /\ [Next]_vars => AllOrNothing'
<1> SUFFICES ASSUME ChainInv, ChainInv', AllOrNothing, Step \/ UNCHANGED vars
             PROVE  AllOrNothing'
    BY DEF Next
<1>1. TypeInv /\ FileInv /\ History' /\ found \subseteq {committed} \cup doubt
    BY DEF ChainInv, FileInv, AllOrNothing
<1>2. CASE OpenDatabase
    BY <1>1, <1>2, OpenFound DEF AllOrNothing
<1>3. CASE Modifies
    BY <1>1, <1>3, ModifiesFound DEF Modifies, AllOrNothing
<1>4. CASE Syncs
    BY <1>1, <1>4, SyncsFound DEF Syncs, AllOrNothing
<1>5. CASE SyncReturns
    <2>1. found' = found /\ contents' = contents
          /\ (arrives /\ sent = <<>> => found = {contents})
        BY <1>1, <1>5, ReturnsFound
    <2>2. CASE /\ arrives /\ sent = <<>>
               /\ committed' = contents \/ (pager = "undoing" /\ UNCHANGED committed)
        <3>1. CASE committed' = contents
            BY <2>1, <2>2, <3>1 DEF AllOrNothing
        <3>2. CASE pager = "undoing" /\ UNCHANGED committed
            <4>1. FileType /\ Restored /\ committed \in Images /\ DOMAIN journal = {} /\ Live
                BY <1>1, <1>5, <3>2
                DEF FileInv, TypeInv, ModesAgree, JournalInv, SyncReturns, Live
            <4>2. committed = contents
                BY <1>1, <4>1, RestoredSeen DEF FileInv, History
            <4> QED
                BY <2>1, <2>2, <3>2, <4>2 DEF AllOrNothing
        <3> QED
            BY <2>2, <3>1, <3>2
    <2>3. CASE UNCHANGED <<committed, doubt>>
        BY <1>1, <2>1, <2>3 DEF AllOrNothing
    <2> QED
        BY <1>5, <2>2, <2>3 DEF SyncReturns
<1>6. CASE Ends
    <2>1. found' = found
        BY <1>1, <1>6 DEF Ends, FileInv, History
    <2> QED
        BY <1>1, <1>6, <2>1 DEF Ends, AllOrNothing
<1>7. CASE Background /\ UNCHANGED <<committed, doubt>>
    BY <1>1, <1>7, BackgroundFound DEF AllOrNothing
<1> QED
    BY <1>1, <1>2, <1>3, <1>4, <1>5, <1>6, <1>7, FileSteps

LEMMA InitChain == Init => ChainInv
    BY InitInv DEF ChainInv, SessionChain, Init, FileInit, ObjectInit, Live

LEMMA InitFound == Init => found = {EmptyImage}
<1> SUFFICES ASSUME Init PROVE found = {EmptyImage}
    OBVIOUS
<1>1. stored = <<>> /\ sent = <<>> /\ <<>> \in Seq(Record)
    BY DEF Init, FileInit, ObjectInit
<1>2. found = {Found(stored)}
    BY <1>1, InitHistory, NothingSent DEF History
<1>3. Found(<<>>) = EmptyImage
    <2>1. Applied(<<>>, 0) = {} /\ Len(<<>>) = 0
        BY DEF Applied
    <2>2. ImageOf(<<>>, {}) = ImageFrom([b \in Block |-> BlockAt(<<>>, MapOf(<<>>, {})[b])],
                                        SizeOf(<<>>, {}))
        BY ImageOfIs
    <2>3. [b \in Block |-> BlockAt(<<>>, MapOf(<<>>, {})[b])] = [b \in Block |-> ZeroBlock]
        BY NothingYet DEF BlockAt
    <2>4. EmptyImage = ImageFrom([b \in Block |-> ZeroBlock], 0)
        BY UnitsBlock DEF EmptyImage, Image, Hole, ImageFrom
    <2> QED
        BY <2>1, <2>2, <2>3, <2>4, NothingYet DEF Found
<1> QED
    BY <1>1, <1>2, <1>3

(* Whenever the machine stops, the next open finds the last commit, or a   *)
(* sync that runs or failed since, each as a whole: no part of a batch     *)
(* (BlockMapper::Sync's flags against Init) and no transaction half rolled *)
(* back, although the journal is lost with the process.                    *)
THEOREM CommitIsAtomic ==
    ASSUME AppendAfterChain = FALSE
    PROVE  Spec => []AllOrNothing
<1>1. Init => ChainInv /\ AllOrNothing
    BY InitChain, InitFound DEF AllOrNothing, Init
<1>2. ChainInv /\ [Next]_vars => ChainInv'
    BY InvStep, ChainStep DEF ChainInv, FileInv
<1> QED
    BY <1>1, <1>2, WholeStep, PTL DEF Spec

-----------------------------------------------------------------------------
(* The file as the durable byte array.                                     *)

LEMMA DurableNames ==
    /\ Durable!EmptyImage = EmptyImage /\ Durable!Images = Images
    /\ \A n : Durable!CeilBlocks(n) = CeilBlocks(n)
    /\ Durable!MaxSize = MaxSize /\ Durable!Unit = 0 .. MaxSize - 1
    BY DEF Durable!EmptyImage, EmptyImage, Durable!Image, Image, Durable!Hole, Hole,
       Durable!ZeroBlock, ZeroBlock, Durable!Images, Images, Durable!Unit, Durable!MaxSize,
       MaxSize, Durable!CeilBlocks, CeilBlocks

LEMMA SeenType ==
    ASSUME FileType
    PROVE  /\ Seen \in Images /\ Seen.size = CeilBlocks(logicalSize)
           /\ \A u \in 0 .. MaxSize - 1 : Seen.data[u] = Page(u \div BlockUnits)[u % BlockUnits]
<1>1. Pages \in [Block -> BlockData] /\ logicalSize \in 0 .. MaxSize
    BY PagesType DEF PagesOK, FileType
<1>2. Seen \in Images /\ Seen.size = CeilBlocks(logicalSize)
    BY <1>1, ImageFromIs DEF Seen
<1>3. \A u \in 0 .. MaxSize - 1 : Pages[u \div BlockUnits] = Page(u \div BlockUnits)
    BY UnitsBlock DEF Pages
<1>4. \A u \in 0 .. MaxSize - 1 : Seen.data[u] = Pages[u \div BlockUnits][u % BlockUnits]
    BY DEF Seen, ImageFrom
<1> QED
    BY <1>2, <1>3, <1>4

SeenOK == /\ Seen \in Images /\ Seen.size = CeilBlocks(logicalSize)
          /\ \A u \in 0 .. MaxSize - 1 : Seen.data[u] = Page(u \div BlockUnits)[u % BlockUnits]

LEMMA SeenTypeNext == FileType' => SeenOK'
<1>1. FileType => SeenOK
    BY SeenType DEF SeenOK
<1> QED
    BY <1>1, PTL

LEMMA WriteIsModify ==
    ASSUME FileType, NEW b \in Block, NEW d \in BlockData, XWrite(b, d)
    PROVE  \E off \in Durable!Unit : \E n \in 1 .. Durable!MaxSize - off :
               Durable!Written(Seen, Seen', off, n)
<1> DEFINE off == b * BlockUnits
<1>1. BlockUnits \in Nat \ {0} /\ b \in Nat /\ off \in Nat /\ MaxSize \in Nat
    BY FormatAssumption, MaxSizeType DEF Block
<1>2. off \in 0 .. MaxSize - 1
    <2>1. 0 \in 0 .. BlockUnits - 1
        BY <1>1
    <2>2. off + 0 \in 0 .. MaxSize - 1
        BY <2>1, UnitPlace
    <2> QED
        BY <1>1, <2>2
<1>3. (b + 1) * BlockUnits = off + BlockUnits
    BY <1>1
<1>4. BlockUnits \in 1 .. MaxSize - off
    <2>1. (b + 1) * BlockUnits \in 0 .. MaxSize
        BY XWriteIs
    <2> HIDE DEF off
    <2> QED
        BY <1>1, <1>3, <2>1
<1>5. FileType'
    BY XWriteIs
<1>6. SeenOK /\ SeenOK'
    BY <1>5, SeenType, SeenTypeNext DEF SeenOK
<1>7. \A c \in Block : Page(c)' = IF c = b THEN d ELSE Page(c)
    BY XWritePages DEF Pages
<1>8. ASSUME NEW u \in (0 .. MaxSize - 1) \ (off .. off + BlockUnits - 1)
      PROVE  Seen'.data[u] = Seen.data[u]
    <2>1. /\ u \div BlockUnits \in Block /\ u % BlockUnits \in 0 .. BlockUnits - 1
          /\ u = (u \div BlockUnits) * BlockUnits + (u % BlockUnits)
        BY UnitSplit
    <2>2. u \div BlockUnits # b
        <3> SUFFICES ASSUME u \div BlockUnits = b PROVE FALSE
            OBVIOUS
        <3> DEFINE r == u % BlockUnits
        <3>1. u = off + r /\ r \in 0 .. BlockUnits - 1
            BY <2>1
        <3> HIDE DEF r, off
        <3> QED
            BY <1>1, <3>1
    <2>3. Page(u \div BlockUnits)' = Page(u \div BlockUnits)
        BY <1>7, <2>1, <2>2
    <2>4. Seen'.data[u] = Page(u \div BlockUnits)'[u % BlockUnits]
        BY <1>6 DEF SeenOK
    <2> QED
        BY <1>6, <2>3, <2>4 DEF SeenOK
<1>9. Seen'.size = Durable!Larger(Seen.size, CeilBlocks(off + BlockUnits))
    <2>1. /\ CeilBlocks(logicalSize') = IF CeilBlocks(logicalSize) >= b + 1
                                        THEN CeilBlocks(logicalSize) ELSE b + 1
          /\ CeilBlocks((b + 1) * BlockUnits) = b + 1
        BY XWriteSize
    <2> QED
        BY <1>3, <1>6, <2>1 DEF SeenOK, Durable!Larger
<1> HIDE DEF off
<1>10. Durable!Written(Seen, Seen', off, BlockUnits)
    BY <1>8, <1>9, DurableNames DEF Durable!Written
<1> QED
    BY <1>2, <1>4, <1>10, DurableNames

LEMMA TruncateIsModify ==
    ASSUME FileType, NEW n \in 0 .. MaxSize, XTruncate(n)
    PROVE  Durable!Truncated(Seen, Seen', n)
<1> DEFINE c == CeilBlocks(n)
<1>1. c \in Nat /\ BlockUnits \in Nat \ {0}
    BY CeilRange, FormatAssumption
<1>2. FileType' /\ logicalSize' = n
    BY XTruncateIs
<1>3. SeenOK /\ SeenOK'
    BY <1>2, SeenType, SeenTypeNext DEF SeenOK
<1>4. \A b \in Block : Page(b)' = IF b >= c THEN ZeroBlock ELSE Page(b)
    BY XTruncatePages DEF Pages
<1> HIDE DEF c
<1>5. ASSUME NEW u \in 0 .. MaxSize - 1
      PROVE  Seen'.data[u] = IF u < c * BlockUnits THEN Seen.data[u] ELSE Zero
    <2> DEFINE b == u \div BlockUnits
               r == u % BlockUnits
    <2>1. b \in Block /\ r \in 0 .. BlockUnits - 1 /\ b \in Nat /\ u \in Nat
        BY UnitSplit, FormatAssumption DEF Block
    <2>2. u < c * BlockUnits <=> b < c
        BY <1>1, UnitBelow
    <2>3. Seen'.data[u] = Page(b)'[r] /\ Seen.data[u] = Page(b)[r]
        BY <1>3 DEF SeenOK
    <2> HIDE DEF b, r
    <2>4. ZeroBlock[r] = Zero
        BY <2>1 DEF ZeroBlock
    <2>5. Page(b)' = IF b < c THEN Page(b) ELSE ZeroBlock
        BY <1>1, <1>4, <2>1
    <2> QED
        BY <2>2, <2>3, <2>4, <2>5
<1>6. Seen'.size = c
    BY <1>2, <1>3 DEF SeenOK, c
<1> QED
    BY <1>5, <1>6, DurableNames DEF Durable!Truncated, c

LEMMA FoundSome ==
    ASSUME History
    PROVE  found # {}
<1>1. 0 \in 0 .. Len(sent) \/ Outcomes(stored, sent) # {}
    OBVIOUS
<1> QED
    BY <1>1 DEF History, Outcomes

DurableStep == Durable!Next \/ UNCHANGED Durable!vars

LEMMA ModifiesIs ==
    ASSUME ChainInv, ChainInv', Modifies
    PROVE  DurableStep
<1>1. FileType /\ History /\ History'
    BY DEF ChainInv, FileInv, TypeInv
<1>2. found' = found
    BY <1>1, ModifiesFound DEF ChainInv
<1>3. CASE UNCHANGED <<objectVars, mapperVars>>
    <2>1. SamePages /\ mode' = mode
        BY <1>3, QuietSame DEF objectVars
    <2>2. contents' = contents
        BY <1>1, <2>1 DEF History, SamePages, Seen, Live
    <2> QED
        BY <1>2, <2>1, <2>2 DEF DurableStep, Durable!vars
<1>4. CASE Writes \/ Truncates
    <2>1. mode = "ready" /\ mode' = mode
        BY <1>1, <1>4, XWriteIs, XTruncateIs DEF Writes, Truncates, objectVars
    <2>2. contents = Seen /\ contents' = Seen'
        BY <1>1, <2>1 DEF History, Live
    <2>3. contents' \in Durable!Images
        <3>1. SeenOK'
            BY SeenTypeNext DEF ChainInv, FileInv, TypeInv
        <3> QED
            BY <2>2, <3>1, DurableNames DEF SeenOK
    <2>4. \/ \E off \in Durable!Unit : \E n \in 1 .. Durable!MaxSize - off :
                 Durable!Written(contents, contents', off, n)
          \/ \E n \in 0 .. Durable!MaxSize : Durable!Truncated(contents, contents', n)
        <3>1. CASE Writes
            <4>1. PICK b \in Block : \E d \in BlockData : XWrite(b, d)
                BY <3>1 DEF Writes
            <4>2. PICK d \in BlockData : XWrite(b, d)
                BY <4>1
            <4> QED
                BY <1>1, <2>2, <4>2, WriteIsModify
        <3>2. CASE Truncates
            <4>1. PICK n \in 0 .. MaxSize : XTruncate(n)
                BY <3>2 DEF Truncates
            <4>2. Durable!Truncated(contents, contents', n)
                BY <1>1, <2>2, <4>1, TruncateIsModify
            <4> QED
                BY <4>2, DurableNames
        <3> QED
            BY <1>4, <3>1, <3>2
    <2>5. Durable!Modify
        BY <1>2, <2>1, <2>3, <2>4 DEF Durable!Modify
    <2> QED
        BY <2>5 DEF DurableStep, Durable!Next
<1> QED
    BY <1>3, <1>4 DEF Modifies

(* Every step of the file is one of DurableFile, or changes nothing there. *)
LEMMA DurableSteps ==
    ASSUME AppendAfterChain = FALSE
    PROVE  ChainInv /\ ChainInv' /\ [Next]_vars => DurableStep
<1> SUFFICES ASSUME ChainInv, ChainInv', Step \/ UNCHANGED vars
             PROVE  DurableStep
    BY DEF Next
<1>1. TypeInv /\ FileInv /\ FileType /\ History /\ History'
    BY DEF ChainInv, FileInv, TypeInv
<1>2. CASE OpenDatabase
    <2>1. mode = "none" /\ mode' = "ready"
        BY <1>1, <1>2, XOpenIs DEF OpenDatabase
    <2>2. found' = found /\ found = {committed'} /\ contents' = committed'
        BY <1>1, <1>2, OpenFound
    <2>3. Durable!Open
        BY <2>1, <2>2 DEF Durable!Open
    <2> QED
        BY <2>3 DEF DurableStep, Durable!Next
<1>3. CASE Modifies
    BY <1>3, ModifiesIs
<1>4. CASE Syncs
    <2>1. mode = "ready" /\ mode' = "syncing"
        BY <1>1, <1>4, XSyncIs DEF Syncs
    <2>2. (found' = found \/ found' = found \cup {contents}) /\ contents' = contents
        BY <1>4, SyncsFound
    <2>3. Durable!SyncReaches \/ UNCHANGED Durable!vars
        BY <2>1, <2>2 DEF Durable!SyncReaches, Durable!vars
    <2> QED
        BY <2>3 DEF DurableStep, Durable!Next
<1>5. CASE SyncReturns
    <2>1. mode = "syncing" /\ mode' = "ready"
        BY <1>5 DEF SyncReturns
    <2>2. found' = found /\ contents' = contents
          /\ (arrives /\ sent = <<>> => found = {contents})
        BY <1>1, <1>5, ReturnsFound
    <2>3. CASE arrives /\ sent = <<>>
        <3>1. Durable!SyncSucceeds
            BY <2>1, <2>2, <2>3 DEF Durable!SyncSucceeds
        <3> QED
            BY <3>1 DEF DurableStep, Durable!Next
    <2>4. CASE ~(arrives /\ sent = <<>>)
        BY <2>1, <2>2 DEF DurableStep, Durable!vars
    <2> QED
        BY <2>3, <2>4
<1>6. CASE Ends
    <2>1. ~Live' /\ found' = found /\ found # {} /\ contents' = EmptyImage
        BY <1>1, <1>6, FoundSome DEF Ends, History
    <2>2. Durable!Stop
        BY <2>1, DurableNames DEF Durable!Stop, Live
    <2> QED
        BY <2>2 DEF DurableStep, Durable!Next
<1>7. CASE Background
    <2>1. found' \in SUBSET found /\ contents' = contents
        BY <1>1, <1>7, BackgroundFound
    <2>2. found' # {} /\ mode' = mode
        BY <1>1, <1>7, FoundSome, BackgroundIs DEF History, Outcomes
    <2>3. CASE Live
        <3>1. Durable!Settle
            BY <2>1, <2>2, <2>3 DEF Durable!Settle, Live
        <3> QED
            BY <3>1 DEF DurableStep, Durable!Next
    <2>4. CASE ~Live
        <3>1. Durable!Stop
            BY <1>1, <2>1, <2>2, <2>4, DurableNames DEF Durable!Stop, Live, History
        <3> QED
            BY <3>1 DEF DurableStep, Durable!Next
    <2> QED
        BY <2>3, <2>4
<1> QED
    BY <1>1, <1>2, <1>3, <1>4, <1>5, <1>6, <1>7, FileSteps

(* A database file in GCS under SQLite's transactions implements the       *)
(* durable byte array of DurableFile: writes and truncations change what   *)
(* is read at once and nothing of what an open finds, a sync adds one      *)
(* outcome, the contents as a whole, a failed sync, a close or a crash     *)
(* adds none, and an open reads one of them (BlockMapper's five file       *)
(* methods and Init over GcsRapidStorage).                                 *)
THEOREM DatabaseIsDurable ==
    ASSUME AppendAfterChain = FALSE
    PROVE  Spec => Implements
<1>1. Init => ChainInv /\ Durable!Init
    BY InitChain, InitFound, DurableNames DEF Init, FileInit, ObjectInit, Durable!Init,
       ChainInv, FileInv, History, Live
<1>2. ChainInv /\ [Next]_vars => ChainInv'
    BY InvStep, ChainStep DEF ChainInv, FileInv
<1>3. ChainInv /\ ChainInv' /\ [Next]_vars => [Durable!Next]_Durable!vars
    BY DurableSteps DEF DurableStep
<1> QED
    BY <1>1, <1>2, <1>3, PTL DEF Spec, Implements, Durable!Spec
=============================================================================
