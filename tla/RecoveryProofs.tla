--------------------------- MODULE RecoveryProofs ---------------------------
(* BlockMapper::Init, for every log, valid or not, torn or not, and every  *)
(* number and size of blocks: its backward pass marks exactly the records  *)
(* the log applies, its forward pass arrives at the mapping and the size   *)
(* they leave, and nothing else is served.                                 *)
EXTENDS Recovery, LogFormatProofs, SequenceTheorems

(* What the scan lets through of a record whose flag says it counts.       *)
Readable(r) ==
    /\ r.block \in Block \cup {Metadata}
    /\ r.block = Metadata => r.size = NoSize \/ r.size \in 0 .. MaxSize

Scanned == \A i \in 1 .. cursor - 1 : Valid(log[i])
AllValid == \A i \in 1 .. Len(log) : Valid(log[i])

Marked(k) == {i \in k .. Len(log) : AppliedUpTo(log, Len(log), i)}
Done(k) == applied \cap 1 .. k

Fresh == logicalToPhysical = [b \in Block |-> 0] /\ logicalSize = 0

Rebuilt(k) ==
    /\ logicalToPhysical = MapOf(log, Done(k))
    /\ logicalSize = SizeOf(log, Done(k))

Within == \A b \in Block : logicalToPhysical[b] # 0 => b < CeilBlocks(logicalSize)

LoopInv ==
    /\ pc = "align" => Fresh /\ applied = {} /\ ~appliedNext
    /\ pc = "scan" =>
        /\ Fresh /\ applied = {} /\ ~appliedNext
        /\ cursor \in 1 .. Len(log) + 1 /\ Scanned
    /\ pc = "backward" =>
        /\ Fresh /\ AllValid
        /\ cursor \in 0 .. Len(log)
        /\ applied = Marked(cursor + 1)
        /\ appliedNext <=> cursor < Len(log) /\ AppliedUpTo(log, Len(log), cursor + 1)
    /\ pc = "forward" =>
        /\ AllValid
        /\ cursor \in 1 .. Len(log) + 1
        /\ applied = Applied(log, Len(log))
        /\ Rebuilt(cursor - 1) /\ Within
    /\ pc = "ready" =>
        /\ applied = Applied(log, Len(log))
        /\ Rebuilt(Len(log)) /\ Within

-----------------------------------------------------------------------------
(* The passes on a log.                                                    *)

(* Whether a record is applied, from whether the next one is.              *)
LEMMA AppliedFromNext ==
    ASSUME NEW l, NEW n \in Nat, NEW i \in 1 .. n
    PROVE  AppliedUpTo(l, n, i) <=>
               IF l[i].flag = Chained THEN i < n /\ AppliedUpTo(l, n, i + 1)
                                      ELSE l[i].flag = Commit
<1>1. CASE l[i].flag = Commit
    <2>1. \A k \in i .. (i - 1) : l[k].flag = Chained
        OBVIOUS
    <2>2. i \in i .. n
        OBVIOUS
    <2> QED
        BY <1>1, <2>1, <2>2 DEF AppliedUpTo, Commit, Chained
<1>2. CASE l[i].flag # Commit /\ l[i].flag # Chained
    <2>1. ASSUME NEW j \in i .. n, l[j].flag = Commit,
                 \A k \in i .. (j - 1) : l[k].flag = Chained
          PROVE  FALSE
        <3>1. j # i
            BY <1>2, <2>1
        <3>2. i \in i .. (j - 1)
            BY <3>1
        <3> QED
            BY <1>2, <2>1, <3>2
    <2> QED
        BY <1>2, <2>1 DEF AppliedUpTo
<1>3. CASE l[i].flag = Chained
    <2>1. ASSUME AppliedUpTo(l, n, i)
          PROVE  i < n /\ AppliedUpTo(l, n, i + 1)
        <3>1. PICK j \in i .. n : /\ l[j].flag = Commit
                                  /\ \A k \in i .. (j - 1) : l[k].flag = Chained
            BY <2>1 DEF AppliedUpTo
        <3>2. j # i
            BY <1>3, <3>1 DEF Commit, Chained
        <3>3. j \in i + 1 .. n /\ i < n /\ \A k \in i + 1 .. (j - 1) : k \in i .. (j - 1)
            BY <3>2
        <3> QED
            BY <3>1, <3>3 DEF AppliedUpTo
    <2>2. ASSUME i < n, AppliedUpTo(l, n, i + 1)
          PROVE  AppliedUpTo(l, n, i)
        <3>1. PICK j \in i + 1 .. n : /\ l[j].flag = Commit
                                      /\ \A k \in i + 1 .. (j - 1) : l[k].flag = Chained
            BY <2>2 DEF AppliedUpTo
        <3>2. j \in i .. n /\ \A k \in i .. (j - 1) : k = i \/ k \in i + 1 .. (j - 1)
            OBVIOUS
        <3> QED
            BY <1>3, <3>1, <3>2 DEF AppliedUpTo
    <2> QED
        BY <1>3, <2>1, <2>2
<1> QED
    BY <1>1, <1>2, <1>3

LEMMA AppliedCounts ==
    ASSUME NEW l, NEW n \in Nat, NEW i \in 1 .. n, AppliedUpTo(l, n, i)
    PROVE  l[i].flag \in {Commit, Chained}
    BY AppliedFromNext

LEMMA ReadableExtent ==
    ASSUME NEW r, Readable(r)
    PROVE  Extent(r) \in 0 .. MaxSize
<1>1. CASE r.block = Metadata
    BY <1>1, MaxSizeType DEF Extent, Readable, NoSize, Metadata
<1>2. CASE r.block # Metadata
    <2>1. r.block + 1 \in Nat /\ r.block + 1 <= NumBlocks
        BY <1>2, FormatAssumption DEF Readable, Block
    <2>2. (r.block + 1) * BlockUnits <= MaxSize /\ (r.block + 1) * BlockUnits \in Nat
        BY <2>1, Monotonic, FormatAssumption DEF MaxSize
    <2> QED
        BY <1>2, <2>2, MaxSizeType DEF Extent
<1> QED
    BY <1>1, <1>2

-----------------------------------------------------------------------------
(* Init's loops.                                                           *)

LEMMA LengthType == TypeOK => Len(log) \in Nat
    BY LenProperties DEF TypeOK

LEMMA PadType == PadRecord \in RawRecord
    BY FormatAssumption, MaxSizeType
       DEF PadRecord, RawRecord, Flagged, DataRecord, ZeroBlock, BlockData, NoSize, Aborted

LEMMA InitLoop == Init => TypeOK /\ LoopInv
<1> SUFFICES ASSUME Init PROVE TypeOK /\ LoopInv
    OBVIOUS
<1>1. log \in Seq(RawRecord)
    BY LogsAssumption DEF Init
<1>2. TypeOK
    BY <1>1 DEF Init, TypeOK
<1> QED
    BY <1>2 DEF Init, LoopInv, Fresh

LEMMA AlignStep == TypeOK /\ LoopInv /\ Align => TypeOK' /\ LoopInv'
<1> SUFFICES ASSUME TypeOK, LoopInv, Align PROVE TypeOK' /\ LoopInv'
    OBVIOUS
<1>1. /\ pc = "align" /\ pc' = "scan" /\ cursor' = 1 /\ torn' = FALSE
      /\ UNCHANGED <<applied, appliedNext, logicalToPhysical, logicalSize>>
      /\ Fresh /\ applied = {} /\ ~appliedNext
    BY DEF Align, LoopInv
<1>2. log' \in Seq(RawRecord) /\ Len(log') \in Nat
    <2>1. log' \in Seq(RawRecord)
        BY PadType, AppendProperties DEF Align, TypeOK
    <2> QED
        BY <2>1, LenProperties
<1>3. TypeOK'
    BY <1>1, <1>2 DEF TypeOK
<1> QED
    BY <1>1, <1>2, <1>3 DEF LoopInv, Fresh, Scanned

LEMMA FailStep == TypeOK /\ Fail => TypeOK' /\ LoopInv'
    BY DEF TypeOK, Fail, LoopInv

LEMMA ScanRecordStep == TypeOK /\ LoopInv /\ ScanRecord => TypeOK' /\ LoopInv'
<1> SUFFICES ASSUME TypeOK, LoopInv, ScanRecord PROVE TypeOK' /\ LoopInv'
    OBVIOUS
<1>1. /\ pc = "scan" /\ pc' = "scan" /\ cursor' = cursor + 1 /\ cursor <= Len(log)
      /\ Valid(log[cursor])
      /\ UNCHANGED <<log, torn, applied, appliedNext, logicalToPhysical, logicalSize>>
      /\ Fresh /\ applied = {} /\ ~appliedNext /\ cursor \in 1 .. Len(log) + 1 /\ Scanned
    BY DEF ScanRecord, LoopInv
<1>2. TypeOK'
    BY <1>1 DEF TypeOK
<1>3. Scanned'
    <2>1. \A i \in 1 .. cursor' - 1 : i = cursor \/ i \in 1 .. cursor - 1
        BY <1>1, LengthType
    <2> QED
        BY <1>1, <2>1 DEF Scanned
<1>4. cursor' \in 1 .. Len(log') + 1
    BY <1>1, LengthType
<1> QED
    BY <1>1, <1>2, <1>3, <1>4 DEF LoopInv, Fresh

LEMMA ScanEndsStep == TypeOK /\ LoopInv /\ ScanEnds => TypeOK' /\ LoopInv'
<1> SUFFICES ASSUME TypeOK, LoopInv, ScanEnds PROVE TypeOK' /\ LoopInv'
    OBVIOUS
<1>1. /\ pc = "scan" /\ pc' = "backward" /\ cursor' = Len(log) /\ cursor > Len(log)
      /\ UNCHANGED <<log, torn, applied, appliedNext, logicalToPhysical, logicalSize>>
      /\ Fresh /\ applied = {} /\ ~appliedNext /\ cursor \in 1 .. Len(log) + 1 /\ Scanned
    BY DEF ScanEnds, LoopInv
<1>2. Len(log) \in Nat
    BY LengthType
<1>3. TypeOK'
    BY <1>1, <1>2 DEF TypeOK
<1>4. AllValid'
    <2>1. \A i \in 1 .. Len(log) : i \in 1 .. cursor - 1
        BY <1>1, <1>2
    <2> QED
        BY <1>1, <2>1 DEF Scanned, AllValid
<1>5. Marked(cursor + 1)' = {}
    <2>1. cursor' + 1 .. Len(log') = {}
        BY <1>1, <1>2
    <2> QED
        BY <2>1 DEF Marked
<1>6. cursor' \in 0 .. Len(log') /\ ~(cursor' < Len(log'))
    BY <1>1, <1>2
<1> QED
    BY <1>1, <1>3, <1>4, <1>5, <1>6 DEF LoopInv, Fresh

LEMMA BackwardStep == TypeOK /\ LoopInv /\ Backward => TypeOK' /\ LoopInv'
<1> SUFFICES ASSUME TypeOK, LoopInv, Backward PROVE TypeOK' /\ LoopInv'
    OBVIOUS
<1>1. /\ pc = "backward" /\ pc' = "backward" /\ cursor' = cursor - 1 /\ cursor >= 1
      /\ UNCHANGED <<log, torn, logicalToPhysical, logicalSize>>
      /\ Fresh /\ AllValid /\ cursor \in 0 .. Len(log)
      /\ applied = Marked(cursor + 1)
      /\ appliedNext <=> cursor < Len(log) /\ AppliedUpTo(log, Len(log), cursor + 1)
    BY DEF Backward, LoopInv
<1>2. Len(log) \in Nat /\ cursor \in 1 .. Len(log)
    BY <1>1, LengthType
<1>3. appliedNext' <=> AppliedUpTo(log, Len(log), cursor)
    BY <1>1, <1>2, AppliedFromNext DEF Backward
<1>4. Marked(cursor) = IF appliedNext' THEN Marked(cursor + 1) \cup {cursor} ELSE Marked(cursor + 1)
    <2>1. \A i : i \in cursor .. Len(log) <=> i = cursor \/ i \in cursor + 1 .. Len(log)
        BY <1>2
    <2> QED
        BY <1>3, <2>1 DEF Marked
<1>5. applied' = Marked(cursor)
    BY <1>1, <1>4 DEF Backward
<1>6. cursor' + 1 = cursor /\ cursor' \in 0 .. Len(log') /\ cursor' < Len(log')
    BY <1>1, <1>2
<1>7. applied' = Marked(cursor + 1)'
    BY <1>1, <1>5, <1>6 DEF Marked
<1>8. TypeOK'
    <2>1. applied' \subseteq 1 .. Len(log)
        BY <1>2, <1>5 DEF Marked
    <2>2. appliedNext' \in BOOLEAN
        BY DEF Backward, TypeOK
    <2> QED
        BY <1>1, <1>6, <2>1, <2>2 DEF TypeOK
<1>9. appliedNext' <=> cursor' < Len(log') /\ AppliedUpTo(log', Len(log'), cursor' + 1)
    BY <1>1, <1>3, <1>6
<1> QED
    BY <1>1, <1>6, <1>7, <1>8, <1>9 DEF LoopInv, Fresh, AllValid

LEMMA BackwardEndsStep == TypeOK /\ LoopInv /\ BackwardEnds => TypeOK' /\ LoopInv'
<1> SUFFICES ASSUME TypeOK, LoopInv, BackwardEnds PROVE TypeOK' /\ LoopInv'
    OBVIOUS
<1>1. /\ pc = "backward" /\ pc' = "forward" /\ cursor' = 1 /\ cursor < 1
      /\ UNCHANGED <<log, torn, applied, appliedNext, logicalToPhysical, logicalSize>>
      /\ Fresh /\ AllValid /\ cursor \in 0 .. Len(log)
      /\ applied = Marked(cursor + 1)
    BY DEF BackwardEnds, LoopInv
<1>2. Len(log) \in Nat /\ cursor = 0 /\ cursor + 1 = 1
    BY <1>1, LengthType
<1>3. applied' = Applied(log', Len(log'))
    BY <1>1, <1>2 DEF Marked, Applied
<1>4. TypeOK'
    BY <1>1 DEF TypeOK
<1>5. Done(cursor - 1)' = {}
    <2>1. 1 .. cursor' - 1 = {}
        BY <1>1
    <2> QED
        BY <2>1 DEF Done
<1>6. Rebuilt(cursor - 1)'
    BY <1>1, <1>5, NothingYet DEF Rebuilt, Fresh
<1>7. Within'
    BY <1>1 DEF Within, Fresh
<1> QED
    BY <1>1, <1>2, <1>3, <1>4, <1>6, <1>7 DEF LoopInv, AllValid

LEMMA AppliedReadable ==
    ASSUME TypeOK, AllValid, NEW i \in Applied(log, Len(log))
    PROVE  Readable(log[i])
<1>1. i \in 1 .. Len(log) /\ AppliedUpTo(log, Len(log), i)
    BY DEF Applied
<1>2. log[i].flag \in {Commit, Chained}
    BY <1>1, LengthType, AppliedCounts
<1> QED
    BY <1>1, <1>2 DEF AllValid, Valid, Readable

(* One turn of the forward pass follows what one more record means.        *)
LEMMA ForwardStep == TypeOK /\ LoopInv /\ Forward => TypeOK' /\ LoopInv'
<1> SUFFICES ASSUME TypeOK, LoopInv, Forward PROVE TypeOK' /\ LoopInv'
    OBVIOUS
<1> DEFINE n == cursor - 1
           S == Done(cursor - 1)
           r == log[cursor]
<1>1. /\ pc = "forward" /\ pc' = "forward" /\ cursor' = cursor + 1 /\ cursor <= Len(log)
      /\ UNCHANGED <<log, torn, applied, appliedNext>>
      /\ AllValid /\ cursor \in 1 .. Len(log) + 1
      /\ applied = Applied(log, Len(log)) /\ Rebuilt(n) /\ Within
    BY DEF Forward, LoopInv
<1>2. /\ Len(log) \in Nat /\ n \in Nat /\ n + 1 = cursor /\ cursor \in 1 .. Len(log)
      /\ cursor' - 1 = cursor
    BY <1>1, LengthType
<1>3. S \subseteq 1 .. n /\ \A i \in S : Readable(log[i])
    BY <1>1, AppliedReadable DEF Done
<1>4. /\ logicalToPhysical = MapOf(log, S) /\ logicalSize = SizeOf(log, S)
      /\ logicalSize \in Nat
    BY <1>1 DEF Rebuilt, TypeOK
<1>5. CASE cursor \notin applied
    <2>1. Done(cursor) = S
        <3>1. \A i \in applied : i \in 1 .. cursor <=> i \in 1 .. n
            BY <1>2, <1>5 DEF TypeOK
        <3> QED
            BY <3>1 DEF Done
    <2>2. UNCHANGED <<logicalToPhysical, logicalSize>>
        BY <1>5 DEF Forward
    <2>3. Rebuilt(cursor - 1)' /\ Within'
        BY <1>1, <1>2, <1>4, <2>1, <2>2 DEF Rebuilt, Done, Within
    <2> QED
        BY <1>1, <1>2, <2>2, <2>3 DEF LoopInv, TypeOK, AllValid
<1>6. CASE cursor \in applied
    <2>1. Done(cursor) = S \cup {n + 1}
        <3>1. \A i \in applied : i \in 1 .. cursor <=> i \in 1 .. n \/ i = cursor
            BY <1>2 DEF TypeOK
        <3> QED
            BY <1>2, <1>6, <3>1 DEF Done
    <2>2. Readable(r) /\ Extent(r) \in 0 .. MaxSize
        BY <1>1, <1>6, AppliedReadable, ReadableExtent
    <2>3. /\ IsTruncate(r) => SizeOf(log, S \cup {n + 1}) = r.size
          /\ ~IsTruncate(r) =>
                 SizeOf(log, S \cup {n + 1}) =
                     IF logicalSize >= Extent(r) THEN logicalSize ELSE Extent(r)
        <3>1. log[n + 1] = r
            BY <1>2
        <3> HIDE DEF S, n, r
        <3>2. /\ IsTruncate(log[n + 1]) => SizeOf(log, S \cup {n + 1}) = log[n + 1].size
              /\ ~IsTruncate(log[n + 1]) =>
                     SizeOf(log, S \cup {n + 1}) =
                         IF SizeOf(log, S) >= Extent(log[n + 1]) THEN SizeOf(log, S)
                                                                ELSE Extent(log[n + 1])
            <4>1. \A i \in S \cup {n + 1} : Extent(log[i]) \in 0 .. MaxSize
                BY <1>3, <2>2, <3>1, ReadableExtent
            <4> QED
                BY <1>2, <1>3, <4>1, SizeWithNext
        <3> QED
            BY <1>4, <3>1, <3>2
    <2>4. MapOf(log, S \cup {n + 1}) =
              [b \in Block |-> IF r.block = b THEN cursor
                               ELSE IF Cuts(r, b) THEN 0 ELSE logicalToPhysical[b]]
        BY <1>2, <1>3, <1>4, MapWithNext
    <2>5. logicalToPhysical \in [Block -> Nat] /\ MaxSize \in Nat /\ cursor # 0
        BY <1>2, MaxSizeType DEF TypeOK
    <2> HIDE DEF S, n
    <2>6. CASE r.block \in Block
        <3>1. /\ logicalToPhysical' = [logicalToPhysical EXCEPT ![r.block] = cursor]
              /\ logicalSize' = Grow(logicalSize, r.block)
            BY <1>6, <2>6 DEF Forward, IsTruncate, Metadata, Block
        <3>2. ~IsTruncate(r) /\ Extent(r) = (r.block + 1) * BlockUnits /\ \A b : ~Cuts(r, b)
            BY <2>6 DEF IsTruncate, Extent, Cuts, Metadata, Block
        <3>3. logicalToPhysical' = MapOf(log, S \cup {n + 1})
            BY <2>4, <2>5, <2>6, <3>1, <3>2
        <3>4. logicalSize' = SizeOf(log, S \cup {n + 1})
            BY <2>3, <3>1, <3>2 DEF Grow
        <3>5. /\ logicalSize' \in Nat /\ logicalSize <= logicalSize'
              /\ (r.block + 1) * BlockUnits <= logicalSize'
            BY <1>4, <2>2, <2>5, <3>1, <3>2 DEF Grow
        <3>6. Within'
            <4> SUFFICES ASSUME NEW b \in Block, logicalToPhysical'[b] # 0
                         PROVE  b < CeilBlocks(logicalSize')
                BY DEF Within
            <4>1. CASE b = r.block
                BY <3>5, <4>1, BlockEnds
            <4>2. CASE b # r.block
                <5>1. logicalToPhysical[b] # 0
                    BY <2>5, <3>1, <4>2
                <5>2. b < CeilBlocks(logicalSize)
                    BY <1>1, <5>1 DEF Within
                <5> QED
                    BY <1>4, <3>5, <5>2, CeilGrows DEF Block
            <4> QED
                BY <4>1, <4>2
        <3>7. logicalToPhysical' \in [Block -> Nat]
            BY <1>2, <2>5, <2>6, <3>1
        <3>8. Rebuilt(cursor - 1)'
            BY <1>1, <1>2, <2>1, <3>3, <3>4 DEF Rebuilt, Done
        <3> QED
            BY <1>1, <1>2, <3>5, <3>6, <3>7, <3>8 DEF LoopInv, TypeOK, AllValid
    <2>7. CASE r.block = Metadata /\ r.size # NoSize
        <3>1. /\ logicalToPhysical' =
                     [b \in Block |-> IF Cuts(r, b) THEN 0 ELSE logicalToPhysical[b]]
              /\ logicalSize' = r.size
            BY <1>6, <2>7 DEF Forward, IsTruncate, Metadata, Block
        <3>2. IsTruncate(r) /\ r.size \in Nat /\ \A b \in Block : r.block # b
            BY <2>2, <2>5, <2>7 DEF IsTruncate, Readable, Metadata, Block
        <3>3. logicalToPhysical' = MapOf(log, S \cup {n + 1})
            BY <2>4, <3>1, <3>2
        <3>4. logicalSize' = SizeOf(log, S \cup {n + 1})
            BY <2>3, <3>1, <3>2
        <3>5. Within'
            <4> SUFFICES ASSUME NEW b \in Block, logicalToPhysical'[b] # 0
                         PROVE  b < CeilBlocks(logicalSize')
                BY DEF Within
            <4>1. ~Cuts(r, b)
                BY <3>1
            <4>2. CeilBlocks(r.size) \in Int
                BY <3>2, CeilGrows
            <4> QED
                BY <3>1, <3>2, <4>1, <4>2 DEF Cuts, Block
        <3>6. logicalToPhysical' \in [Block -> Nat]
            BY <2>5, <3>1
        <3>7. Rebuilt(cursor - 1)'
            BY <1>1, <1>2, <2>1, <3>3, <3>4 DEF Rebuilt, Done
        <3> QED
            BY <1>1, <1>2, <3>1, <3>2, <3>5, <3>6, <3>7 DEF LoopInv, TypeOK, AllValid
    <2>8. CASE r.block = Metadata /\ r.size = NoSize
        <3>1. UNCHANGED <<logicalToPhysical, logicalSize>>
            BY <2>8 DEF Forward, IsTruncate, Metadata, Block
        <3>2. ~IsTruncate(r) /\ Extent(r) = 0 /\ \A b \in Block : r.block # b /\ ~Cuts(r, b)
            BY <2>8 DEF IsTruncate, Extent, Cuts, Metadata, Block
        <3>3. logicalToPhysical' = MapOf(log, S \cup {n + 1})
            BY <2>4, <2>5, <3>1, <3>2
        <3>4. logicalSize' = SizeOf(log, S \cup {n + 1})
            BY <1>4, <2>3, <3>1, <3>2
        <3>5. Rebuilt(cursor - 1)' /\ Within'
            BY <1>1, <1>2, <2>1, <3>1, <3>3, <3>4 DEF Rebuilt, Done, Within
        <3> QED
            BY <1>1, <1>2, <3>1, <3>5 DEF LoopInv, TypeOK, AllValid
    <2> QED
        BY <2>2, <2>6, <2>7, <2>8 DEF Readable
<1> QED
    BY <1>5, <1>6

LEMMA ForwardEndsStep == TypeOK /\ LoopInv /\ ForwardEnds => TypeOK' /\ LoopInv'
<1> SUFFICES ASSUME TypeOK, LoopInv, ForwardEnds PROVE TypeOK' /\ LoopInv'
    OBVIOUS
<1>1. /\ pc = "forward" /\ pc' = "ready" /\ cursor > Len(log)
      /\ UNCHANGED <<log, torn, cursor, applied, appliedNext, logicalToPhysical, logicalSize>>
      /\ AllValid /\ cursor \in 1 .. Len(log) + 1
      /\ applied = Applied(log, Len(log)) /\ Rebuilt(cursor - 1) /\ Within
    BY DEF ForwardEnds, LoopInv
<1>2. Len(log) = cursor - 1
    BY <1>1, LengthType
<1>3. Rebuilt(Len(log))' /\ Within'
    BY <1>1, <1>2 DEF Rebuilt, Done, Within
<1>4. TypeOK'
    BY <1>1 DEF TypeOK
<1> QED
    BY <1>1, <1>3, <1>4 DEF LoopInv

LEMMA LoopInductive == Spec => [](TypeOK /\ LoopInv)
<1>1. Init => TypeOK /\ LoopInv
    BY InitLoop
<1>2. TypeOK /\ LoopInv /\ [Next]_vars => TypeOK' /\ LoopInv'
    <2> SUFFICES ASSUME TypeOK, LoopInv, [Next]_vars PROVE TypeOK' /\ LoopInv'
        OBVIOUS
    <2>1. CASE Align
        BY <2>1, AlignStep
    <2>2. CASE ScanInvalid \/ StorageFails
        BY <2>2, FailStep DEF ScanInvalid, StorageFails
    <2>3. CASE ScanRecord \/ ScanEnds
        BY <2>3, ScanRecordStep, ScanEndsStep
    <2>4. CASE Backward \/ BackwardEnds
        BY <2>4, BackwardStep, BackwardEndsStep
    <2>5. CASE Forward \/ ForwardEnds
        BY <2>5, ForwardStep, ForwardEndsStep
    <2>6. CASE UNCHANGED vars
        BY <2>6
           DEF vars, TypeOK, LoopInv, Fresh, Scanned, AllValid, Marked, Rebuilt, Done, Within
    <2> QED
        BY <2>1, <2>2, <2>3, <2>4, <2>5, <2>6 DEF Next, Step, Returned
<1> QED
    BY <1>1, <1>2, PTL DEF Spec

-----------------------------------------------------------------------------
(* The types of Init's loops (BlockMapper::Init).                          *)
THEOREM RecoveryTypeCorrect == Spec => []TypeOK
    BY LoopInductive, PTL

LEMMA DoneIsAll ==
    ASSUME TypeOK, LoopInv, pc = "ready"
    PROVE  /\ Done(Len(log)) = Applied(log, Len(log))
           /\ Rebuilt(Len(log)) /\ Within
    BY DEF LoopInv, Done, TypeOK

(* The mapping Init returns with is, for any log, the last live write of   *)
(* every block among the records whose chain reached a Commit record       *)
(* (BlockMapper::Init).                                                    *)
THEOREM RebuildsMap == Spec => []MapRecovered
<1>1. TypeOK /\ LoopInv => MapRecovered
    BY DoneIsAll DEF MapRecovered, RecoveredMap, Rebuilt
<1> QED
    BY <1>1, LoopInductive, PTL

(* The size Init returns with is the one the last applied truncation and   *)
(* the writes after it give (BlockMapper::Init).                           *)
THEOREM RebuildsSize == Spec => []SizeRecovered
<1>1. TypeOK /\ LoopInv => SizeRecovered
    BY DoneIsAll DEF SizeRecovered, RecoveredSize, Rebuilt
<1> QED
    BY <1>1, LoopInductive, PTL

(* No mapped block is hidden behind the end of the file                    *)
(* (BlockMapper::Init).                                                    *)
THEOREM MapsWithinSize == Spec => []MappedWithinSize
<1>1. TypeOK /\ LoopInv => MappedWithinSize
    BY DoneIsAll DEF MappedWithinSize, Within
<1> QED
    BY <1>1, LoopInductive, PTL

(* What is served is a data record of its own block, of a chain that was   *)
(* committed (BlockMapper::Init).                                          *)
THEOREM ServesCommitted == Spec => []OnlyCommittedServed
<1>1. TypeOK /\ LoopInv => OnlyCommittedServed
    <2> SUFFICES ASSUME TypeOK, LoopInv, pc = "ready", NEW b \in Block,
                        logicalToPhysical[b] # 0
                 PROVE  LET p == logicalToPhysical[b] IN
                        /\ log[p].block = b
                        /\ log[p].flag \in {Commit, Chained}
                        /\ \E j \in p .. Len(log) :
                               /\ log[j].flag = Commit
                               /\ \A k \in p .. j : log[k].flag \in {Commit, Chained}
        BY DEF OnlyCommittedServed
    <2> DEFINE p == logicalToPhysical[b]
               A == Applied(log, Len(log))
               L == LiveWrites(log, A, b)
    <2>1. p = LastOf(L)
        BY DoneIsAll DEF Rebuilt, MapOf
    <2>2. Len(log) \in Nat /\ L \subseteq 0 .. Len(log)
        <3>1. A \subseteq 1 .. Len(log) /\ L \subseteq A
            BY DEF Applied, LiveWrites
        <3> QED
            BY <3>1, LengthType
    <2>3. LastOf(L) \in L
        <3> HIDE DEF L
        <3>1. LastOf(L) \in L \cup {0}
            BY <2>2, LastOfBound
        <3> QED
            BY <2>1, <3>1
    <2>4. p \in A /\ log[p].block = b /\ p \in 1 .. Len(log) /\ AppliedUpTo(log, Len(log), p)
        BY <2>1, <2>3 DEF LiveWrites, Applied
    <2>5. log[p].flag \in {Commit, Chained}
        BY <2>2, <2>4, AppliedCounts
    <2>6. PICK j \in p .. Len(log) : /\ log[j].flag = Commit
                                     /\ \A k \in p .. (j - 1) : log[k].flag = Chained
        BY <2>4 DEF AppliedUpTo
    <2>7. \A k \in p .. j : k = j \/ k \in p .. (j - 1)
        BY <2>2, <2>4
    <2>8. \A k \in p .. j : log[k].flag \in {Commit, Chained}
        BY <2>6, <2>7
    <2> QED
        BY <2>4, <2>5, <2>6, <2>8
<1> QED
    BY <1>1, LoopInductive, PTL

(* Completing a torn record applies nothing and takes nothing back         *)
(* (BlockMapper::Init).                                                    *)
THEOREM PadChangesNothing == Spec => PadIsNeutral
<1>1. ASSUME TypeOK, [Next]_vars, pc = "align", pc' = "scan"
      PROVE  /\ Applied(log', Len(log')) = Applied(log, Len(log))
             /\ torn => Len(log') \notin Applied(log', Len(log'))
    <2>1. Align
        BY <1>1
           DEF Next, Step, Align, ScanInvalid, ScanRecord, ScanEnds, Backward, BackwardEnds,
               Forward, ForwardEnds, StorageFails, Fail, Returned, vars
    <2>2. CASE ~torn
        BY <2>1, <2>2 DEF Align
    <2>3. CASE torn
        <3> DEFINE n == Len(log)
        <3>1. n \in Nat
            BY <1>1, LengthType
        <3>2. /\ Len(log') = n + 1 /\ log'[n + 1] = PadRecord
              /\ \A i \in 1 .. n : log'[i] = log[i]
            BY <1>1, <2>1, <2>3, PadType, AppendProperties DEF Align, TypeOK
        <3> HIDE DEF n
        <3>3. log'[n + 1].flag = Aborted
            BY <3>2 DEF PadRecord, Flagged
        <3>4. ~AppliedUpTo(log', n + 1, n + 1)
            BY <3>1, <3>3, AppliedFromNext DEF Aborted, Commit, Chained
        <3>5. ASSUME NEW i \in 1 .. n
              PROVE  AppliedUpTo(log', n + 1, i) <=> AppliedUpTo(log, n, i)
            <4>1. AppliedUpTo(log', n, i) <=> AppliedUpTo(log, n, i)
                BY <3>1, <3>2, AppliedSame
            <4>2. \A j \in i .. n + 1 : log'[j].flag = Commit => j \in i .. n
                BY <3>1, <3>3 DEF Aborted, Commit
            <4>3. \A j \in i .. n : j \in i .. n + 1
                BY <3>1
            <4>4. AppliedUpTo(log', n + 1, i) <=> AppliedUpTo(log', n, i)
                BY <4>2, <4>3 DEF AppliedUpTo
            <4> QED
                BY <4>1, <4>4
        <3>6. \A i : i \in 1 .. n + 1 <=> i \in 1 .. n \/ i = n + 1
            BY <3>1
        <3>7. Applied(log', n + 1) = Applied(log, n)
            BY <3>4, <3>5, <3>6 DEF Applied
        <3>8. n + 1 \notin Applied(log', n + 1)
            BY <3>4 DEF Applied
        <3> QED
            BY <3>2, <3>7, <3>8 DEF n
    <2> QED
        BY <2>2, <2>3
<1>2. TypeOK /\ [Next]_vars =>
          [pc = "align" /\ pc' = "scan" =>
               /\ Applied(log', Len(log')) = Applied(log, Len(log))
               /\ torn => Len(log') \notin Applied(log', Len(log'))]_vars
    BY <1>1
<1> QED
    BY <1>2, RecoveryTypeCorrect, PTL DEF Spec, PadIsNeutral
=============================================================================
