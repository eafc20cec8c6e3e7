-------------------------- MODULE CompactorProofs --------------------------
(* Compaction, for any number of compactors, blocks, records and           *)
(* generations: the types, what a compactor's local state stands for, and, *)
(* when the writer keeps still between a download and the overwrite, that  *)
(* only what was downloaded is replaced, that a beginning of the file is   *)
(* kept, and, where a compactor can read its copy, all of it.              *)
EXTENDS Compactor, LogFormatProofs

(* A record that no commit follows changes nothing of what is recovered.   *)
LEMMA ChainedAddsNothing ==
    ASSUME NEW log \in Seq(Record), NEW r \in Record, r.flag = Chained
    PROVE  Recovered(Append(log, r)) = Recovered(log)
<1> DEFINE n == Len(log)
           log2 == Append(log, r)
<1>1. n \in Nat /\ Len(log2) = n + 1 /\ log2[n + 1] = r /\ \A i \in 1 .. n : log2[i] = log[i]
    OBVIOUS
<1> HIDE DEF log2, n
<1>2. \A i \in n + 1 .. n + 1 : log2[i].flag # Commit
    BY <1>1 DEF Chained, Commit
<1>3. ImageOf(log2, Applied(log2, n + 1)) = ImageOf(log, Applied(log, n))
    BY <1>1, <1>2, UncommittedUnseen
<1> QED
    BY <1>1, <1>3 DEF Recovered, n, log2

-----------------------------------------------------------------------------
(* What a compactor has when it is writing: the mapping and the size of    *)
(* its copy, and in the upload one commit record for each mapped block so  *)
(* far, with the data of the copy.                                         *)

MapsCopy(c) ==
    /\ live[c] = RecoveredMap(copy[c], Len(copy[c]))
    /\ blocks[c] = CeilBlocks(RecoveredSize(copy[c], Len(copy[c])))

LiveRecord(c, r) ==
    /\ r.flag = Commit
    /\ r.block \in 0 .. block[c] - 1
    /\ live[c][r.block] # 0
    /\ r.data = copy[c][live[c][r.block]].data

UploadIsLive(c) ==
    /\ \A i \in 1 .. Len(upload[c]) : LiveRecord(c, upload[c][i])
    /\ \A b \in 0 .. block[c] - 1 : live[c][b] # 0 =>
           \E i \in 1 .. Len(upload[c]) : upload[c][i].block = b

LocalOf(c) ==
    /\ pc[c] = "writing" => MapsCopy(c) /\ UploadIsLive(c)
    /\ pc[c] # "writing" => upload[c] = <<>> /\ block[c] = 0
    /\ pc[c] # "idle" => seen[c] < MaxGenerations

LocalInv == \A c \in Compactors : LocalOf(c)

(* A compactor's part depends on its own variables only.                   *)
SameLocals(c) ==
    /\ pc'[c] = pc[c] /\ seen'[c] = seen[c] /\ copy'[c] = copy[c] /\ live'[c] = live[c]
    /\ blocks'[c] = blocks[c] /\ block'[c] = block[c] /\ upload'[c] = upload[c]

LEMMA OneMoves ==
    ASSUME LocalInv, NEW c \in Compactors, LocalOf(c)',
           \A d \in Compactors \ {c} : SameLocals(d)
    PROVE  LocalInv'
<1> SUFFICES ASSUME NEW d \in Compactors, d # c PROVE LocalOf(d)'
    BY DEF LocalInv
<1>1. SameLocals(d) /\ LocalOf(d)
    BY DEF LocalInv
<1>2. MapsCopy(d) => MapsCopy(d)'
    BY <1>1 DEF MapsCopy, SameLocals
<1>3. \A r : LiveRecord(d, r) => LiveRecord(d, r)'
    BY <1>1 DEF LiveRecord, SameLocals
<1>4. UploadIsLive(d) => UploadIsLive(d)'
    BY <1>1, <1>3 DEF UploadIsLive, SameLocals
<1> QED
    BY <1>1, <1>2, <1>4 DEF LocalOf, SameLocals

(* As long as the generation is the one seen, the copy is the object.      *)
Fresh == \A c \in Compactors :
    pc[c] \in {"downloaded", "writing"} /\ seen[c] = generation => copy[c] = object

LEMMA MapsType ==
    ASSUME NEW log \in Seq(Record)
    PROVE  /\ RecoveredMap(log, Len(log)) \in [Block -> 0 .. Len(log)]
           /\ CeilBlocks(RecoveredSize(log, Len(log))) \in 0 .. NumBlocks
           /\ Recovered(log).size \in 0 .. NumBlocks
<1> DEFINE n == Len(log)
           S == Applied(log, n)
<1>1. n \in Nat /\ S \subseteq 1 .. n /\ \A i \in 1 .. n : log[i] \in Record
    BY DEF Applied
<1> HIDE DEF n, S
<1>2. MapOf(log, S) \in [Block -> 0 .. n]
    BY <1>1, MapOfType
<1>3. SizeOf(log, S) \in 0 .. MaxSize
    BY <1>1, SizeOfType
<1>4. CeilBlocks(SizeOf(log, S)) \in 0 .. NumBlocks
    BY <1>3, CeilRange
<1>5. Recovered(log).size = CeilBlocks(SizeOf(log, S))
    BY DEF Recovered, ImageOf, Image, S, n
<1> QED
    BY <1>2, <1>4, <1>5 DEF RecoveredMap, RecoveredSize, S, n

(* The record written for a mapped block.                                  *)
LEMMA CompactedType ==
    ASSUME TypeOK, LocalInv, NEW c \in Compactors, pc[c] = "writing",
           block[c] \in Block, live[c][block[c]] # 0
    PROVE  /\ Compacted(c) \in Record
           /\ Compacted(c).flag = Commit /\ Compacted(c).block = block[c]
           /\ Compacted(c).data = copy[c][live[c][block[c]]].data
<1> DEFINE p == live[c][block[c]]
<1>1. copy[c] \in Seq(Record)
    BY DEF TypeOK
<1>2. live[c] \in [Block -> 0 .. Len(copy[c])]
    BY <1>1, MapsType DEF LocalInv, LocalOf, MapsCopy
<1>3. p \in 1 .. Len(copy[c])
    BY <1>1, <1>2
<1>4. copy[c][p] \in Record
    BY <1>1, <1>3
<1>5. copy[c][p].data \in BlockData
    BY <1>4 DEF Record
<1>6. Compacted(c) = Flagged(DataRecord(block[c], copy[c][p].data), Commit)
    BY DEF Compacted, BlockAt
<1> QED
    BY <1>5, <1>6 DEF Flagged, DataRecord, Record, SizeField, Commit

ServiceType ==
    /\ generation \in 1 .. MaxGenerations
    /\ object \in Seq(Record)
    /\ session \in 0 .. generation
    /\ committed.size \in 0 .. NumBlocks
    /\ whole \in 0 .. NumBlocks

LocalType ==
    /\ pc \in [Compactors -> {"idle", "found", "downloaded", "writing"}]
    /\ seen \in [Compactors -> 0 .. generation]
    /\ copy \in [Compactors -> Seq(Record)]
    /\ upload \in [Compactors -> Seq(Record)]
    /\ live \in [Compactors -> [Block -> Nat]]
    /\ block \in [Compactors -> 0 .. NumBlocks]
    /\ blocks \in [Compactors -> 0 .. NumBlocks]

LEMMA TypeParts ==
    /\ TypeOK <=> ServiceType /\ LocalType
    /\ TypeOK' <=> ServiceType' /\ LocalType'
    BY DEF TypeOK, ServiceType, LocalType

LEMMA LeaveType ==
    ASSUME LocalType, generation \in 1 .. MaxGenerations,
           generation' \in {generation, generation + 1},
           NEW c \in Compactors, Leave(c)
    PROVE  LocalType'
<1>1. AllHoles \in [Block -> Nat]
    BY DEF AllHoles
<1>2. generation \in Nat /\ 0 .. generation \subseteq 0 .. generation' /\ 0 \in 0 .. generation'
    OBVIOUS
<1>3. 0 \in 0 .. NumBlocks
    BY FormatAssumption
<1>4. <<>> \in Seq(Record)
    OBVIOUS
<1>5. seen' \in [Compactors -> 0 .. generation']
    BY <1>2 DEF Leave, LocalType
<1>6. /\ copy' \in [Compactors -> Seq(Record)]
      /\ upload' \in [Compactors -> Seq(Record)]
    BY <1>4 DEF Leave, LocalType
<1>7. /\ live' \in [Compactors -> [Block -> Nat]]
      /\ block' \in [Compactors -> 0 .. NumBlocks]
      /\ blocks' \in [Compactors -> 0 .. NumBlocks]
      /\ pc' \in [Compactors -> {"idle", "found", "downloaded", "writing"}]
    BY <1>1, <1>3 DEF Leave, LocalType
<1> QED
    BY <1>5, <1>6, <1>7 DEF LocalType

LEMMA LeaveLocal ==
    ASSUME TypeOK, LocalInv, NEW c \in Compactors, Leave(c)
    PROVE  LocalInv'
<1>1. pc'[c] = "idle" /\ upload'[c] = <<>> /\ block'[c] = 0
    BY DEF Leave, TypeOK
<1>2. \A d \in Compactors \ {c} : SameLocals(d)
    BY DEF Leave, TypeOK, SameLocals
<1> QED
    BY <1>1, <1>2, OneMoves DEF LocalOf

LEMMA OverwriteType ==
    ASSUME TypeOK, LocalInv, NEW c \in Compactors, pc[c] = "writing", Overwrite(c)
    PROVE  /\ generation' \in 1 .. MaxGenerations
           /\ generation' \in {generation, generation + 1}
           /\ object' \in Seq(Record)
<1>1. upload[c] \in Seq(Record) /\ object \in Seq(Record) /\ generation \in 1 .. MaxGenerations
    BY DEF TypeOK
<1>2. seen[c] < MaxGenerations
    BY DEF LocalInv, LocalOf
<1>3. MaxGenerations \in Nat
    BY CompactorAssumption
<1>4. CASE seen[c] = generation
    BY <1>1, <1>2, <1>3, <1>4 DEF Overwrite
<1>5. CASE seen[c] # generation
    BY <1>1, <1>5 DEF Overwrite, service
<1> QED
    BY <1>4, <1>5

LEMMA TypeStep ==
    ASSUME TypeOK, LocalInv, [Next]_vars
    PROVE  TypeOK'
<1> USE TypeParts
<1>0. generation \in 1 .. MaxGenerations /\ MaxGenerations \in Nat
    BY CompactorAssumption DEF TypeOK
<1>1. CASE OpenSession
    BY <1>0, <1>1 DEF OpenSession, service, local, TypeOK
<1>2. CASE Persist
    <2>1. PICK r \in Written, f \in {Chained, Commit} :
              /\ object' = Append(object, Flagged(r, f))
              /\ committed' = IF f = Commit THEN Recovered(object') ELSE committed
        BY <1>2 DEF Persist
    <2>2. Flagged(r, f) \in Record
        BY CompactorAssumption DEF Flagged, Payload, Record, Chained, Commit
    <2>3. object' \in Seq(Record)
        BY <2>1, <2>2 DEF TypeOK
    <2>4. committed'.size \in 0 .. NumBlocks
        BY <2>1, <2>3, MapsType DEF TypeOK
    <2>5. whole' \in 0 .. NumBlocks
        BY <1>2, FormatAssumption DEF Persist, TypeOK
    <2> QED
        BY <1>2, <2>3, <2>4, <2>5 DEF Persist, local, TypeOK
<1>3. CASE EndSession
    BY <1>0, <1>3 DEF EndSession, service, local, TypeOK, NoSession
<1>4. ASSUME NEW c \in Compactors, GetMetadata(c)
      PROVE  TypeOK'
    BY <1>0, <1>4, SMTT(30) DEF GetMetadata, service, writer, TypeOK
<1>5. ASSUME NEW c \in Compactors, Download(c)
      PROVE  TypeOK'
    BY <1>0, <1>5 DEF Download, service, writer, TypeOK
<1>6. ASSUME NEW c \in Compactors, DownloadNotFound(c)
      PROVE  TypeOK'
    <2>1. LocalType'
        BY <1>0, <1>6, LeaveType DEF DownloadNotFound, service
    <2> QED
        BY <1>6, <2>1 DEF DownloadNotFound, service, writer, ServiceType
<1>7. ASSUME NEW c \in Compactors, OpenUpload(c)
      PROVE  TypeOK'
    <2>1. copy[c] \in Seq(Record)
        BY DEF TypeOK
    <2>2. LiveMap(copy[c]) \in [Block -> Nat]
        BY <2>1, MapsType DEF LiveMap
    <2>3. CeilBlocks(RecoveredSize(copy[c], Len(copy[c]))) \in 0 .. NumBlocks
        BY <2>1, MapsType
    <2> QED
        BY <1>7, <2>2, <2>3 DEF OpenUpload, service, writer, TypeOK
<1>8. ASSUME NEW c \in Compactors, WriteBlock(c)
      PROVE  TypeOK'
    <2>1. pc[c] = "writing" /\ block[c] \in Block /\ block[c] + 1 \in 0 .. NumBlocks
        BY <1>8, FormatAssumption DEF WriteBlock, TypeOK, Block
    <2>2. ASSUME live[c][block[c]] # 0
          PROVE  Append(upload[c], Compacted(c)) \in Seq(Record)
        <3>1. Compacted(c) \in Record
            BY <2>1, <2>2, CompactedType
        <3>2. upload[c] \in Seq(Record)
            BY DEF TypeOK
        <3> QED
            BY <3>1, <3>2
    <2>3. upload' \in [Compactors -> Seq(Record)]
        BY <1>8, <2>2 DEF WriteBlock, TypeOK
    <2>4. block' \in [Compactors -> 0 .. NumBlocks]
        BY <1>8, <2>1 DEF WriteBlock, TypeOK
    <2> QED
        BY <1>8, <2>3, <2>4 DEF WriteBlock, service, writer, TypeOK
<1>9. ASSUME NEW c \in Compactors, Finalize(c)
      PROVE  TypeOK'
    <2>1. /\ generation' \in 1 .. MaxGenerations
          /\ generation' \in {generation, generation + 1}
          /\ object' \in Seq(Record)
        BY <1>9, OverwriteType DEF Finalize
    <2>2. LocalType'
        BY <1>0, <1>9, <2>1, LeaveType DEF Finalize
    <2>3. /\ session' \in 0 .. generation' /\ committed'.size \in 0 .. NumBlocks
          /\ whole' \in 0 .. NumBlocks
        BY <1>0, <1>9, <2>1 DEF Finalize, writer, TypeOK
    <2> QED
        BY <2>1, <2>2, <2>3 DEF ServiceType
<1>10. ASSUME NEW c \in Compactors, ReadError(c)
       PROVE  TypeOK'
    <2>1. /\ generation' \in 1 .. MaxGenerations
          /\ generation' \in {generation, generation + 1}
          /\ object' \in Seq(Record)
        BY <1>10, OverwriteType DEF ReadError
    <2>2. LocalType'
        BY <1>0, <1>10, <2>1, LeaveType DEF ReadError
    <2>3. session' \in 0 .. generation' /\ committed'.size \in 0 .. NumBlocks
        BY <1>0, <1>10, <2>1 DEF ReadError, TypeOK
    <2>4. whole' \in 0 .. NumBlocks
        BY <1>10 DEF ReadError, TypeOK
    <2> QED
        BY <2>1, <2>2, <2>3, <2>4 DEF ServiceType
<1>11. ASSUME NEW c \in Compactors, GiveUp(c)
       PROVE  TypeOK'
    <2>1. LocalType'
        BY <1>0, <1>11, LeaveType DEF GiveUp, service
    <2> QED
        BY <1>11, <2>1 DEF GiveUp, service, writer, ServiceType
<1>12. CASE UNCHANGED vars
    BY <1>12 DEF vars, service, writer, local, TypeOK
<1> QED
    BY <1>1, <1>2, <1>3, <1>4, <1>5, <1>6, <1>7, <1>8, <1>9, <1>10, <1>11, <1>12
       DEF Next, WriterStep, Compacting

LEMMA LocalStep ==
    ASSUME TypeOK, LocalInv, [Next]_vars
    PROVE  LocalInv'
<1>1. CASE UNCHANGED <<pc, local>>
    <2>1. /\ pc' = pc /\ seen' = seen /\ copy' = copy /\ live' = live
          /\ blocks' = blocks /\ block' = block /\ upload' = upload
        BY <1>1 DEF local
    <2> QED
        BY <2>1 DEF LocalInv, LocalOf, MapsCopy, UploadIsLive, LiveRecord
<1>2. ASSUME NEW c \in Compactors, GetMetadata(c)
      PROVE  LocalInv'
    <2>1. pc'[c] = "found" /\ seen'[c] < MaxGenerations
        BY <1>2 DEF GetMetadata, TypeOK
    <2>2. upload'[c] = <<>> /\ block'[c] = 0
        BY <1>2 DEF GetMetadata, LocalInv, LocalOf
    <2>3. \A d \in Compactors \ {c} : SameLocals(d)
        BY <1>2 DEF GetMetadata, TypeOK, SameLocals
    <2> QED
        BY <2>1, <2>2, <2>3, OneMoves DEF LocalOf
<1>3. ASSUME NEW c \in Compactors, Download(c)
      PROVE  LocalInv'
    <2>1. pc'[c] = "downloaded" /\ UNCHANGED <<seen, block, upload>>
        BY <1>3 DEF Download, TypeOK
    <2>2. upload'[c] = <<>> /\ block'[c] = 0 /\ seen'[c] < MaxGenerations
        BY <1>3, <2>1 DEF Download, LocalInv, LocalOf
    <2>3. \A d \in Compactors \ {c} : SameLocals(d)
        BY <1>3 DEF Download, TypeOK, SameLocals
    <2> QED
        BY <2>1, <2>2, <2>3, OneMoves DEF LocalOf
<1>4. ASSUME NEW c \in Compactors, OpenUpload(c)
      PROVE  LocalInv'
    <2>1. /\ pc'[c] = "writing" /\ UNCHANGED <<seen, copy, block, upload>>
          /\ live'[c] = LiveMap(copy[c])
          /\ blocks'[c] = CeilBlocks(RecoveredSize(copy[c], Len(copy[c])))
        BY <1>4 DEF OpenUpload, TypeOK
    <2>2. upload'[c] = <<>> /\ block'[c] = 0 /\ seen'[c] < MaxGenerations
        BY <1>4, <2>1 DEF OpenUpload, LocalInv, LocalOf
    <2>3. MapsCopy(c)'
        BY <2>1 DEF MapsCopy, LiveMap
    <2>4. UploadIsLive(c)'
        BY <2>2 DEF UploadIsLive
    <2>5. \A d \in Compactors \ {c} : SameLocals(d)
        BY <1>4 DEF OpenUpload, TypeOK, SameLocals
    <2> QED
        BY <2>1, <2>2, <2>3, <2>4, <2>5, OneMoves DEF LocalOf
<1>5. ASSUME NEW c \in Compactors, WriteBlock(c)
      PROVE  LocalInv'
    <2>1. pc[c] = "writing" /\ block[c] \in Block /\ block[c] \in Nat
        BY <1>5, FormatAssumption DEF WriteBlock, TypeOK, Block
    <2>2. upload[c] \in Seq(Record) /\ UploadIsLive(c) /\ MapsCopy(c)
        BY <2>1 DEF TypeOK, LocalInv, LocalOf
    <2>3. /\ block'[c] = block[c] + 1
          /\ upload'[c] = IF live[c][block[c]] # 0 THEN Append(upload[c], Compacted(c))
                          ELSE upload[c]
          /\ UNCHANGED <<pc, seen, copy, live, blocks>>
        BY <1>5 DEF WriteBlock, TypeOK
    <2>4. MapsCopy(c)'
        BY <2>2, <2>3 DEF MapsCopy
    <2>5. \A r : LiveRecord(c, r) => LiveRecord(c, r)'
        BY <2>1, <2>3 DEF LiveRecord
    <2>6. UploadIsLive(c)'
        <3>1. CASE live[c][block[c]] = 0
            <4>1. upload'[c] = upload[c]
                BY <2>3, <3>1
            <4>2. \A b \in 0 .. block'[c] - 1 : live[c][b] # 0 => b \in 0 .. block[c] - 1
                BY <2>1, <2>3, <3>1
            <4> QED
                BY <2>2, <2>3, <2>5, <4>1, <4>2 DEF UploadIsLive
        <3>2. CASE live[c][block[c]] # 0
            <4>1. PICK r, new, n : /\ r = Compacted(c) /\ n = Len(upload[c])
                                   /\ new = Append(upload[c], Compacted(c))
                OBVIOUS
            <4>2. /\ n \in Nat /\ Len(new) = n + 1 /\ new[n + 1] = r
                  /\ \A i \in 1 .. n : new[i] = upload[c][i]
                BY <2>2, <4>1
            <4>3. upload'[c] = new
                BY <2>3, <3>2, <4>1
            <4>4. /\ r.flag = Commit /\ r.block = block[c]
                  /\ r.data = copy[c][live[c][block[c]]].data
                BY <2>1, <3>2, <4>1, CompactedType
            <4>5. LiveRecord(c, r)'
                BY <2>1, <2>3, <3>2, <4>4 DEF LiveRecord
            <4>6. ASSUME NEW i \in 1 .. n + 1
                  PROVE  LiveRecord(c, new[i])'
                <5>1. CASE i = n + 1
                    BY <4>2, <4>5, <5>1
                <5>2. CASE i # n + 1
                    <6>1. i \in 1 .. n
                        BY <4>2, <5>2
                    <6>2. LiveRecord(c, upload[c][i])
                        BY <2>2, <4>1, <6>1 DEF UploadIsLive
                    <6>3. PICK q : q = upload[c][i]
                        OBVIOUS
                    <6>4. LiveRecord(c, q)'
                        BY <2>5, <6>2, <6>3
                    <6> QED
                        BY <4>2, <6>1, <6>3, <6>4
                <5> QED
                    BY <5>1, <5>2
            <4>7. ASSUME NEW b \in 0 .. block'[c] - 1, live[c][b] # 0
                  PROVE  \E i \in 1 .. n + 1 : new[i].block = b
                <5>1. CASE b = block[c]
                    BY <4>2, <4>4, <5>1
                <5>2. CASE b # block[c]
                    <6>1. b \in 0 .. block[c] - 1
                        BY <2>1, <2>3, <5>2
                    <6>2. PICK i \in 1 .. n : upload[c][i].block = b
                        BY <2>2, <4>1, <4>7, <6>1 DEF UploadIsLive
                    <6> QED
                        BY <4>2, <6>2
                <5> QED
                    BY <5>1, <5>2
            <4> QED
                BY <2>3, <4>2, <4>3, <4>6, <4>7 DEF UploadIsLive
        <3> QED
            BY <3>1, <3>2
    <2>7. \A d \in Compactors \ {c} : SameLocals(d)
        BY <1>5 DEF WriteBlock, TypeOK, SameLocals
    <2>8. pc'[c] = "writing" /\ seen'[c] < MaxGenerations
        BY <2>1, <2>3 DEF LocalInv, LocalOf
    <2> QED
        BY <2>4, <2>6, <2>7, <2>8, OneMoves DEF LocalOf
<1>6. ASSUME NEW c \in Compactors, Leave(c)
      PROVE  LocalInv'
    BY <1>6, LeaveLocal
<1>7. WriterStep \/ UNCHANGED vars => UNCHANGED <<pc, local>>
    BY DEF WriterStep, OpenSession, Persist, EndSession, vars
<1> QED
    BY <1>1, <1>2, <1>3, <1>4, <1>5, <1>6, <1>7
       DEF Next, Compacting, DownloadNotFound, Finalize, ReadError, GiveUp

LEMMA InitAll == Init => TypeOK /\ LocalInv
<1> SUFFICES ASSUME Init PROVE TypeOK /\ LocalInv
    OBVIOUS
<1>1. AllHoles \in [Block -> Nat] /\ 0 \in 0 .. NumBlocks /\ <<>> \in Seq(Record)
    BY FormatAssumption DEF AllHoles
<1>2. committed.size \in 0 .. NumBlocks
    <2>1. 0 \in 0 .. MaxSize
        BY MaxSizeType
    <2>2. EmptyImage.size = CeilBlocks(0)
        BY DEF EmptyImage, Image
    <2> QED
        BY <2>1, <2>2, CeilRange DEF Init
<1>3. ServiceType
    BY <1>1, <1>2, CompactorAssumption, FormatAssumption DEF Init, ServiceType, NoSession
<1>4. LocalType
    BY <1>1 DEF Init, LocalType
<1>5. LocalInv
    BY DEF Init, LocalInv, LocalOf
<1> QED
    BY <1>3, <1>4, <1>5, TypeParts

(* The variables of the object, its writer and the compactors keep their   *)
(* types: generations and blocks stay within their bounds and everything   *)
(* uploaded is a record (CompactGcsObject, WriteCompactedRecords).         *)
THEOREM TypeCorrect == Spec => []TypeOK
<1>1. Init => TypeOK /\ LocalInv
    BY InitAll
<1>2. TypeOK /\ LocalInv /\ [Next]_vars => (TypeOK /\ LocalInv)'
    BY TypeStep, LocalStep
<1> QED
    BY <1>1, <1>2, PTL DEF Spec

-----------------------------------------------------------------------------
(* A writer that keeps still while a compaction is past its download.      *)

LEMMA FreshStep ==
    ASSUME AppendsMeanwhile = FALSE, TypeOK, Fresh, [Next]_vars
    PROVE  Fresh'
<1>1. CASE Persist
    <2>1. \A c \in Compactors : pc[c] \notin {"downloaded", "writing"}
        BY <1>1 DEF Persist, MayAppend
    <2> QED
        BY <1>1, <2>1 DEF Persist, Fresh
<1>2. CASE UNCHANGED <<service, pc, local>>
    <2>1. pc' = pc /\ seen' = seen /\ copy' = copy /\ object' = object /\ generation' = generation
        BY <1>2 DEF service, local
    <2> QED
        BY <2>1 DEF Fresh
<1>3. ASSUME NEW c \in Compactors, GetMetadata(c)
      PROVE  Fresh'
    BY <1>3 DEF GetMetadata, Fresh, service, TypeOK
<1>4. ASSUME NEW c \in Compactors, Download(c)
      PROVE  Fresh'
    BY <1>4 DEF Download, Fresh, service, TypeOK
<1>5. ASSUME NEW c \in Compactors, OpenUpload(c) \/ WriteBlock(c)
      PROVE  Fresh'
    BY <1>5 DEF OpenUpload, WriteBlock, Fresh, service, TypeOK
<1>6. ASSUME NEW c \in Compactors, Leave(c), UNCHANGED service
      PROVE  Fresh'
    BY <1>6 DEF Leave, Fresh, service, TypeOK
<1>7. ASSUME NEW c \in Compactors, Leave(c), Overwrite(c), seen[c] = generation
      PROVE  Fresh'
    <2>1. generation' = generation + 1 /\ generation \in Nat
        BY <1>7 DEF Overwrite, TypeOK
    <2>2. ASSUME NEW d \in Compactors
          PROVE  seen'[d] # generation'
        BY <1>7, <2>1 DEF Leave, TypeOK
    <2> QED
        BY <2>2 DEF Fresh
<1>8. OpenSession \/ EndSession \/ UNCHANGED vars => UNCHANGED <<service, pc, local>>
    BY DEF OpenSession, EndSession, vars
<1>9. \A c \in Compactors : Overwrite(c) /\ seen[c] # generation => UNCHANGED service
    BY DEF Overwrite
<1> QED
    BY <1>1, <1>2, <1>3, <1>4, <1>5, <1>6, <1>7, <1>8, <1>9
       DEF Next, WriterStep, Compacting, DownloadNotFound, Finalize, ReadError, GiveUp

LEMMA InitFresh == Init => Fresh
    BY DEF Init, Fresh

(* With such a writer, and however many compactors race and die, the       *)
(* object a compactor replaces is the one it downloaded.                   *)
THEOREM ReplacesItsCopy ==
    ASSUME AppendsMeanwhile = FALSE
    PROVE  Spec => OverwritesWhatItRead
<1>1. Init => TypeOK /\ LocalInv /\ Fresh
    BY InitAll, InitFresh
<1>2. TypeOK /\ LocalInv /\ Fresh /\ [Next]_vars => (TypeOK /\ LocalInv /\ Fresh)'
    BY TypeStep, LocalStep, FreshStep
<1>3. TypeOK /\ LocalInv /\ Fresh /\ [Next]_vars =>
          [generation' # generation => \E c \in Compactors :
               pc[c] = "writing" /\ pc'[c] = "idle" /\ copy[c] = object]_vars
    <2> SUFFICES ASSUME TypeOK, Fresh, Next, generation' # generation
                 PROVE  \E c \in Compactors :
                            pc[c] = "writing" /\ pc'[c] = "idle" /\ copy[c] = object
        OBVIOUS
    <2>1. PICK c \in Compactors : pc[c] = "writing" /\ Overwrite(c) /\ Leave(c)
        BY DEF Next, WriterStep, Compacting, OpenSession, Persist, EndSession, GetMetadata,
               Download, DownloadNotFound, OpenUpload, WriteBlock, Finalize, ReadError,
               GiveUp, service
    <2>2. seen[c] = generation
        BY <2>1 DEF Overwrite, service
    <2>3. pc'[c] = "idle"
        BY <2>1 DEF Leave, TypeOK
    <2> QED
        BY <2>1, <2>2, <2>3 DEF Fresh
<1> QED
    BY <1>1, <1>2, <1>3, PTL DEF Spec, OverwritesWhatItRead

-----------------------------------------------------------------------------
(* The contents.                                                           *)

(* The data and the size in blocks that a log leaves.                      *)
LEMMA RecoveredIs ==
    ASSUME NEW log
    PROVE  /\ Recovered(log).data = [u \in 0 .. MaxSize - 1 |->
                  BlockAt(log, RecoveredMap(log, Len(log))[u \div BlockUnits])[u % BlockUnits]]
           /\ Recovered(log).size = CeilBlocks(RecoveredSize(log, Len(log)))
<1> DEFINE S == Applied(log, Len(log))
           At(b) == BlockAt(log, LastOf(LiveWrites(log, S, b)))
<1> HIDE DEF S
<1>1. \A b \in Block : MapOf(log, S)[b] = LastOf(LiveWrites(log, S, b))
    BY DEF MapOf
<1>2. /\ ImageOf(log, S).data = [u \in 0 .. MaxSize - 1 |-> At(u \div BlockUnits)[u % BlockUnits]]
      /\ ImageOf(log, S).size = CeilBlocks(SizeOf(log, S))
    BY DEF ImageOf, Image
<1>3. \A u \in 0 .. MaxSize - 1 : At(u \div BlockUnits)
                                 = BlockAt(log, MapOf(log, S)[u \div BlockUnits])
    BY <1>1, UnitsBlock
<1> HIDE DEF At
<1> QED
    BY <1>2, <1>3 DEF S, Recovered, RecoveredMap, RecoveredSize

LEMMA RecoveredUnit ==
    ASSUME NEW log
    PROVE  /\ \A u \in 0 .. MaxSize - 1 : Recovered(log).data[u]
                  = BlockAt(log, RecoveredMap(log, Len(log))[u \div BlockUnits])[u % BlockUnits]
           /\ Recovered(log).data = [u \in 0 .. MaxSize - 1 |-> Recovered(log).data[u]]
<1> DEFINE At(u) == BlockAt(log, RecoveredMap(log, Len(log))[u \div BlockUnits])[u % BlockUnits]
<1>1. Recovered(log).data = [u \in 0 .. MaxSize - 1 |-> At(u)]
    BY RecoveredIs
<1> HIDE DEF At
<1>2. \A u \in 0 .. MaxSize - 1 : Recovered(log).data[u] = At(u)
    BY <1>1
<1>3. Recovered(log).data = [u \in 0 .. MaxSize - 1 |-> Recovered(log).data[u]]
    BY <1>1, <1>2
<1> QED
    BY <1>2, <1>3 DEF At

(* What an upload holds so far recovers as the blocks that the loop has    *)
(* passed: they are those of the copy, and the size is theirs unless the   *)
(* last of them is a hole.                                                 *)
LEMMA UploadBlocks ==
    ASSUME TypeOK, LocalInv, NEW c \in Compactors, pc[c] = "writing"
    PROVE  /\ \A b \in Block :
                  BlockAt(upload[c], RecoveredMap(upload[c], Len(upload[c]))[b])
                      = IF b < block[c] THEN BlockAt(copy[c], live[c][b]) ELSE ZeroBlock
           /\ Recovered(upload[c]).size \in 0 .. block[c]
           /\ \/ Recovered(upload[c]).size = block[c]
              \/ block[c] > 0 /\ live[c][block[c] - 1] = 0
<1>1. PICK log, n, old, map, m : /\ log = upload[c] /\ n = Len(log) /\ old = copy[c]
                                 /\ map = live[c] /\ m = block[c]
    OBVIOUS
<1>2. log \in Seq(Record) /\ n \in Nat /\ old \in Seq(Record) /\ m \in 0 .. NumBlocks
    BY <1>1 DEF TypeOK
<1>3. ASSUME NEW i \in 1 .. n
      PROVE  /\ log[i].flag = Commit /\ log[i].block \in 0 .. m - 1
             /\ map[log[i].block] # 0 /\ log[i].data = old[map[log[i].block]].data
    BY <1>1, <1>3 DEF LocalInv, LocalOf, UploadIsLive, LiveRecord
<1>4. \A b \in 0 .. m - 1 : map[b] # 0 => \E i \in 1 .. n : log[i].block = b
    BY <1>1 DEF LocalInv, LocalOf, UploadIsLive
<1> DEFINE S == 1 .. n
<1>5. Applied(log, n) = S
    <2>1. ASSUME NEW i \in 1 .. n
          PROVE  AppliedUpTo(log, n, i)
        <3>1. i \in i .. n /\ log[i].flag = Commit
            BY <1>2, <1>3
        <3>2. \A k \in i .. (i - 1) : log[k].flag = Chained
            OBVIOUS
        <3> QED
            BY <3>1, <3>2 DEF AppliedUpTo
    <2> QED
        BY <2>1 DEF Applied
<1>6. ASSUME NEW i \in S
      PROVE  ~IsTruncate(log[i]) /\ log[i].block # Metadata
    BY <1>2, <1>3 DEF IsTruncate, Metadata
<1>7. ASSUME NEW b
       PROVE  LiveWrites(log, S, b) = {i \in S : log[i].block = b}
    BY <1>6 DEF LiveWrites, Cuts
<1>8. ASSUME NEW b \in Block
       PROVE  BlockAt(log, MapOf(log, S)[b])
                 = IF b < m THEN BlockAt(old, map[b]) ELSE ZeroBlock
    <2> DEFINE L == {i \in S : log[i].block = b}
    <2>1. MapOf(log, S)[b] = LastOf(L)
        BY <1>7 DEF MapOf
    <2>2. CASE b < m /\ map[b] # 0
        <3>0. b \in 0 .. m - 1
            BY <1>2, <2>2, FormatAssumption DEF Block
        <3>1. PICK i \in S : log[i].block = b
            BY <1>4, <2>2, <3>0
        <3>2. i \in L /\ L \subseteq 1 .. n
            BY <3>1
        <3> HIDE DEF L
        <3>3. L \subseteq 0 .. n
            BY <1>2, <3>2
        <3>4. LastOf(L) \in L \cup {0} /\ i <= LastOf(L)
            BY <1>2, <3>2, <3>3, LastOfBound
        <3>5. LastOf(L) \in L /\ LastOf(L) # 0
            BY <1>2, <3>2, <3>4
        <3>6. LastOf(L) \in S /\ log[LastOf(L)].block = b
            BY <3>5 DEF L
        <3>7. log[LastOf(L)].data = old[map[b]].data
            BY <1>3, <3>6
        <3> QED
            BY <2>1, <2>2, <3>5, <3>7 DEF BlockAt
    <2>3. CASE ~(b < m /\ map[b] # 0)
        <3>1. L = {}
            BY <1>2, <1>3, <2>3
        <3> QED
            BY <2>1, <2>3, <3>1, LastOfNone DEF BlockAt
    <2> QED
        BY <2>2, <2>3
<1>9. Recovered(log).size = CeilBlocks(SizeOf(log, S)) /\ RecoveredMap(log, n) = MapOf(log, S)
    BY <1>1, <1>5, RecoveredIs DEF RecoveredSize, RecoveredMap
<1>10. SizeOf(log, S) = LastOf({Extent(log[i]) : i \in S})
    <2>1. {k \in S : \A l \in S : l > k => ~IsTruncate(log[l])} = S
        BY <1>6
    <2> QED
        BY <2>1 DEF SizeOf
<1> DEFINE E == {Extent(log[i]) : i \in S}
<1>11. E \subseteq 0 .. MaxSize
    <2>1. \A j \in S : log[j] \in Record
        BY <1>1, <1>2
    <2> QED
        BY <2>1, ExtentRange
<1>12. \A j \in S : Extent(log[j]) = (log[j].block + 1) * BlockUnits
    BY <1>6 DEF Extent
<1>13. \A y \in E : y <= m * BlockUnits
    <2> SUFFICES ASSUME NEW j \in S
                 PROVE  Extent(log[j]) <= m * BlockUnits
        OBVIOUS
    <2>1. log[j].block + 1 \in Nat /\ log[j].block + 1 <= m /\ m \in Nat
        BY <1>2, <1>3
    <2>2. (log[j].block + 1) * BlockUnits <= m * BlockUnits
        BY <2>1, Monotonic, FormatAssumption
    <2> QED
        BY <1>12, <2>2
<1>14. m > 0 /\ map[m - 1] # 0 => m * BlockUnits \in E
    <2> SUFFICES ASSUME m > 0, map[m - 1] # 0
                 PROVE  m * BlockUnits \in E
        OBVIOUS
    <2>0. m - 1 \in 0 .. m - 1
        BY <1>2
    <2>1. PICK i \in S : log[i].block = m - 1
        BY <1>4, <2>0
    <2>2. log[i].block + 1 = m
        BY <1>2, <2>1
    <2>3. Extent(log[i]) = m * BlockUnits
        BY <1>12, <2>2
    <2> QED
        BY <2>3
<1> HIDE DEF E
<1>15. CeilBlocks(m * BlockUnits) = m /\ m * BlockUnits \in 0 .. MaxSize
    <2>1. m * BlockUnits \in Nat /\ m * BlockUnits <= NumBlocks * BlockUnits
        BY <1>2, Monotonic, FormatAssumption
    <2> QED
        BY <1>2, <2>1, CeilOfBlocks, MaxSizeType, FormatAssumption DEF MaxSize
<1>16. LastOf(E) \in 0 .. m * BlockUnits
    <2>1. PICK k \in Nat : k = m * BlockUnits
        BY <1>15
    <2>2. E \subseteq 0 .. k
        BY <1>11, <1>13, <2>1, MaxSizeType
    <2>3. LastOf(E) \in E \cup {0}
        BY <2>2, LastOfBound
    <2>4. E \cup {0} \subseteq 0 .. k
        BY <2>2
    <2> QED
        BY <2>1, <2>3, <2>4
<1>17. Recovered(log).size = CeilBlocks(LastOf(E))
    BY <1>9, <1>10 DEF E
<1>18. Recovered(log).size \in 0 .. m
    <2>1. LastOf(E) \in 0 .. MaxSize /\ LastOf(E) <= m * BlockUnits
        BY <1>15, <1>16, MaxSizeType
    <2>2. CeilBlocks(LastOf(E)) <= CeilBlocks(m * BlockUnits)
        BY <1>15, <2>1, CeilMonotonic
    <2>3. CeilBlocks(LastOf(E)) \in 0 .. NumBlocks
        BY <2>1, CeilRange
    <2> QED
        BY <1>2, <1>15, <1>17, <2>2, <2>3
<1>19. m > 0 /\ map[m - 1] # 0 => Recovered(log).size = m
    <2> SUFFICES ASSUME m > 0, map[m - 1] # 0
                 PROVE  Recovered(log).size = m
        OBVIOUS
    <2>1. LastOf(E) = m * BlockUnits
        BY <1>11, <1>13, <1>14, MaxSizeType, LastOfIs
    <2> QED
        BY <1>15, <1>17, <2>1
<1>20. Recovered(log).size = m \/ (m > 0 /\ map[m - 1] = 0)
    BY <1>2, <1>18, <1>19
<1> QED
    BY <1>1, <1>8, <1>9, <1>18, <1>20

(* The blocks of a copy that lie within its size; beyond it it has none.   *)
LEMMA CopyBlocks ==
    ASSUME TypeOK, LocalInv, NEW c \in Compactors, pc[c] = "writing"
    PROVE  /\ live[c] = RecoveredMap(copy[c], Len(copy[c]))
           /\ Recovered(copy[c]).size = blocks[c]
           /\ \A b \in Block : b >= blocks[c] => live[c][b] = 0
<1>1. PICK old, map, m : old = copy[c] /\ map = live[c] /\ m = blocks[c]
    OBVIOUS
<1>2. old \in Seq(Record) /\ m \in 0 .. NumBlocks
    BY <1>1 DEF TypeOK
<1>3. map = RecoveredMap(old, Len(old)) /\ m = CeilBlocks(RecoveredSize(old, Len(old)))
    BY <1>1 DEF LocalInv, LocalOf, MapsCopy
<1>4. ASSUME NEW b \in Block, map[b] # 0
      PROVE  b < m
    <2>1. PICK k \in Nat : k = Len(old)
        BY <1>2
    <2>2. Applied(old, k) \subseteq 1 .. k /\ \A i \in Applied(old, k) : old[i] \in Record
        BY <1>2, <2>1 DEF Applied
    <2>3. MapOf(old, Applied(old, k))[b] # 0
        BY <1>3, <1>4, <2>1 DEF RecoveredMap
    <2>4. b < CeilBlocks(SizeOf(old, Applied(old, k)))
        BY <2>2, <2>3, MappedWithin
    <2> QED
        BY <1>3, <2>1, <2>4 DEF RecoveredSize
<1>5. \A b \in Block : b >= m => map[b] = 0
    BY <1>2, <1>4, FormatAssumption DEF Block
<1> QED
    BY <1>1, <1>3, <1>5, RecoveredIs

(* An upload, finished or not, recovers as its copy up to the block that   *)
(* the loop has reached, and as zero from there on.                        *)
LEMMA UploadData ==
    ASSUME TypeOK, LocalInv, NEW c \in Compactors, pc[c] = "writing"
    PROVE  Recovered(upload[c]).data =
               [u \in 0 .. MaxSize - 1 |->
                   IF u < block[c] * BlockUnits THEN Recovered(copy[c]).data[u] ELSE Zero]
<1>1. PICK m \in 0 .. NumBlocks : m = block[c]
    BY DEF TypeOK
<1>2. ASSUME NEW u \in 0 .. MaxSize - 1
      PROVE  Recovered(upload[c]).data[u]
                 = IF u < m * BlockUnits THEN Recovered(copy[c]).data[u] ELSE Zero
    <2>1. PICK b \in Block, r \in 0 .. BlockUnits - 1 : b = u \div BlockUnits /\ r = u % BlockUnits
        BY UnitsBlock, FormatAssumption, MaxSizeType
    <2>2. Recovered(upload[c]).data[u]
              = BlockAt(upload[c], RecoveredMap(upload[c], Len(upload[c]))[b])[r]
        BY <2>1, RecoveredUnit
    <2>3. Recovered(copy[c]).data[u] = BlockAt(copy[c], live[c][b])[r]
        <3>1. Recovered(copy[c]).data[u]
                  = BlockAt(copy[c], RecoveredMap(copy[c], Len(copy[c]))[b])[r]
            BY <2>1, RecoveredUnit
        <3> QED
            BY <3>1, CopyBlocks
    <2>4. u < m * BlockUnits <=> b < m
        BY <1>1, <2>1, UnitBelow, MaxSizeType, FormatAssumption
    <2>5. CASE b < m
        BY <1>1, <2>2, <2>3, <2>4, <2>5, UploadBlocks
    <2>6. CASE ~(b < m)
        <3>1. BlockAt(upload[c], RecoveredMap(upload[c], Len(upload[c]))[b]) = ZeroBlock
            BY <1>1, <2>6, UploadBlocks
        <3> QED
            BY <2>2, <2>4, <2>6, <3>1 DEF ZeroBlock
    <2> QED
        BY <2>5, <2>6
<1>3. Recovered(upload[c]).data = [u \in 0 .. MaxSize - 1 |-> Recovered(upload[c]).data[u]]
    BY RecoveredUnit
<1> QED
    BY <1>1, <1>2, <1>3

(* A finished upload recovers as what it was made from: the data are the   *)
(* same and so is the size, unless the last block is a hole.               *)
LEMMA UploadRecovers ==
    ASSUME TypeOK, LocalInv, NEW c \in Compactors, pc[c] = "writing", block[c] = blocks[c]
    PROVE  /\ Recovered(upload[c]).data = Recovered(copy[c]).data
           /\ \/ Recovered(upload[c]).size = blocks[c]
              \/ /\ blocks[c] > 0 /\ live[c][blocks[c] - 1] = 0
           /\ Recovered(copy[c]).size = blocks[c]
<1>1. ASSUME NEW b \in Block
      PROVE  BlockAt(upload[c], RecoveredMap(upload[c], Len(upload[c]))[b])
                 = BlockAt(copy[c], RecoveredMap(copy[c], Len(copy[c]))[b])
    <2>1. CASE b < blocks[c]
        BY <2>1, UploadBlocks, CopyBlocks
    <2>2. CASE ~(b < blocks[c])
        <3>1. b >= blocks[c]
            <4>1. b \in Int /\ blocks[c] \in Int
                BY FormatAssumption DEF Block, TypeOK
            <4> QED
                BY <2>2, <4>1
        <3>2. live[c][b] = 0
            BY <3>1, CopyBlocks
        <3> QED
            BY <2>2, <3>2, UploadBlocks, CopyBlocks DEF BlockAt
    <2> QED
        BY <2>1, <2>2
<1>2. Recovered(upload[c]).data = Recovered(copy[c]).data
    <2>1. ASSUME NEW u \in 0 .. MaxSize - 1
          PROVE  Recovered(upload[c]).data[u] = Recovered(copy[c]).data[u]
        <3>1. Recovered(upload[c]).data[u]
                  = BlockAt(upload[c], RecoveredMap(upload[c], Len(upload[c]))
                                           [u \div BlockUnits])[u % BlockUnits]
            BY RecoveredUnit
        <3>2. Recovered(copy[c]).data[u]
                  = BlockAt(copy[c], RecoveredMap(copy[c], Len(copy[c]))
                                         [u \div BlockUnits])[u % BlockUnits]
            BY RecoveredUnit
        <3> QED
            BY <1>1, <3>1, <3>2, UnitsBlock
    <2>2. PICK f, g : f = Recovered(upload[c]).data /\ g = Recovered(copy[c]).data
        OBVIOUS
    <2>3. /\ f = [u \in 0 .. MaxSize - 1 |-> f[u]]
          /\ g = [u \in 0 .. MaxSize - 1 |-> g[u]]
        BY <2>2, RecoveredUnit
    <2> QED
        BY <2>1, <2>2, <2>3
<1> QED
    BY <1>2, UploadBlocks, CopyBlocks

(* The units of a last block that is a hole read as zero.                  *)
LEMMA LastHoleIsZero ==
    ASSUME NEW log, NEW m \in 1 .. NumBlocks, RecoveredMap(log, Len(log))[m - 1] = 0
    PROVE  \A u \in (m - 1) * BlockUnits .. m * BlockUnits - 1 :
               Recovered(log).data[u] = Zero
<1> SUFFICES ASSUME NEW u \in (m - 1) * BlockUnits .. m * BlockUnits - 1
             PROVE  Recovered(log).data[u] = Zero
    OBVIOUS
<1>1. PICK q \in Nat : q = m - 1 /\ q + 1 <= NumBlocks
    BY FormatAssumption
<1>2. m * BlockUnits = q * BlockUnits + BlockUnits /\ q * BlockUnits \in Nat
    BY <1>1, FormatAssumption
<1>3. u \in q * BlockUnits .. q * BlockUnits + BlockUnits - 1
    <2>1. (m - 1) * BlockUnits = q * BlockUnits
        BY <1>1
    <2>2. u \in q * BlockUnits .. m * BlockUnits - 1
        BY <2>1
    <2>3. PICK k \in Nat : k = BlockUnits
        BY FormatAssumption
    <2>4. PICK w \in Nat : w = q * BlockUnits
        BY <1>2
    <2>5. m * BlockUnits = w + k
        BY <1>2, <2>3, <2>4
    <2>6. u \in w .. w + k - 1
        BY <2>2, <2>4, <2>5
    <2> QED
        BY <2>3, <2>4, <2>6
<1>4. u \div BlockUnits = q /\ u % BlockUnits \in 0 .. BlockUnits - 1
    BY <1>3, UnitsOfBlock, FormatAssumption
<1>5. (q + 1) * BlockUnits <= NumBlocks * BlockUnits
    BY <1>1, Monotonic, FormatAssumption
<1>6. (q + 1) * BlockUnits = q * BlockUnits + BlockUnits
    BY FormatAssumption
<1>7. u \in 0 .. MaxSize - 1
    BY <1>2, <1>3, <1>5, <1>6, MaxSizeType, FormatAssumption DEF MaxSize
<1>8. Recovered(log).data[u]
          = BlockAt(log, RecoveredMap(log, Len(log))[u \div BlockUnits])[u % BlockUnits]
    BY <1>7, RecoveredUnit
<1> QED
    BY <1>1, <1>4, <1>8 DEF BlockAt, ZeroBlock

LEMMA FinalizeKeeps ==
    ASSUME TypeOK, LocalInv, Fresh, ContentsKept,
           NEW c \in Compactors, Finalize(c)
    PROVE  ContentsKept'
<1>1. pc[c] = "writing" /\ block[c] = blocks[c] /\ committed' = committed
    BY DEF Finalize, writer
<1>2. CASE seen[c] # generation
    <2>1. object' = object
        BY <1>2 DEF Finalize, Overwrite, service
    <2> QED
        BY <1>1, <2>1 DEF ContentsKept
<1>3. CASE seen[c] = generation
    <2>1. object' = upload[c] /\ copy[c] = object
        BY <1>1, <1>3 DEF Finalize, Overwrite, Fresh
    <2>2. Recovered(object').data = committed'.data
        BY <1>1, <2>1, UploadRecovers DEF ContentsKept
    <2>3. Recovered(object).size = blocks[c] /\ blocks[c] \in 0 .. NumBlocks
        BY <1>1, <2>1, UploadRecovers DEF TypeOK
    <2>4. CASE Recovered(object').size = blocks[c] \/ Recovered(object).size # committed.size
        BY <1>1, <2>2, <2>3, <2>4 DEF ContentsKept
    <2>5. CASE /\ blocks[c] > 0 /\ live[c][blocks[c] - 1] = 0
               /\ Recovered(object).size = committed.size
        <3>1. live[c] = RecoveredMap(object, Len(object))
            BY <1>1, <2>1 DEF LocalInv, LocalOf, MapsCopy
        <3>2. committed.size = blocks[c] /\ blocks[c] \in 1 .. NumBlocks
            BY <2>3, <2>5
        <3>3. \A u \in (blocks[c] - 1) * BlockUnits .. blocks[c] * BlockUnits - 1 :
                  Recovered(object).data[u] = Zero
            BY <2>5, <3>1, <3>2, LastHoleIsZero
        <3>4. \A u \in (committed.size - 1) * BlockUnits .. committed.size * BlockUnits - 1 :
                  committed.data[u] = Zero
            BY <3>2, <3>3 DEF ContentsKept
        <3> QED
            BY <1>1, <2>2, <3>4 DEF ContentsKept
    <2> QED
        BY <1>1, <2>1, <2>4, <2>5, UploadRecovers
<1> QED
    BY <1>2, <1>3

LEMMA ContentsStep ==
    ASSUME CopyReadsFail = FALSE, TypeOK, LocalInv, Fresh, ContentsKept, [Next]_vars
    PROVE  ContentsKept'
<1>1. CASE Persist
    <2>1. PICK r \in Written, f \in {Chained, Commit} :
              /\ object' = Append(object, Flagged(r, f))
              /\ committed' = IF f = Commit THEN Recovered(object') ELSE committed
        BY <1>1 DEF Persist
    <2>2. CASE f = Commit
        BY <2>1, <2>2 DEF ContentsKept
    <2>3. CASE f # Commit
        <3>1. Flagged(r, f) \in Record /\ Flagged(r, f).flag = Chained
            BY <2>3, CompactorAssumption DEF Flagged, Payload, Record, Chained, Commit
        <3>2. Recovered(object') = Recovered(object)
            BY <2>1, <3>1, ChainedAddsNothing DEF TypeOK
        <3> QED
            BY <2>1, <2>3, <3>2 DEF ContentsKept
    <2> QED
        BY <2>2, <2>3
<1>2. CASE object' = object /\ committed' = committed
    BY <1>2 DEF ContentsKept
<1>3. ASSUME NEW c \in Compactors, Finalize(c)
      PROVE  ContentsKept'
    BY <1>3, FinalizeKeeps
<1> QED
    BY <1>1, <1>2, <1>3
       DEF Next, WriterStep, Compacting, OpenSession, EndSession, GetMetadata, Download,
           DownloadNotFound, OpenUpload, WriteBlock, ReadError, GiveUp, vars, service, writer

LEMMA InitContents == Init => Recovered(object) = committed
<1> SUFFICES ASSUME Init PROVE Recovered(object) = committed
    OBVIOUS
<1>1. object = <<>> /\ Len(object) = 0 /\ committed = EmptyImage
    BY DEF Init
<1>2. Applied(object, 0) = {}
    BY DEF Applied
<1>3. \A b : LastOf(LiveWrites(object, {}, b)) = 0
    <2>1. \A b : LiveWrites(object, {}, b) = {}
        BY DEF LiveWrites
    <2> QED
        BY <2>1, LastOfNone
<1>4. SizeOf(object, {}) = 0
    <2>1. {Extent(object[i]) : i \in {k \in {} : \A l \in {} : l > k => ~IsTruncate(object[l])}} = {}
        OBVIOUS
    <2> QED
        BY <2>1, LastOfNone DEF SizeOf
<1>5. Recovered(object) = EmptyImage
    BY <1>1, <1>2, <1>3, <1>4 DEF Recovered, ImageOf, BlockAt, EmptyImage, Image, Hole
<1> QED
    BY <1>1, <1>5

(* With such a writer, and compactors that can read their copies, a        *)
(* compaction keeps the file: whatever compactors race, fail or die, an    *)
(* open finds the data of the last commit, and the size too unless the     *)
(* last block is a hole.                                                   *)
THEOREM KeepsContents ==
    ASSUME AppendsMeanwhile = FALSE, CopyReadsFail = FALSE
    PROVE  Spec => []ContentsKept
<1> DEFINE All == TypeOK /\ LocalInv /\ Fresh /\ ContentsKept
<1>1. Init => All
    BY InitAll, InitFresh, InitContents DEF ContentsKept
<1>2. All /\ [Next]_vars => All'
    BY TypeStep, LocalStep, FreshStep, ContentsStep
<1> QED
    BY <1>1, <1>2, PTL DEF Spec

-----------------------------------------------------------------------------
(* The contents when a compactor may fail to read its copy.                *)

(* The file that is image's up to block n and zero from there on.          *)
Beginning(image, n) ==
    [u \in 0 .. MaxSize - 1 |-> IF u < n * BlockUnits THEN image.data[u] ELSE Zero]

LEMMA BeginningIs ==
    /\ BeginningKept <=> /\ Recovered(object).data = Beginning(committed, whole)
                         /\ Recovered(object).size <= committed.size
                         /\ whole = NumBlocks => ContentsKept
    /\ BeginningKept' <=> /\ Recovered(object').data = Beginning(committed', whole')
                          /\ Recovered(object').size <= committed'.size
                          /\ whole' = NumBlocks => ContentsKept'
    BY DEF BeginningKept, Beginning

(* A beginning of a beginning is one.                                      *)
LEMMA BeginningOfBeginning ==
    ASSUME NEW image, NEW part, NEW m \in 0 .. NumBlocks, NEW n \in 0 .. NumBlocks,
           NEW k \in {m, n}, k <= m, k <= n, part.data = Beginning(image, n)
    PROVE  Beginning(part, m) = Beginning(image, k)
<1>1. /\ m * BlockUnits \in Nat /\ n * BlockUnits \in Nat
      /\ k * BlockUnits \in {m * BlockUnits, n * BlockUnits}
      /\ k * BlockUnits <= m * BlockUnits /\ k * BlockUnits <= n * BlockUnits
    BY Monotonic, FormatAssumption
<1>2. ASSUME NEW u \in 0 .. MaxSize - 1
      PROVE  u < k * BlockUnits <=> u < m * BlockUnits /\ u < n * BlockUnits
    BY <1>1, MaxSizeType
<1>3. \A u \in 0 .. MaxSize - 1 :
          part.data[u] = IF u < n * BlockUnits THEN image.data[u] ELSE Zero
    BY DEF Beginning
<1> QED
    BY <1>2, <1>3 DEF Beginning

(* What a compactor that took the object's place left of its contents.     *)
LEMMA OverwriteKeepsBeginning ==
    ASSUME TypeOK, LocalInv, Fresh, BeginningKept, NEW c \in Compactors,
           pc[c] = "writing", block[c] <= blocks[c], Overwrite(c), seen[c] = generation
    PROVE  /\ Recovered(object').data = Beginning(Recovered(object), block[c])
           /\ Recovered(object').size <= committed.size
<1>1. object' = upload[c] /\ copy[c] = object
    BY DEF Overwrite, Fresh
<1>2. PICK m \in 0 .. NumBlocks : m = block[c]
    BY DEF TypeOK
<1>3. Recovered(object').data = Beginning(Recovered(object), m)
    BY <1>1, <1>2, UploadData DEF Beginning
<1>4. Recovered(object').size \in 0 .. m
    BY <1>1, <1>2, UploadBlocks
<1>5. Recovered(object).size = blocks[c] /\ blocks[c] \in 0 .. NumBlocks
    BY <1>1, CopyBlocks DEF TypeOK
<1>6. Recovered(object).size <= committed.size /\ committed.size \in 0 .. NumBlocks
    BY BeginningIs DEF TypeOK
<1> QED
    BY <1>2, <1>3, <1>4, <1>5, <1>6, FormatAssumption

LEMMA ReadErrorKeeps ==
    ASSUME TypeOK, LocalInv, Fresh, BeginningKept, NEW c \in Compactors, ReadError(c)
    PROVE  BeginningKept'
<1>1. /\ pc[c] = "writing" /\ block[c] < blocks[c] /\ Overwrite(c) /\ committed' = committed
      /\ whole' = IF seen[c] = generation /\ block[c] < whole THEN block[c] ELSE whole
    BY DEF ReadError
<1>2. CASE seen[c] # generation
    <2>1. object' = object /\ whole' = whole
        BY <1>1, <1>2 DEF Overwrite, service
    <2> QED
        BY <1>1, <2>1 DEF BeginningKept, ContentsKept
<1>3. CASE seen[c] = generation
    <2>1. PICK m \in 0 .. NumBlocks, n \in 0 .. NumBlocks, l \in 0 .. NumBlocks :
              m = block[c] /\ n = whole /\ l = blocks[c]
        BY DEF TypeOK
    <2>2. m < l /\ whole' = IF m < n THEN m ELSE n
        BY <1>1, <1>3, <2>1
    <2>3. whole' \in {m, n} /\ whole' <= m /\ whole' <= n /\ whole' # NumBlocks
        BY <2>1, <2>2, FormatAssumption
    <2>4. block[c] <= blocks[c]
        BY <2>1, <2>2
    <2>5. /\ Recovered(object').data = Beginning(Recovered(object), m)
          /\ Recovered(object').size <= committed.size
        BY <1>1, <1>3, <2>1, <2>4, OverwriteKeepsBeginning
    <2>6. Recovered(object).data = Beginning(committed, n)
        BY <2>1, BeginningIs
    <2>7. Beginning(Recovered(object), m) = Beginning(committed, whole')
        BY <2>3, <2>6, BeginningOfBeginning
    <2> QED
        BY <1>1, <2>3, <2>5, <2>7, BeginningIs
<1> QED
    BY <1>2, <1>3

LEMMA FinalizeKeepsBeginning ==
    ASSUME TypeOK, LocalInv, Fresh, BeginningKept, NEW c \in Compactors, Finalize(c)
    PROVE  BeginningKept'
<1>1. /\ pc[c] = "writing" /\ block[c] = blocks[c] /\ Overwrite(c)
      /\ committed' = committed /\ whole' = whole
    BY DEF Finalize, writer
<1>2. CASE seen[c] # generation
    <2>1. object' = object
        BY <1>1, <1>2 DEF Overwrite, service
    <2> QED
        BY <1>1, <2>1 DEF BeginningKept, ContentsKept
<1>3. CASE seen[c] = generation
    <2>1. object' = upload[c] /\ copy[c] = object
        BY <1>1, <1>3 DEF Overwrite, Fresh
    <2>2. Recovered(object').data = Recovered(object).data
        BY <1>1, <2>1, UploadRecovers
    <2>3. block[c] <= blocks[c]
        BY <1>1, FormatAssumption DEF TypeOK
    <2>4. Recovered(object').size <= committed.size
        BY <1>1, <1>3, <2>3, OverwriteKeepsBeginning
    <2>5. whole = NumBlocks => ContentsKept'
        BY BeginningIs, FinalizeKeeps
    <2> QED
        BY <1>1, <2>2, <2>4, <2>5, BeginningIs
<1> QED
    BY <1>2, <1>3

(* What a commit leaves is kept as a whole.                                *)
LEMMA AllIsABeginning ==
    ASSUME NEW log \in Seq(Record)
    PROVE  /\ Recovered(log).size <= Recovered(log).size
           /\ Recovered(log).data = Beginning(Recovered(log), NumBlocks)
<1>1. \A u \in 0 .. MaxSize - 1 : u < NumBlocks * BlockUnits
    BY MaxSizeType DEF MaxSize
<1>2. Recovered(log).data = [u \in 0 .. MaxSize - 1 |-> Recovered(log).data[u]]
    BY RecoveredUnit
<1>3. Recovered(log).data = Beginning(Recovered(log), NumBlocks)
    BY <1>1, <1>2 DEF Beginning
<1> QED
    BY <1>3, MapsType, FormatAssumption

LEMMA PersistKeepsBeginning ==
    ASSUME TypeOK, BeginningKept, Persist, TypeOK'
    PROVE  BeginningKept'
<1>1. PICK r \in Written, f \in {Chained, Commit} :
          /\ object' = Append(object, Flagged(r, f))
          /\ committed' = IF f = Commit THEN Recovered(object') ELSE committed
          /\ whole' = IF f = Commit THEN NumBlocks ELSE whole
    BY DEF Persist
<1>2. CASE f = Commit
    <2>1. committed' = Recovered(object') /\ whole' = NumBlocks /\ object' \in Seq(Record)
        BY <1>1, <1>2 DEF TypeOK
    <2>2. /\ committed'.size <= committed'.size
          /\ committed'.data = Beginning(committed', NumBlocks)
        BY <2>1, AllIsABeginning
    <2>3. ContentsKept'
        BY <2>1 DEF ContentsKept
    <2> QED
        BY <2>1, <2>2, <2>3, BeginningIs
<1>3. CASE f # Commit
    <2>1. Flagged(r, f) \in Record /\ Flagged(r, f).flag = Chained
        BY <1>3, CompactorAssumption DEF Flagged, Payload, Record, Chained, Commit
    <2>2. Recovered(object') = Recovered(object)
        BY <1>1, <2>1, ChainedAddsNothing DEF TypeOK
    <2> QED
        BY <1>1, <1>3, <2>2 DEF BeginningKept, ContentsKept
<1> QED
    BY <1>2, <1>3

LEMMA BeginningStep ==
    ASSUME TypeOK, LocalInv, Fresh, BeginningKept, [Next]_vars, TypeOK'
    PROVE  BeginningKept'
<1>1. CASE Persist
    BY <1>1, PersistKeepsBeginning
<1>2. CASE object' = object /\ committed' = committed /\ whole' = whole
    BY <1>2 DEF BeginningKept, ContentsKept
<1>3. ASSUME NEW c \in Compactors, Finalize(c) \/ ReadError(c)
      PROVE  BeginningKept'
    BY <1>3, FinalizeKeepsBeginning, ReadErrorKeeps
<1>4. ASSUME NEW c \in Compactors,
             GetMetadata(c) \/ Download(c) \/ DownloadNotFound(c) \/ OpenUpload(c)
                 \/ WriteBlock(c) \/ GiveUp(c)
      PROVE  object' = object /\ committed' = committed /\ whole' = whole
    BY <1>4 DEF GetMetadata, Download, DownloadNotFound, OpenUpload, WriteBlock, GiveUp,
                service, writer
<1>5. ASSUME OpenSession \/ EndSession \/ UNCHANGED vars
      PROVE  object' = object /\ committed' = committed /\ whole' = whole
    BY <1>5 DEF OpenSession, EndSession, vars, service, writer
<1> QED
    BY <1>1, <1>2, <1>3, <1>4, <1>5 DEF Next, WriterStep, Compacting

(* With such a writer, compactors that fail to read their copies, one      *)
(* after another and at any block, leave the file that was last committed  *)
(* up to the first block at which one of them failed: nothing foreign,     *)
(* nothing uncommitted, nothing out of the middle is changed or lost; and  *)
(* all of the file where none has failed since that commit.                *)
THEOREM FailureLosesOnlyTheEnd ==
    ASSUME AppendsMeanwhile = FALSE
    PROVE  Spec => []BeginningKept
<1> DEFINE All == TypeOK /\ LocalInv /\ Fresh /\ BeginningKept
<1>1. Init => All
    <2> SUFFICES ASSUME Init PROVE All
        OBVIOUS
    <2>1. Recovered(object) = committed /\ object \in Seq(Record) /\ whole = NumBlocks
        BY InitContents, InitAll DEF TypeOK, Init
    <2>2. ContentsKept
        BY <2>1 DEF ContentsKept
    <2>3. /\ Recovered(object).data = Beginning(committed, whole)
          /\ Recovered(object).size <= committed.size
        BY <2>1, AllIsABeginning
    <2>4. BeginningKept
        BY <2>2, <2>3, BeginningIs
    <2> QED
        BY <2>4, InitAll, InitFresh
<1>2. All /\ [Next]_vars => All'
    BY TypeStep, LocalStep, FreshStep, BeginningStep
<1> QED
    BY <1>1, <1>2, PTL DEF Spec
=============================================================================
