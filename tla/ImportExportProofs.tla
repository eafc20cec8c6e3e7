------------------------- MODULE ImportExportProofs -------------------------
(* The log tool, for every raw file, old log, number and size of blocks    *)
(* and bound: an import that dies or fails at any step leaves the log as   *)
(* it was, none or the whole file, and an export returns a whole file.     *)
(* A log that could not be deleted may end in a chain, which the import's  *)
(* commit then applies too: that nothing of it is seen follows from the    *)
(* import writing every block of the raw file and ending in a truncation.  *)
EXTENDS ImportExport, BlockMapperProofs

-----------------------------------------------------------------------------
(* The file that the records S of a log hold, to the unit.                 *)

FileOf(log, S) ==
    [i \in 1 .. SizeOf(log, S) |->
        BlockAt(log, MapOf(log, S)[(i - 1) \div BlockUnits])[(i - 1) % BlockUnits]]

LEMMA HeldIs ==
    ASSUME NEW log
    PROVE  Held(log) = FileOf(log, Applied(log, Len(log)))
BY DEF Held, FileOf, RecoveredMap, RecoveredSize

LEMMA UnitInFile ==
    ASSUME NEW size \in 0 .. MaxSize, NEW i \in 1 .. size
    PROVE  /\ (i - 1) \div BlockUnits \in Block
           /\ (i - 1) % BlockUnits \in 0 .. BlockUnits - 1
<1>1. i - 1 \in 0 .. MaxSize - 1
    BY MaxSizeType
<1> QED
    BY <1>1, UnitSplit

LEMMA FileSame ==
    ASSUME NEW n \in Nat, NEW S, S \subseteq 1 .. n, NEW log, NEW log2,
           \A i \in S : log2[i] = log[i], \A i \in S : log[i] \in Record
    PROVE  FileOf(log2, S) = FileOf(log, S)
<1>1. MapOf(log2, S) = MapOf(log, S)
    <2>1. \A b \in Block : LiveWrites(log2, S, b) = LiveWrites(log, S, b)
        BY LiveSame
    <2> QED
        BY <2>1 DEF MapOf
<1>2. SizeOf(log2, S) = SizeOf(log, S)
    BY DEF SizeOf
<1>3. SizeOf(log, S) \in 0 .. MaxSize
    BY SizeOfType
<1>4. ASSUME NEW b \in Block
      PROVE  BlockAt(log2, MapOf(log, S)[b]) = BlockAt(log, MapOf(log, S)[b])
    <2> DEFINE L == LiveWrites(log, S, b)
    <2>1. L \subseteq S
        BY LiveSubset
    <2> HIDE DEF L
    <2>2. L \subseteq 0 .. n
        BY <2>1
    <2>3. LastOf(L) \in S \cup {0}
        BY <2>1, <2>2, LastOfBound
    <2>4. BlockAt(log2, LastOf(L)) = BlockAt(log, LastOf(L))
        BY <2>3 DEF BlockAt
    <2> QED
        BY <2>4 DEF MapOf, L
<1> HIDE DEF SizeOf
<1>5. \A i \in 1 .. SizeOf(log, S) : (i - 1) \div BlockUnits \in Block
    BY <1>3, UnitInFile
<1> QED
    BY <1>1, <1>2, <1>4, <1>5 DEF FileOf

LEMMA FileType ==
    ASSUME NEW n \in Nat, NEW S, S \subseteq 1 .. n, NEW log,
           \A i \in 1 .. n : log[i] \in Record
    PROVE  FileOf(log, S) \in Seq(Values)
<1>1. SizeOf(log, S) \in 0 .. MaxSize /\ SizeOf(log, S) \in Nat
    <2>1. SizeOf(log, S) \in 0 .. MaxSize
        BY SizeOfType
    <2> QED
        BY <2>1, MaxSizeType
<1>2. MapOf(log, S) \in [Block -> 0 .. n]
    BY MapOfType
<1>3. ASSUME NEW i \in 1 .. SizeOf(log, S)
      PROVE  BlockAt(log, MapOf(log, S)[(i - 1) \div BlockUnits])[(i - 1) % BlockUnits] \in Values
    <2>1. /\ (i - 1) \div BlockUnits \in Block
          /\ (i - 1) % BlockUnits \in 0 .. BlockUnits - 1
        BY <1>1, UnitInFile
    <2>2. BlockAt(log, MapOf(log, S)[(i - 1) \div BlockUnits]) \in BlockData
        BY <1>2, <2>1, BlocksType
    <2> QED
        BY <2>1, <2>2 DEF BlockData
<1>4. FileOf(log, S) \in [1 .. SizeOf(log, S) -> Values]
    BY <1>3 DEF FileOf
<1> QED
    BY <1>1, <1>4

(* The file the log would hold had only its first n records been written.  *)
HeldIn(n) == FileOf(file, Applied(file, n))

-----------------------------------------------------------------------------
(* The inductive invariant.                                                *)

Importing == tool \in {"copying", "cutting", "syncing"}
Exporting == tool \in {"reading", "exported"}

(* The tool has a mapper while it copies or reads, and a mapper that is    *)
(* gone holds nothing; the file being imported is one the log may hold.    *)
ToolState ==
    /\ open <=> Importing \/ Exporting
    /\ ~open => openLen = 0 /\ logicalToPhysical = Unmapped /\ logicalSize = 0
    /\ tool # "syncing" => pc = "idle"
    /\ tool \in {"none", "importOpen"} => offset = 0
    /\ ~Exporting => out = <<>>
    /\ Importing => raw \in kept

(* Every record starts on its boundary: a part of one is completed by the  *)
(* next Init before anything is appended, as no tool appends after a       *)
(* failed append.                                                          *)
LogFramed == /\ intact = Len(file)
             /\ open => ~torn

(* Whatever no fsync covered is lost, the log holds a file it may hold.    *)
KeptInv == \A n \in synced .. Len(file) : HeldIn(n) \in kept

(* The mapper serves the first k units of the raw file.                    *)
ReadsRaw(k) ==
    \A u \in 0 .. k - 1 : CurrentBlock(u \div BlockUnits)[u % BlockUnits] = raw[u + 1]

(* Copying: every block of those units has a pending record, and nothing   *)
(* has been appended.                                                      *)
Batch(k) ==
    /\ Len(file) = openLen
    /\ ReadsRaw(k)
    /\ \A u \in 0 .. k - 1 : PendingWriters(u \div BlockUnits) # {}

Copied == /\ tool = "copying" => offset <= Len(raw) /\ Batch(offset)
          /\ tool = "cutting" => Batch(Len(raw))

(* Syncing: the same once some of the records are in the log; none of the  *)
(* raw file's blocks is served from before the session.                    *)
Rewritten ==
    \A u \in 0 .. Len(raw) - 1 :
        \/ \E s \in Remaining : pending[s].block = u \div BlockUnits
        \/ logicalToPhysical[u \div BlockUnits] > openLen

(* The truncation is the batch's last record, the only one that commits.   *)
EndsCut ==
    IF DOMAIN pending # {}
    THEN /\ pending[LastSlot] = TruncateRecord(Len(raw))
         /\ \A i \in openLen + 1 .. Len(file) : file[i].flag = Chained
    ELSE /\ Len(file) > openLen
         /\ file[Len(file)] = Flagged(TruncateRecord(Len(raw)), Commit)

Replacing == tool = "syncing" => ReadsRaw(Len(raw)) /\ Rewritten /\ EndsCut

(* The first k units that the mapper serves.                               *)
Served(k) ==
    [i \in 1 .. k |-> CurrentBlock((i - 1) \div BlockUnits)[(i - 1) % BlockUnits]]

(* Exporting: the mapper is as Init left it, and out a part of what it     *)
(* serves, whole blocks of it until the last chunk.                        *)
ReadBack ==
    Exporting =>
        /\ DOMAIN pending = {}
        /\ logicalToPhysical = RecoveredMap(file, Len(file))
        /\ logicalSize = RecoveredSize(file, Len(file))
        /\ offset <= logicalSize
        /\ offset % BlockUnits = 0 \/ offset = logicalSize
        /\ tool = "exported" => offset = logicalSize
        /\ out = Served(offset)

ToolInv == /\ ToolTypeOK /\ SessionInv /\ AppendedIsMapped
           /\ ToolState /\ LogFramed /\ KeptInv
           /\ Copied /\ Replacing /\ ReadBack

-----------------------------------------------------------------------------
(* What a crash could leave.                                               *)

(* Records that no commit follows change nothing of what a log holds.      *)
LEMMA HeldUncommitted ==
    ASSUME TypeOK, NEW n \in Nat, n <= Len(file), Extends(n), NEW m \in Nat, n <= m,
           \A i \in n + 1 .. m : file'[i].flag # Commit
    PROVE  HeldIn(m)' = HeldIn(n)
<1>1. Applied(file', m) = Applied(file, n)
    <2>1. \A i \in 1 .. n : file'[i] = file[i]
        BY DEF Extends
    <2> QED
        BY <2>1, UncommittedApplied
<1>2. Applied(file, n) \subseteq 1 .. n
    BY DEF Applied
<1>3. \A i \in Applied(file, n) : file'[i] = file[i] /\ file[i] \in Record
    BY <1>2 DEF Extends, TypeOK, StorageTypeOK
<1>4. FileOf(file', Applied(file, n)) = FileOf(file, Applied(file, n))
    BY <1>2, <1>3, FileSame
<1> QED
    BY <1>1, <1>4 DEF HeldIn

LEMMA HeldBefore ==
    ASSUME TypeOK, NEW n \in Nat, n <= Len(file), Extends(n), NEW m \in 0 .. n
    PROVE  HeldIn(m)' = HeldIn(m)
<1>1. Len(file) \in Nat
    BY DEF TypeOK, StorageTypeOK
<1>2. m \in Nat /\ m <= Len(file) /\ Extends(m) /\ m <= m
    BY <1>1 DEF Extends
<1>3. \A i \in m + 1 .. m : file'[i].flag # Commit
    BY <1>2
<1> QED
    BY <1>2, <1>3, HeldUncommitted

(* A log that only loses records no fsync covered.                         *)
LEMMA ShorterKept ==
    ASSUME TypeOK, KeptInv, NEW n \in 0 .. Len(file), Extends(n), Len(file') = n,
           synced' = synced, kept \subseteq kept'
    PROVE  KeptInv'
<1>1. Len(file) \in Nat /\ synced \in 0 .. Len(file) /\ n <= Len(file) /\ n \in Nat
    BY DEF TypeOK, StorageTypeOK
<1>2. ASSUME NEW m \in synced .. n
      PROVE  HeldIn(m)' \in kept'
    <2>1. m \in 0 .. n /\ m \in synced .. Len(file)
        BY <1>1
    <2>2. HeldIn(m)' = HeldIn(m)
        BY <1>1, <2>1, HeldBefore
    <2>3. HeldIn(m) \in kept
        BY <2>1 DEF KeptInv
    <2> QED
        BY <2>2, <2>3
<1> QED
    BY <1>2 DEF KeptInv

(* A log that only gains one record, or one that no commit follows.        *)
LEMMA LongerKept ==
    ASSUME TypeOK, KeptInv, Extends(Len(file)),
           \/ Len(file') = Len(file)
           \/ Len(file') = Len(file) + 1 /\ (file'[Len(file) + 1].flag # Commit
                                               \/ HeldIn(Len(file))' \in kept'),
           synced' = synced, kept \subseteq kept'
    PROVE  KeptInv'
<1>1. Len(file) \in Nat /\ synced \in 0 .. Len(file)
    BY DEF TypeOK, StorageTypeOK
<1>2. \A m \in synced .. Len(file) : m \in 0 .. Len(file)
    BY <1>1
<1>3. \A m \in synced .. Len(file) : HeldIn(m)' \in kept'
    BY <1>1, <1>2, HeldBefore DEF KeptInv
<1>4. CASE Len(file') = Len(file)
    BY <1>3, <1>4 DEF KeptInv
<1>5. CASE Len(file') = Len(file) + 1
    <2>1. PICK l \in Nat : l = Len(file) + 1
        BY <1>1
    <2>2. HeldIn(l)' \in kept'
        <3>1. CASE file'[l].flag # Commit
            <4>1. \A i \in Len(file) + 1 .. l : file'[i].flag # Commit
                BY <1>1, <2>1, <3>1
            <4>2. HeldIn(l)' = HeldIn(Len(file))
                BY <1>1, <2>1, <4>1, HeldUncommitted
            <4>3. Len(file) \in synced .. Len(file)
                BY <1>1
            <4> QED
                BY <4>2, <4>3 DEF KeptInv
        <3>2. CASE HeldIn(Len(file))' \in kept'
            <4>1. HeldIn(Len(file))' = HeldIn(l)'
                BY <1>5, <2>1 DEF HeldIn
            <4> QED
                BY <3>2, <4>1
        <3> QED
            BY <1>1, <1>5, <2>1, <3>1, <3>2
    <2>3. \A m \in synced .. l : m \in synced .. Len(file) \/ m = l
        BY <1>1, <2>1
    <2> QED
        BY <1>3, <1>5, <2>1, <2>2, <2>3 DEF KeptInv
<1> QED
    BY <1>4, <1>5

LEMMA HeldFramed ==
    ASSUME TypeOK, intact = Len(file)
    PROVE  Held(Framed) = HeldIn(Len(file))
<1>1. Applied(Framed, Len(Framed)) = Applied(file, Len(file))
    BY FramedApplies
<1>2. Len(file) \in Nat /\ \A i \in 1 .. Len(file) : Framed[i] = file[i] /\ file[i] \in Record
    BY FramedIs DEF TypeOK, StorageTypeOK
<1>3. Applied(file, Len(file)) \subseteq 1 .. Len(file)
    BY DEF Applied
<1>4. FileOf(Framed, Applied(file, Len(file))) = FileOf(file, Applied(file, Len(file)))
    BY <1>2, <1>3, FileSame
<1> QED
    BY <1>1, <1>4, HeldIs DEF HeldIn

(* Completing a part of a record.                                          *)
LEMMA FramedKept ==
    ASSUME TypeOK, intact = Len(file), KeptInv, file' = Framed, synced' = synced,
           kept \subseteq kept'
    PROVE  KeptInv'
<1>1. /\ Len(Framed) \in Nat /\ Len(file) \in Nat
      /\ \A i \in 1 .. Len(file) : Framed[i] = file[i]
      /\ \/ Len(Framed) = Len(file)
         \/ Len(Framed) = Len(file) + 1 /\ Framed[Len(file) + 1].flag = Aborted
    BY FramedIs
<1>2. Extends(Len(file))
    BY <1>1 DEF Extends
<1>3. \/ Len(file') = Len(file)
      \/ Len(file') = Len(file) + 1 /\ file'[Len(file) + 1].flag # Commit
    BY <1>1 DEF Aborted, Commit
<1> QED
    BY <1>2, <1>3, LongerKept

-----------------------------------------------------------------------------
(* Steps that end, start or open.                                          *)

LEMMA ReturnKeeps ==
    ASSUME StorageTypeOK', intact' = Len(file'), KeptInv', Return, kept' \subseteq Seq(Values)
    PROVE  ToolInv'
<1>1. /\ open' = FALSE /\ openLen' = 0 /\ pending' = NothingPending
      /\ logicalToPhysical' = Unmapped /\ logicalSize' = 0 /\ pc' = "idle" /\ done' = 0
      /\ tool' = "none" /\ raw' = <<>> /\ offset' = 0 /\ out' = <<>>
    BY DEF Return, Forget
<1>2. TypeOK'
    BY ForgetType DEF Return
<1>3. SessionInv'
    BY <1>1, NothingType, ClosedSession
<1>4. AppendedIsMapped'
    BY <1>1 DEF AppendedIsMapped
<1>5. ToolTypeOK'
    <2>1. offset' \in 0 .. MaxSize /\ out' \in Seq(Values)
        BY <1>1, MaxSizeType
    <2> QED
        BY <1>1, <1>2, <2>1 DEF ToolTypeOK
<1>6. ToolState' /\ LogFramed' /\ Copied' /\ Replacing' /\ ReadBack'
    BY <1>1 DEF ToolState, LogFramed, Copied, Replacing, ReadBack, Importing, Exporting
<1> QED
    BY <1>3, <1>4, <1>5, <1>6 DEF ToolInv

LEMMA CrashKept ==
    ASSUME TypeOK, intact = Len(file), KeptInv, kept' = kept, NEW w, StorageCrashes(w)
    PROVE  StorageTypeOK' /\ intact' = Len(file') /\ KeptInv'
<1>1. PICK n \in synced .. Len(file) :
          /\ file' = SubSeq(file, 1, n) /\ synced' = synced /\ intact' = Smaller(intact, n)
    BY DEF StorageCrashes
<1>2. /\ file \in Seq(Record) /\ Len(file) \in Nat /\ synced \in 0 .. Len(file)
    BY DEF TypeOK, StorageTypeOK
<1>3. n \in 0 .. Len(file) /\ n \in Nat
    BY <1>1, <1>2
<1>4. Len(file') = n /\ \A i \in 1 .. n : file'[i] = file[i]
    BY <1>1, <1>2, <1>3
<1>5. intact' = n
    BY <1>1, <1>3 DEF Smaller
<1>6. StorageTypeOK'
    BY CrashType DEF TypeOK
<1>7. Extends(n)
    BY <1>3, <1>4 DEF Extends
<1> QED
    BY <1>1, <1>3, <1>4, <1>5, <1>6, <1>7, ShorterKept

LEMMA FailsKept ==
    ASSUME TypeOK, intact = Len(file), KeptInv, kept' = kept,
           UNCHANGED storageVars \/ AppendFailsClean \/ AppendFailsTorn
    PROVE  StorageTypeOK' /\ intact' = Len(file') /\ KeptInv'
<1>1. UNCHANGED <<file, intact, synced>> /\ torn' \in BOOLEAN
    BY DEF storageVars, AppendFailsClean, AppendFailsTorn, TypeOK, StorageTypeOK
<1>2. StorageTypeOK'
    BY <1>1 DEF TypeOK, StorageTypeOK
<1>3. KeptInv'
    BY <1>1 DEF KeptInv, HeldIn
<1> QED
    BY <1>1, <1>2, <1>3

LEMMA FailureKeeps ==
    ASSUME ToolInv, ImportFails \/ ExportFails \/ ExportEnds \/ ToolCrash
    PROVE  ToolInv'
<1>1. TypeOK /\ intact = Len(file) /\ KeptInv /\ kept \subseteq Seq(Values)
    BY DEF ToolInv, ToolTypeOK, LogFramed
<1>2. kept' = kept /\ Return
    BY DEF ImportFails, ExportFails, ExportEnds, ToolCrash
<1>3. StorageTypeOK' /\ intact' = Len(file') /\ KeptInv'
    <2>1. CASE ToolCrash
        BY <1>1, <1>2, <2>1, CrashKept DEF ToolCrash
    <2>2. CASE ImportFails \/ ExportFails \/ ExportEnds
        BY <1>1, <1>2, <2>2, FailsKept DEF ImportFails, ExportFails, ExportEnds
    <2> QED
        BY <2>1, <2>2
<1> QED
    BY <1>1, <1>2, <1>3, ReturnKeeps

(* A tool that has no mapper: what it must know of the log.                *)
LEMMA ClosedKeeps ==
    ASSUME StorageTypeOK', intact' = Len(file'), KeptInv', kept' \subseteq Seq(Values),
           ToolInv, ~open, UNCHANGED <<mapperVars, offset, out>>,
           tool' \in {"none", "importOpen"}, raw' \in RawFiles \cup {<<>>}
    PROVE  ToolInv'
<1>1. UNCHANGED <<open, openLen, pending, logicalToPhysical, logicalSize, pc, done, offset, out>>
    BY DEF mapperVars
<1>2. /\ openLen = 0 /\ logicalToPhysical = Unmapped /\ logicalSize = 0
      /\ tool \in {"none", "importOpen"} /\ offset = 0 /\ out = <<>> /\ pc = "idle"
    BY DEF ToolInv, ToolState, ToolTypeOK, Importing, Exporting
<1>3. DOMAIN pending = {} /\ done = 0
    BY <1>2 DEF ToolInv, SessionInv, SyncState
<1>4. Len(file') \in Nat
    BY DEF StorageTypeOK
<1>5. TypeOK'
    <2>1. Unmapped \in [Block -> 0 .. Len(file')] /\ 0 \in 0 .. Len(file')
        BY <1>4 DEF Unmapped
    <2> QED
        BY <1>1, <1>2, <2>1 DEF TypeOK, ToolInv, ToolTypeOK
<1>6. SessionInv'
    BY <1>1, <1>2, <1>3, ClosedSession
<1>7. AppendedIsMapped'
    BY <1>1, <1>2 DEF AppendedIsMapped
<1>8. ToolTypeOK'
    BY <1>1, <1>5 DEF ToolInv, ToolTypeOK
<1>9. ToolState' /\ LogFramed' /\ Copied' /\ Replacing' /\ ReadBack'
    BY <1>1, <1>2 DEF ToolState, LogFramed, Copied, Replacing, ReadBack, Importing, Exporting
<1> QED
    BY <1>6, <1>7, <1>8, <1>9 DEF ToolInv

LEMMA EmptyFunction == \A f : [i \in 1 .. 0 |-> f[i]] = <<>>
<1>1. \A f : [i \in 1 .. 0 |-> f[i]] \in Seq({0}) /\ Len([i \in 1 .. 0 |-> f[i]]) = 0
    OBVIOUS
<1> QED
    BY <1>1, EmptySeq

(* The log of a file that has been deleted.                                *)
LEMMA NothingHeld == FileOf(<<>>, Applied(<<>>, 0)) = <<>>
<1> DEFINE f == FileOf(<<>>, {})
<1>1. Applied(<<>>, 0) = {}
    BY DEF Applied
<1>2. SizeOf(<<>>, {}) = 0
    BY NothingYet
<1>3. f = [i \in 1 .. 0 |-> f[i]]
    BY <1>2 DEF FileOf
<1> HIDE DEF f
<1>4. f = <<>>
    BY <1>3, EmptyFunction
<1> QED
    BY <1>1, <1>4 DEF f

LEMMA StartKeeps ==
    ASSUME ToolInv, NEW r \in RawFiles, ImportStart(r)
    PROVE  ToolInv'
<1>1. /\ TypeOK /\ StorageTypeOK /\ intact = Len(file) /\ KeptInv /\ kept \subseteq Seq(Values)
      /\ ~open
    BY DEF ToolInv, ToolTypeOK, TypeOK, LogFramed, ToolState, ImportStart, Importing, Exporting
<1>2. StorageTypeOK' /\ intact' = Len(file') /\ KeptInv' /\ kept' \subseteq Seq(Values)
    <2>1. CASE UNCHANGED <<storageVars, kept>>
        BY <1>1, <2>1 DEF storageVars, StorageTypeOK, KeptInv, HeldIn
    <2>2. CASE /\ file' = <<>> /\ intact' = 0 /\ torn' = FALSE /\ synced' = 0
               /\ kept' = kept \cup {<<>>}
        <3>1. Len(file') = 0 /\ file' \in Seq(Record) /\ <<>> \in Seq(Values)
            BY <2>2
        <3>2. StorageTypeOK'
            <4>1. 0 \in 0 .. Len(file')
                BY ONLY <3>1
            <4>2. torn' \in BOOLEAN
                BY <2>2
            <4> QED
                BY ONLY <2>2, <3>1, <4>1, <4>2 DEF StorageTypeOK
        <3>3. \A n \in 0 .. 0 : n = 0
            OBVIOUS
        <3>4. HeldIn(0)' = <<>>
            BY <2>2, NothingHeld DEF HeldIn
        <3>5. KeptInv'
            BY <2>2, <3>1, <3>3, <3>4 DEF KeptInv
        <3> QED
            BY <1>1, <2>2, <3>1, <3>2, <3>5
    <2> QED
        BY <2>1, <2>2 DEF ImportStart, DeleteStoragePath
<1>3. UNCHANGED <<mapperVars, offset, out>> /\ tool' = "importOpen" /\ raw' = r
    BY DEF ImportStart
<1> QED
    BY <1>1, <1>2, <1>3, ClosedKeeps

LEMMA OpenFailsKeeps ==
    ASSUME ToolInv, ImportOpenFails
    PROVE  ToolInv'
<1>1. /\ TypeOK /\ StorageTypeOK /\ intact = Len(file) /\ KeptInv /\ kept \subseteq Seq(Values)
      /\ ~open
    BY DEF ToolInv, ToolTypeOK, TypeOK, LogFramed, OpenFails, ImportOpenFails
<1>2. /\ UNCHANGED <<mapperVars, offset, out>> /\ kept' = kept
      /\ tool' = "none" /\ raw' = <<>>
    BY DEF ImportOpenFails, OpenFails
<1>3. StorageTypeOK' /\ intact' = Len(file') /\ KeptInv'
    <2>1. CASE UNCHANGED storageVars
        BY <1>1, <1>2, <2>1, FailsKept
    <2>2. CASE file' = Framed /\ intact' = Len(Framed) /\ torn' = FALSE /\ synced' = synced
        BY <1>1, <1>2, <2>2, PaddedType, FramedKept
    <2> QED
        BY <2>1, <2>2 DEF ImportOpenFails, OpenFails
<1> QED
    BY <1>1, <1>2, <1>3, ClosedKeeps

LEMMA OpensLog ==
    ASSUME ToolInv, Open, kept \subseteq kept'
    PROVE  /\ TypeOK' /\ SessionInv' /\ AppendedIsMapped' /\ LogFramed' /\ KeptInv'
           /\ open' /\ openLen' = Len(file') /\ pc' = "idle" /\ DOMAIN pending' = {}
           /\ logicalToPhysical' = RecoveredMap(file', Len(file'))
           /\ logicalSize' = RecoveredSize(file', Len(file'))
<1>1. TypeOK /\ intact = Len(file) /\ KeptInv /\ SessionInv /\ ~open
    BY DEF ToolInv, ToolTypeOK, LogFramed, Open
<1>2. /\ file' = Framed /\ intact' = Len(Framed) /\ torn' = FALSE /\ synced' = synced
      /\ open' = TRUE /\ openLen' = Len(Framed)
      /\ logicalToPhysical' = RecoveredMap(Framed, Len(Framed))
      /\ logicalSize' = RecoveredSize(Framed, Len(Framed))
      /\ UNCHANGED <<pending, pc, done>>
    BY DEF Open
<1>3. pc = "idle" /\ DOMAIN pending = {}
    BY <1>1 DEF SessionInv, SyncState
<1>4. TypeOK' /\ SessionInv'
    BY <1>1, OpenType, OpenSession
<1>5. AppendedIsMapped' /\ LogFramed'
    BY <1>2, <1>3 DEF AppendedIsMapped, LogFramed
<1>6. KeptInv'
    BY <1>1, <1>2, FramedKept
<1> QED
    BY <1>2, <1>3, <1>4, <1>5, <1>6

LEMMA RawType ==
    ASSUME ToolInv
    PROVE  /\ raw \in Seq(Inputs) /\ raw \in Seq(Values)
           /\ Len(raw) \in 0 .. MaxSize /\ Len(raw) \in Nat
<1>1. raw \in RawFiles \/ raw = <<>>
    BY DEF ToolInv, ToolTypeOK
<1>2. /\ RawFiles \subseteq Seq(Inputs) /\ \A r \in RawFiles : Len(r) <= MaxSize
    BY ToolAssumption
<1>3. <<>> \in Seq(Inputs) /\ Len(<<>>) = 0
    OBVIOUS
<1>4. raw \in Seq(Inputs) /\ Len(raw) <= MaxSize
    <2>1. CASE raw \in RawFiles
        BY <1>2, <2>1
    <2>2. CASE raw = <<>>
        BY <1>3, <2>2, MaxSizeType
    <2> QED
        BY <1>1, <2>1, <2>2
<1>5. Seq(Inputs) \subseteq Seq(Values)
    BY BoundsAssumption
<1> QED
    BY <1>4, <1>5, MaxSizeType

LEMMA ImportOpenKeeps ==
    ASSUME ToolInv, ImportOpen
    PROVE  ToolInv'
<1>1. /\ Open /\ tool = "importOpen" /\ tool' = "copying" /\ kept' = kept \cup {raw}
      /\ UNCHANGED <<raw, offset, out>>
    BY DEF ImportOpen
<1>2. offset = 0 /\ out = <<>>
    BY <1>1 DEF ToolInv, ToolState, Exporting
<1>3. /\ TypeOK' /\ SessionInv' /\ AppendedIsMapped' /\ LogFramed' /\ KeptInv'
      /\ open' /\ openLen' = Len(file') /\ pc' = "idle"
    BY <1>1, OpensLog
<1>4. Len(raw) \in Nat /\ raw \in Seq(Values)
    BY RawType
<1>5. ToolTypeOK'
    BY <1>1, <1>2, <1>3, <1>4 DEF ToolInv, ToolTypeOK
<1>6. ToolState'
    BY <1>1, <1>2, <1>3 DEF ToolState, Importing, Exporting
<1>7. Copied'
    <2>1. \A u \in 0 .. 0 - 1 : FALSE
        OBVIOUS
    <2>2. Batch(0)'
        BY <1>3, <2>1 DEF Batch, ReadsRaw
    <2>3. 0 <= Len(raw)
        BY <1>4
    <2> QED
        BY <1>1, <1>2, <2>2, <2>3 DEF Copied, Batch, ReadsRaw
<1>8. Replacing' /\ ReadBack'
    BY <1>1 DEF Replacing, ReadBack, Exporting
<1> QED
    BY <1>3, <1>5, <1>6, <1>7, <1>8 DEF ToolInv

-----------------------------------------------------------------------------
(* Copying the raw file into the mapper.                                   *)

(* A step of the mapper in memory.                                         *)
LEMMA QuietLog ==
    ASSUME ToolInv, UNCHANGED <<storageVars, open, kept>>
    PROVE  LogFramed' /\ KeptInv'
<1>1. UNCHANGED <<file, intact, torn, synced, open, kept>>
    BY DEF storageVars
<1> QED
    BY <1>1 DEF ToolInv, LogFramed, KeptInv, HeldIn

LEMMA OverlayUnit ==
    ASSUME NEW u \in 0 .. MaxSize - 1, NEW off \in Nat, NEW buf
    PROVE  Overlay(u \div BlockUnits, off, buf)[u % BlockUnits] =
               IF u - off \in DOMAIN buf THEN buf[u - off]
               ELSE CurrentBlock(u \div BlockUnits)[u % BlockUnits]
<1> DEFINE b == u \div BlockUnits
           r == u % BlockUnits
<1>1. b \in Block /\ r \in 0 .. BlockUnits - 1 /\ u = b * BlockUnits + r
    BY UnitSplit
<1> HIDE DEF b, r
<1>2. b * BlockUnits + r - off = u - off
    <2>1. b * BlockUnits \in Int /\ r \in Int
        BY <1>1, FormatAssumption DEF Block
    <2> QED
        BY <1>1, <2>1
<1>3. Overlay(b, off, buf)[r] = IF u - off \in DOMAIN buf THEN buf[u - off] ELSE CurrentBlock(b)[r]
    BY <1>1, <1>2 DEF Overlay
<1> QED
    BY <1>3 DEF b, r

LEMMA SpansUnit ==
    ASSUME NEW off \in Nat, NEW n \in Nat, NEW u \in Nat, off <= u, u <= off + n - 1
    PROVE  FirstBlock(off) <= u \div BlockUnits /\ u \div BlockUnits <= LastBlock(off, n)
<1>1. BlockUnits \in Nat \ {0}
    BY FormatAssumption
<1>2. off \div BlockUnits <= u \div BlockUnits
    BY <1>1, DivMonotonic
<1>3. PICK last \in Nat : last = off + n - 1
    OBVIOUS
<1>4. u \div BlockUnits <= last \div BlockUnits
    BY <1>1, <1>3, DivMonotonic
<1> QED
    BY <1>2, <1>3, <1>4 DEF FirstBlock, LastBlock

LEMMA ChunkIs ==
    ASSUME ToolInv, offset <= Len(raw), NEW n \in 1 .. Smaller(BlockUnits, Len(raw) - offset)
    PROVE  /\ offset \in 0 .. MaxSize - 1 /\ n \in 1 .. MaxSize - offset
           /\ Chunk(n) \in [0 .. n - 1 -> Inputs]
           /\ offset + n <= Len(raw) /\ offset \in Nat /\ n \in Nat
<1>1. raw \in Seq(Inputs) /\ Len(raw) \in 0 .. MaxSize /\ Len(raw) \in Nat
    BY RawType
<1>2. offset \in Nat /\ BlockUnits \in Nat /\ MaxSize \in Nat
    BY MaxSizeType, FormatAssumption DEF ToolInv, ToolTypeOK
<1>3. n \in Nat /\ n >= 1 /\ n <= Len(raw) - offset
    BY <1>1, <1>2 DEF Smaller
<1>4. offset \in 0 .. MaxSize - 1 /\ n \in 1 .. MaxSize - offset /\ offset + n <= Len(raw)
    BY <1>1, <1>2, <1>3
<1>5. \A i \in 0 .. n - 1 : offset + i + 1 \in 1 .. Len(raw)
    BY <1>1, <1>2, <1>3
<1> QED
    BY <1>1, <1>2, <1>3, <1>4, <1>5 DEF Chunk

(* What is read after a chunk is written: the raw file, a chunk further.   *)
LEMMA CopiedOn ==
    ASSUME TypeOK, TypeOK', NEW n \in Nat, n >= 1, offset \in Nat, offset + n <= MaxSize,
           Pushes(FirstBlock(offset), LastBlock(offset, n), offset, Chunk(n)),
           ReadsRaw(offset), raw' = raw, offset' = offset + n
    PROVE  ReadsRaw(offset)'
<1> DEFINE first == FirstBlock(offset)
           last == LastBlock(offset, n)
<1> SUFFICES ASSUME NEW u \in 0 .. offset + n - 1
             PROVE  CurrentBlock(u \div BlockUnits)'[u % BlockUnits] = raw[u + 1]
    BY DEF ReadsRaw
<1>1. u \in 0 .. MaxSize - 1 /\ u \in Nat
    BY MaxSizeType
<1>2. u \div BlockUnits \in Block
    BY <1>1, UnitsBlock
<1>3. CurrentBlock(u \div BlockUnits)' =
          IF u \div BlockUnits \in first .. last
          THEN Overlay(u \div BlockUnits, offset, Chunk(n)) ELSE CurrentBlock(u \div BlockUnits)
    BY <1>2, PushedBlock
<1>4. CASE u < offset
    <2>1. CurrentBlock(u \div BlockUnits)[u % BlockUnits] = raw[u + 1]
        BY <1>1, <1>4 DEF ReadsRaw
    <2>2. u - offset \notin DOMAIN Chunk(n)
        BY <1>1, <1>4 DEF Chunk
    <2> QED
        BY <1>1, <1>3, <2>1, <2>2, OverlayUnit
<1>5. CASE u >= offset
    <2>1. u - offset \in 0 .. n - 1 /\ offset + (u - offset) + 1 = u + 1
        BY <1>1, <1>5
    <2>2. u - offset \in DOMAIN Chunk(n) /\ Chunk(n)[u - offset] = raw[u + 1]
        BY <2>1 DEF Chunk
    <2>3. u \div BlockUnits \in first .. last
        <3>1. FirstBlock(offset) <= u \div BlockUnits /\ u \div BlockUnits <= LastBlock(offset, n)
            BY <1>1, <1>5, SpansUnit
        <3>2. first \in Int /\ last \in Int /\ u \div BlockUnits \in Int
            BY <1>2 DEF Pushes, Block
        <3> QED
            BY <3>1, <3>2
    <2> QED
        BY <1>1, <1>3, <2>2, <2>3, OverlayUnit
<1> QED
    BY <1>1, <1>4, <1>5

(* Every block of it has a pending record.                                 *)
LEMMA CoveredOn ==
    ASSUME TypeOK, NEW n \in Nat, n >= 1, offset \in Nat, offset + n <= MaxSize,
           Pushes(FirstBlock(offset), LastBlock(offset, n), offset, Chunk(n)),
           \A u \in 0 .. offset - 1 : PendingWriters(u \div BlockUnits) # {}
    PROVE  \A u \in 0 .. offset + n - 1 :
               \E s \in DOMAIN pending' : pending'[s].block = u \div BlockUnits
<1> DEFINE first == FirstBlock(offset)
           last == LastBlock(offset, n)
<1> SUFFICES ASSUME NEW u \in 0 .. offset + n - 1
             PROVE  \E s \in DOMAIN pending' : pending'[s].block = u \div BlockUnits
    OBVIOUS
<1>1. u \in 0 .. MaxSize - 1 /\ u \in Nat
    BY MaxSizeType
<1>2. /\ \A s \in DOMAIN pending : s \in DOMAIN pending' /\ pending'[s] = pending[s]
      /\ \A b \in first .. last : \E s \in DOMAIN pending' :
             s > LastSlot /\ pending'[s] = DataRecord(b, Overlay(b, offset, Chunk(n)))
    BY PushedSlots
<1>3. CASE u < offset
    <2>1. PICK s \in DOMAIN pending : pending[s].block = u \div BlockUnits
        BY <1>1, <1>3 DEF PendingWriters
    <2> QED
        BY <1>2, <2>1
<1>4. CASE u >= offset
    <2>1. FirstBlock(offset) <= u \div BlockUnits /\ u \div BlockUnits <= LastBlock(offset, n)
        BY <1>1, <1>4, SpansUnit
    <2>2. first \in Int /\ last \in Int /\ u \div BlockUnits \in Int
        BY <1>1, UnitsBlock DEF Pushes, Block
    <2>3. u \div BlockUnits \in first .. last
        BY <2>1, <2>2
    <2>4. PICK s \in DOMAIN pending' :
              pending'[s] = DataRecord(u \div BlockUnits, Overlay(u \div BlockUnits, offset, Chunk(n)))
        BY <1>2, <2>3
    <2> QED
        BY <2>4 DEF DataRecord
<1> QED
    BY <1>1, <1>3, <1>4

LEMMA CopyKeeps ==
    ASSUME ToolInv, CopyChunk
    PROVE  ToolInv'
<1>1. /\ TypeOK /\ SessionInv /\ tool = "copying" /\ offset <= Len(raw) /\ Batch(offset)
    BY DEF ToolInv, ToolTypeOK, Copied, CopyChunk
<1>2. PICK n \in 1 .. Smaller(BlockUnits, Len(raw) - offset) :
          Write(offset, n, Chunk(n)) /\ offset' = offset + n
    BY DEF CopyChunk
<1>3. UNCHANGED <<tool, raw, out, kept>>
    BY DEF CopyChunk
<1>4. /\ offset \in 0 .. MaxSize - 1 /\ n \in 1 .. MaxSize - offset
      /\ Chunk(n) \in [0 .. n - 1 -> Inputs]
      /\ offset + n <= Len(raw) /\ offset \in Nat /\ n \in Nat
    BY <1>1, ChunkIs
<1>5. TypeOK' /\ SessionInv'
    BY <1>1, <1>2, <1>4, WriteType, WriteSession
<1>6. /\ Pushes(FirstBlock(offset), LastBlock(offset, n), offset, Chunk(n))
      /\ Idle /\ UNCHANGED storageVars
    BY <1>1, <1>2, <1>4, WriteIs
<1>7. UNCHANGED <<file, open, openLen, pc>> /\ pc = "idle" /\ open
    BY <1>6 DEF Pushes, Idle
<1>8. Len(raw) \in 0 .. MaxSize /\ Len(raw) \in Nat /\ MaxSize \in Nat
    BY RawType, MaxSizeType
<1>9. offset + n <= MaxSize /\ n >= 1
    BY <1>4, <1>8
<1>10. Copied'
    <2>1. ReadsRaw(offset)'
        BY <1>1, <1>2, <1>3, <1>4, <1>5, <1>6, <1>9, CopiedOn DEF Batch
    <2>2. \A u \in 0 .. offset + n - 1 :
              \E s \in DOMAIN pending' : pending'[s].block = u \div BlockUnits
        BY <1>1, <1>4, <1>6, <1>9, CoveredOn DEF Batch
    <2>3. Batch(offset)'
        <3>1. Len(file') = openLen'
            BY <1>1, <1>7 DEF Batch
        <3>2. \A u \in 0 .. offset' - 1 :
                  {s \in DOMAIN pending' : pending'[s].block = u \div BlockUnits} # {}
            <4> DEFINE W(u) == {s \in DOMAIN pending' : pending'[s].block = u \div BlockUnits}
            <4>1. offset' = offset + n /\ offset \in Nat /\ n \in Nat
                BY <1>2, <1>4
            <4>2. \A u \in 0 .. offset + n - 1 : W(u) # {}
                BY ONLY <2>2, Zenon
            <4> HIDE DEF W
            <4>3. \A u \in 0 .. offset' - 1 : W(u) # {}
                BY ONLY <4>1, <4>2
            <4> QED
                BY ONLY <4>3, Zenon DEF W
        <3> QED
            BY ONLY <2>1, <3>1, <3>2 DEF Batch, PendingWriters
    <2> QED
        BY <1>1, <1>2, <1>3, <1>4, <2>3 DEF Copied
<1>11. AppendedIsMapped' /\ Replacing' /\ ReadBack'
    BY <1>1, <1>3, <1>7 DEF AppendedIsMapped, Replacing, ReadBack, Exporting
<1>12. LogFramed' /\ KeptInv'
    BY <1>3, <1>6, <1>7, QuietLog
<1>13. ToolTypeOK'
    <2>1. offset' \in 0 .. MaxSize
        BY <1>2, <1>4, <1>9, MaxSizeType
    <2> QED
        BY <1>1, <1>3, <1>5, <2>1 DEF ToolInv, ToolTypeOK
<1>14. ToolState'
    BY <1>1, <1>3, <1>7 DEF ToolInv, ToolState, Importing, Exporting
<1> QED
    BY <1>5, <1>10, <1>11, <1>12, <1>13, <1>14 DEF ToolInv

LEMMA CopyEndsKeeps ==
    ASSUME ToolInv, CopyEnds
    PROVE  ToolInv'
<1>1. /\ UNCHANGED <<file, intact, torn, synced, open, openLen, pending, logicalToPhysical>>
      /\ UNCHANGED <<logicalSize, pc, done, raw, offset, out, kept>>
      /\ tool = "copying" /\ offset = Len(raw) /\ tool' = "cutting"
    BY DEF CopyEnds, storageVars, mapperVars
<1>2. TypeOK' /\ SessionInv' /\ AppendedIsMapped'
    BY <1>1, SessionStep, TypeStep, AppendedStep
       DEF ToolInv, ToolTypeOK, vars, storageVars, mapperVars
<1>3. LogFramed' /\ KeptInv'
    BY <1>1, QuietLog DEF storageVars
<1>4. Copied'
    <2>1. Batch(Len(raw))
        BY <1>1 DEF ToolInv, Copied
    <2>2. Batch(Len(raw))'
        BY <1>1, <2>1 DEF Batch, ReadsRaw, CurrentBlock, PendingWriters
    <2> QED
        BY <1>1, <2>2 DEF Copied
<1>5. Replacing' /\ ReadBack'
    BY <1>1 DEF Replacing, ReadBack, Exporting
<1>6. ToolTypeOK' /\ ToolState'
    BY <1>1, <1>2 DEF ToolInv, ToolTypeOK, ToolState, Importing, Exporting
<1> QED
    BY <1>2, <1>3, <1>4, <1>5, <1>6 DEF ToolInv

LEMMA UnitWithin ==
    ASSUME NEW n \in 0 .. MaxSize, NEW u \in 0 .. n - 1
    PROVE  u \div BlockUnits \in Block /\ u \div BlockUnits < CeilBlocks(n)
<1>1. n \in Nat /\ u \in Nat /\ BlockUnits \in Nat \ {0} /\ u \in 0 .. MaxSize - 1
    BY MaxSizeType, FormatAssumption
<1>2. PICK k \in Nat \ {0} : k = BlockUnits
    BY <1>1
<1>3. u + k \in Nat /\ n + k - 1 \in Nat /\ u + k <= n + k - 1
    BY <1>1
<1>4. (u + k) \div k <= (n + k - 1) \div k
    BY <1>3, DivMonotonic
<1>5. (u + k) \div k = u \div k + 1 /\ u \div k \in Nat /\ (n + k - 1) \div k \in Nat
    BY <1>1, <1>3
<1>6. u \div k < (n + k - 1) \div k
    BY <1>4, <1>5
<1>7. CeilBlocks(n) = (n + k - 1) \div k
    BY <1>2 DEF CeilBlocks
<1>8. u \div BlockUnits \in Block
    BY <1>1, UnitsBlock
<1> QED
    BY <1>2, <1>6, <1>7, <1>8

LEMMA CutKeeps ==
    ASSUME ToolInv, Cut
    PROVE  ToolInv'
<1> DEFINE n == Len(raw)
           keep == {s \in DOMAIN pending : pending[s].block < CeilBlocks(n)}
<1>1. TypeOK /\ SessionInv /\ tool = "cutting" /\ Batch(n)
    BY DEF ToolInv, ToolTypeOK, Copied, Cut
<1>2. Truncate(n) /\ tool' = "syncing" /\ UNCHANGED <<raw, offset, out, kept>>
    BY DEF Cut
<1>3. n \in 0 .. MaxSize /\ n \in Nat
    BY RawType
<1>4. TypeOK' /\ SessionInv'
    BY <1>1, <1>2, <1>3, TruncateType, TruncateSession
<1>5. /\ UNCHANGED storageVars /\ UNCHANGED <<file, open, openLen, pc, done>>
      /\ open /\ pc = "idle" /\ done = 0
      /\ DOMAIN pending' = keep \cup {LastSlot + 1}
      /\ \A s \in keep : pending'[s] = pending[s]
      /\ LastSlot + 1 \notin keep => pending'[LastSlot + 1] = TruncateRecord(n)
    BY <1>1, <1>2, IdleIs DEF Truncate, storageVars
<1>6. LastSlot \in Nat /\ \A s \in DOMAIN pending : s \in Nat /\ s > 0 /\ s <= LastSlot
    BY <1>1, LastSlotType, SlotType
<1> HIDE DEF n
<1>7. \A u \in 0 .. n - 1 : u \div BlockUnits \in Block /\ u \div BlockUnits < CeilBlocks(n)
    BY <1>3, UnitWithin
<1>8. ReadsRaw(n)'
    <2>1. \A u \in 0 .. n - 1 :
              CurrentBlock(u \div BlockUnits)' = CurrentBlock(u \div BlockUnits)
        <3>1. CeilBlocks(n) \in Int
            BY <1>3, CeilType
        <3>2. \A b \in Block : b < CeilBlocks(n) => ~(b >= CeilBlocks(n))
            BY <3>1 DEF Block
        <3> QED
            BY <1>1, <1>2, <1>3, <1>7, <3>2, TruncatedBlock
    <2> QED
        BY <1>1, <1>2, <2>1 DEF Batch, ReadsRaw, n
<1>9. Rewritten'
    <2> SUFFICES ASSUME NEW u \in 0 .. n - 1
                 PROVE  \E s \in Remaining' : pending'[s].block = u \div BlockUnits
        BY <1>2 DEF Rewritten, n
    <2>1. PICK s \in DOMAIN pending : pending[s].block = u \div BlockUnits
        BY <1>1 DEF Batch, PendingWriters
    <2>2. s \in keep
        BY <1>7, <2>1
    <2>3. s \in Remaining'
        BY <1>5, <1>6, <2>2 DEF Remaining
    <2> QED
        BY <1>5, <2>1, <2>2, <2>3
<1>10. EndsCut'
    <2>1. PICK w \in Nat : w = LastSlot + 1
        BY <1>6
    <2>2. w \in DOMAIN pending' /\ \A s \in DOMAIN pending' : s <= w
        BY <1>5, <1>6, <2>1
    <2>3. DOMAIN pending' \subseteq 0 .. MaxPending /\ MaxPending \in Nat
        BY <1>4, BoundsAssumption DEF TypeOK, Slot
    <2>4. LastSlot' = w
        BY <2>2, <2>3, LastOfIs DEF LastSlot
    <2>5. w \notin keep /\ pending'[w] = TruncateRecord(n)
        BY <1>5, <1>6, <2>1
    <2>6. Len(file) = openLen /\ Len(file) \in Nat
        BY <1>1 DEF Batch, TypeOK, StorageTypeOK
    <2>7. \A i \in openLen' + 1 .. Len(file') : FALSE
        BY <1>5, <2>6
    <2> QED
        BY <1>2, <2>2, <2>4, <2>5, <2>7 DEF EndsCut, n
<1>11. Replacing'
    BY <1>2, <1>8, <1>9, <1>10 DEF Replacing, ReadsRaw, n
<1>12. AppendedIsMapped' /\ Copied' /\ ReadBack'
    BY <1>2, <1>5 DEF AppendedIsMapped, Copied, ReadBack, Exporting
<1>13. LogFramed' /\ KeptInv'
    BY <1>2, <1>5, QuietLog
<1>14. ToolTypeOK' /\ ToolState'
    BY <1>1, <1>2, <1>4, <1>5 DEF ToolInv, ToolTypeOK, ToolState, Importing, Exporting
<1> QED
    BY <1>4, <1>11, <1>12, <1>13, <1>14 DEF ToolInv

-----------------------------------------------------------------------------
(* The import's Sync.                                                      *)

(* The whole batch is in the log: its last record is the truncation, and   *)
(* it commits.                                                             *)
Committed ==
    /\ TypeOK /\ SessionInv /\ open /\ DOMAIN pending = {}
    /\ ReadsRaw(Len(raw)) /\ Rewritten /\ EndsCut
    /\ raw \in Seq(Values) /\ Len(raw) \in 0 .. MaxSize

(* A run of chains that ends with a commit is applied, whatever it follows.*)
LEMMA RunApplies ==
    ASSUME NEW n \in Nat, NEW m \in 0 .. n, NEW log,
           \A i \in m + 1 .. n : log[i].flag \in {Commit, Chained},
           log[n].flag = Commit
    PROVE  \A i \in m + 1 .. n : AppliedUpTo(log, n, i)
<1> SUFFICES ASSUME NEW i \in m + 1 .. n PROVE AppliedUpTo(log, n, i)
    OBVIOUS
<1> DEFINE C == {j \in i .. n : log[j].flag = Commit}
<1>1. C \subseteq Nat /\ n \in C
    OBVIOUS
<1>2. PICK j \in C : \A k \in C : j <= k
    BY <1>1, LeastExists
<1>3. \A k \in i .. j - 1 : log[k].flag = Chained
    <2> SUFFICES ASSUME NEW k \in i .. j - 1 PROVE log[k].flag = Chained
        OBVIOUS
    <2>1. k \in m + 1 .. n /\ k \in i .. n /\ ~(j <= k)
        BY <1>2
    <2>2. k \notin C
        BY <1>2, <2>1
    <2> QED
        BY <2>1, <2>2
<1> QED
    BY <1>2, <1>3 DEF AppliedUpTo

(* Records of the first n, and all that come after the first m.            *)
HasEnd(S, m, n) == S \subseteq 1 .. n /\ \A i \in m + 1 .. n : i \in S

(* Whether the chains before the session are applied makes no difference   *)
(* to a block the session has written.                                     *)
LEMMA NewestStays ==
    ASSUME NEW n \in Nat, NEW m \in 0 .. n, NEW log, NEW S, NEW T, NEW b \in Block,
           HasEnd(S, m, n), HasEnd(T, m, n),
           LastOf(LiveWrites(log, T, b)) > m
    PROVE  MapOf(log, S)[b] = LastOf(LiveWrites(log, T, b))
<1> DEFINE L == LiveWrites(log, T, b)
           M == LiveWrites(log, S, b)
           p == LastOf(L)
<1>1. /\ S \subseteq 1 .. n /\ T \subseteq 1 .. n
      /\ \A i \in m + 1 .. n : i \in S /\ i \in T
    BY DEF HasEnd
<1>2. L \subseteq T /\ M \subseteq S
    BY LiveSubset
<1>3. L \subseteq 0 .. n /\ M \subseteq 0 .. n
    <2> HIDE DEF L, M
    <2> QED
        BY <1>1, <1>2
<1>4. p \in L \cup {0} /\ \A y \in L : y <= p
    <2> HIDE DEF L
    <2> QED
        BY <1>3, LastOfBound
<1>5. p \in L /\ p \in m + 1 .. n
    <2> HIDE DEF L
    <2> QED
        BY <1>3, <1>4 DEF L
<1>6. p \in M
    <2>1. log[p].block = b /\ \A k \in T : k > p => ~Cuts(log[k], b)
        BY <1>5 DEF LiveWrites
    <2>2. \A k \in S : k > p => k \in m + 1 .. n
        BY <1>1, <1>5
    <2> QED
        BY <1>1, <1>5, <2>1, <2>2 DEF LiveWrites
<1>7. ASSUME NEW y \in M, ~(y <= p) PROVE FALSE
    <2>1. y \in m + 1 .. n /\ y \in T
        BY <1>1, <1>3, <1>5, <1>7
    <2>2. log[y].block = b /\ \A k \in S : k > y => ~Cuts(log[k], b)
        BY <1>7 DEF LiveWrites
    <2>3. \A k \in T : k > y => k \in m + 1 .. n
        BY <1>1, <2>1
    <2>4. y \in L
        BY <1>1, <2>1, <2>2, <2>3 DEF LiveWrites
    <2> QED
        BY <1>4, <1>7, <2>4
<1>8. \A y \in M : y <= p
    BY <1>7
<1> HIDE DEF L, M, p
<1>9. LastOf(M) = p
    BY <1>3, <1>6, <1>8, LastOfIs
<1> QED
    BY <1>9 DEF MapOf, M, p, L

LEMMA CommittedHolds ==
    ASSUME Committed
    PROVE  HeldIn(Len(file)) = raw
<1> DEFINE S == Applied(file, Len(file))
           k == Len(raw)
<1>1. k \in 0 .. MaxSize /\ k \in Nat /\ raw \in Seq(Values)
    BY MaxSizeType DEF Committed
<1>2. /\ Len(file) \in Nat /\ openLen \in 0 .. Len(file) /\ Len(file) > openLen
      /\ \A i \in 1 .. Len(file) : file[i] \in Record
      /\ file[Len(file)] = Flagged(TruncateRecord(k), Commit)
    BY DEF Committed, TypeOK, StorageTypeOK, EndsCut
<1>3. PICK n \in Nat \ {0} : n = Len(file)
    BY <1>2
<1>4. /\ IsTruncate(file[n]) /\ file[n].size = k /\ file[n].flag = Commit
    <2>1. k # NoSize
        BY <1>1 DEF NoSize
    <2> QED
        BY <1>2, <1>3, <2>1 DEF Flagged, TruncateRecord, IsTruncate
<1> HIDE DEF k
<1>5. \A i \in openLen + 1 .. n : AppliedUpTo(file, n, i)
    <2>1. \A i \in openLen + 1 .. n : file[i].flag \in {Commit, Chained}
        BY <1>3 DEF Committed, SessionInv, SessionChain
    <2> QED
        BY <1>2, <1>3, <1>4, <2>1, RunApplies
<1>6. HasEnd(S, openLen, n) /\ HasEnd(InSession, openLen, n)
    BY <1>2, <1>3, <1>5 DEF Applied, InSession, HasEnd
<1>7. SizeOf(file, S) = k
    <2>1. PICK m \in Nat : m + 1 = n
        BY <1>3
    <2>2. n \in S /\ S \subseteq 1 .. n
        BY <1>2, <1>3, <1>6 DEF HasEnd
    <2>3. S \ {n} \subseteq 1 .. m /\ S = (S \ {n}) \cup {m + 1}
        BY <2>1, <2>2
    <2>4. \A i \in (S \ {n}) \cup {m + 1} : Extent(file[i]) \in 0 .. MaxSize
        BY <1>2, <1>3, <2>2, <2>3, ExtentRange
    <2> HIDE DEF S
    <2>5. SizeOf(file, (S \ {n}) \cup {m + 1}) = file[m + 1].size
        BY <1>4, <2>1, <2>3, <2>4, SizeWithNext
    <2> QED
        BY <1>4, <2>1, <2>3, <2>5
<1>8. ASSUME NEW u \in 0 .. k - 1
      PROVE  BlockAt(file, MapOf(file, S)[u \div BlockUnits])[u % BlockUnits] = raw[u + 1]
    <2> DEFINE b == u \div BlockUnits
    <2>1. b \in Block
        BY <1>1, UnitWithin
    <2>2. Remaining = {} /\ PendingWriters(b) = {}
        BY DEF Committed, Remaining, PendingWriters
    <2>3. logicalToPhysical[b] = LastOf(LiveWrites(file, InSession, b))
        BY <2>1, <2>2 DEF Committed, SessionInv, SessionMap
    <2>4. logicalToPhysical[b] > openLen
        BY <2>2 DEF Committed, Rewritten, k
    <2>5. CurrentBlock(b)[u % BlockUnits] = raw[u + 1]
        BY DEF Committed, ReadsRaw, k
    <2>6. CurrentBlock(b) = BlockAt(file, logicalToPhysical[b])
        BY <2>2 DEF CurrentBlock
    <2> HIDE DEF S, b
    <2>7. MapOf(file, S)[b] = logicalToPhysical[b]
        <3>1. n \in Nat /\ openLen \in 0 .. n
            BY <1>2, <1>3
        <3>2. LastOf(LiveWrites(file, InSession, b)) > openLen
            BY <2>3, <2>4
        <3>3. MapOf(file, S)[b] = LastOf(LiveWrites(file, InSession, b))
            BY ONLY <1>6, <2>1, <3>1, <3>2, NewestStays
        <3> QED
            BY <2>3, <3>3
    <2> QED
        BY <2>5, <2>6, <2>7 DEF b
<1> HIDE DEF S
<1>9. \A i \in 1 .. k :
          BlockAt(file, MapOf(file, S)[(i - 1) \div BlockUnits])[(i - 1) % BlockUnits] = raw[i]
    <2> SUFFICES ASSUME NEW i \in 1 .. k
                 PROVE  BlockAt(file, MapOf(file, S)[(i - 1) \div BlockUnits])[(i - 1) % BlockUnits]
                            = raw[i]
        OBVIOUS
    <2>1. PICK u \in 0 .. k - 1 : u = i - 1 /\ u + 1 = i
        BY <1>1
    <2> QED
        BY <1>8, <2>1
<1>10. FileOf(file, S) = [i \in 1 .. k |-> raw[i]]
    BY <1>7, <1>9 DEF FileOf
<1>11. raw = [i \in 1 .. k |-> raw[i]]
    BY <1>1 DEF k
<1> QED
    BY <1>10, <1>11 DEF HeldIn, S

LEMMA CommittedThen ==
    /\ Committed => HeldIn(Len(file)) = raw
    /\ Committed' => (HeldIn(Len(file)) = raw)'
<1>1. Committed => HeldIn(Len(file)) = raw
    BY CommittedHolds
<1> QED
    BY <1>1, PTL

LEMMA SyncStartKeeps ==
    ASSUME ToolInv, tool = "syncing", DOMAIN pending # {}, SyncStart, UNCHANGED toolVars
    PROVE  ToolInv'
<1>1. /\ UNCHANGED <<file, intact, torn, synced, open, openLen, pending, logicalToPhysical>>
      /\ UNCHANGED <<logicalSize, done, tool, raw, offset, out, kept>>
    BY DEF SyncStart, storageVars, toolVars
<1>2. TypeOK' /\ SessionInv' /\ AppendedIsMapped'
    BY TypeStep, SessionStep, AppendedStep DEF ToolInv, ToolTypeOK, Next
<1>3. LogFramed' /\ KeptInv'
    BY <1>1, QuietLog DEF storageVars
<1>4. Copied' /\ ReadBack'
    BY <1>1 DEF Copied, ReadBack, Exporting
<1>5. Replacing'
    <2>1. ReadsRaw(Len(raw)) /\ Rewritten /\ EndsCut
        BY DEF ToolInv, Replacing
    <2>2. ReadsRaw(Len(raw))'
        BY <1>1, <2>1 DEF ReadsRaw, CurrentBlock, PendingWriters
    <2>3. Rewritten' /\ EndsCut'
        BY <1>1, <2>1 DEF Rewritten, Remaining, EndsCut, LastSlot
    <2> QED
        BY <2>2, <2>3 DEF Replacing
<1>6. ToolTypeOK' /\ ToolState'
    BY <1>1, <1>2 DEF ToolInv, ToolTypeOK, ToolState, Importing, Exporting
<1> QED
    BY <1>2, <1>3, <1>4, <1>5, <1>6 DEF ToolInv

LEMMA SyncAppendKeepsTool ==
    ASSUME ToolInv, tool = "syncing", SyncAppend, UNCHANGED toolVars
    PROVE  ToolInv'
<1> DEFINE n == Len(raw)
<1>1. /\ TypeOK /\ SessionInv /\ AppendedIsMapped /\ intact = Len(file) /\ ~torn /\ KeptInv
      /\ open /\ ReadsRaw(n) /\ Rewritten /\ EndsCut /\ raw \in kept
    BY DEF ToolInv, ToolTypeOK, LogFramed, ToolState, Replacing, Importing
<1>2. PICK s \in DOMAIN pending :
           /\ s > done /\ \A t \in DOMAIN pending : t > done => s <= t
           /\ Len(file') = Len(file) + 1 /\ Len(file) \in Nat
           /\ \A i \in 1 .. Len(file) : file'[i] = file[i]
           /\ file'[Len(file) + 1] = Flagged(pending[s], FlagOf(s))
           /\ logicalToPhysical' =
                  [b \in Block |-> IF pending[s].block = b THEN Len(file) + 1
                                   ELSE logicalToPhysical[b]]
           /\ \/ s # LastSlot /\ done' = s /\ UNCHANGED <<pending, pc>>
              \/ s = LastSlot /\ pending' = NothingPending /\ pc' = "flushing"
    BY <1>1, SyncAppendIs
<1>3. UNCHANGED <<open, openLen, logicalSize, synced, tool, raw, offset, out, kept>>
    BY DEF SyncAppend, AppendSucceeds, toolVars
<1>4. TypeOK' /\ SessionInv' /\ AppendedIsMapped'
    BY <1>1, TypeStep, SessionStep, AppendedStep DEF Next, SyncStep
<1>5. intact' = Len(file') /\ ~torn'
    BY <1>1, <1>2 DEF SyncAppend, AppendSucceeds
<1>6. n \in 0 .. MaxSize /\ n \in Nat /\ raw \in Seq(Values)
    BY RawType
<1>7. LastSlot \in Nat /\ \A t \in DOMAIN pending : t \in Nat /\ t > 0 /\ t <= LastSlot
    BY <1>1, LastSlotType, SlotType
<1>8. openLen \in 0 .. Len(file)
    BY <1>1 DEF TypeOK
<1>9. ReadsRaw(n)'
    <2>1. \A u \in 0 .. n - 1 :
              CurrentBlock(u \div BlockUnits)' = CurrentBlock(u \div BlockUnits)
        BY <1>1, <1>6, UnitWithin, SyncAppendKeeps
    <2> QED
        BY <1>1, <1>3, <2>1 DEF ReadsRaw
<1>10. Rewritten'
    <2> SUFFICES ASSUME NEW u \in 0 .. n - 1
                 PROVE  \/ \E t \in Remaining' : pending'[t].block = u \div BlockUnits
                        \/ logicalToPhysical'[u \div BlockUnits] > openLen
        BY <1>3 DEF Rewritten
    <2>1. u \div BlockUnits \in Block
        BY <1>6, UnitWithin
    <2> DEFINE b == u \div BlockUnits
    <2>2. \/ \E t \in Remaining : pending[t].block = b
          \/ logicalToPhysical[b] > openLen
        BY <1>1 DEF Rewritten
    <2> HIDE DEF b
    <2>3. CASE pending[s].block = b
        <3>1. logicalToPhysical'[b] = Len(file) + 1
            BY <1>2, <2>1, <2>3 DEF b
        <3> QED
            BY <1>2, <1>8, <3>1 DEF b
    <2>4. CASE pending[s].block # b
        <3>1. logicalToPhysical'[b] = logicalToPhysical[b]
            BY <1>2, <2>1, <2>4 DEF b
        <3>2. ASSUME NEW t \in Remaining, pending[t].block = b
              PROVE  t \in Remaining' /\ pending'[t].block = b
            <4>1. t \in DOMAIN pending /\ t # s /\ s <= t /\ t <= LastSlot
                BY <1>2, <1>7, <2>4, <3>2 DEF Remaining
            <4>2. s # LastSlot /\ done' = s /\ pending' = pending /\ s < t
                BY <1>2, <1>7, <4>1
            <4> QED
                BY <3>2, <4>1, <4>2 DEF Remaining
        <3> QED
            BY <2>2, <3>1, <3>2 DEF b
    <2> QED
        BY <2>3, <2>4
<1>11. ASSUME s # LastSlot PROVE EndsCut' /\ KeptInv'
    <2>1. pending' = pending /\ LastSlot' = LastSlot /\ FlagOf(s) = Chained
        BY <1>2, <1>11 DEF LastSlot, FlagOf
    <2>2. file'[Len(file) + 1].flag = Chained
        BY <1>2, <2>1 DEF Flagged
    <2>3. EndsCut'
        <3>1. /\ pending[LastSlot] = TruncateRecord(n)
              /\ \A i \in openLen + 1 .. Len(file) : file[i].flag = Chained
            BY <1>1, <1>2 DEF EndsCut
        <3>2. \A i \in openLen + 1 .. Len(file) + 1 : file'[i].flag = Chained
            BY <1>2, <1>8, <2>2, <3>1
        <3> QED
            BY <1>2, <1>3, <2>1, <3>1, <3>2 DEF EndsCut
    <2>4. KeptInv'
        <3>1. Extends(Len(file)) /\ file'[Len(file) + 1].flag # Commit
            BY <1>2, <2>2 DEF Extends, Chained, Commit
        <3> QED
            BY <1>1, <1>2, <1>3, <3>1, LongerKept
    <2> QED
        BY <2>3, <2>4
<1>12. ASSUME s = LastSlot PROVE EndsCut' /\ KeptInv'
    <2>1. pending' = NothingPending /\ DOMAIN pending' = {}
        BY <1>2, <1>12, NothingType
    <2>2. pending[s] = TruncateRecord(n) /\ FlagOf(s) = Commit
        BY <1>1, <1>2, <1>12 DEF EndsCut, FlagOf
    <2>3. EndsCut'
        BY <1>2, <1>3, <1>8, <2>1, <2>2 DEF EndsCut
    <2>4. Committed'
        BY <1>1, <1>3, <1>4, <1>6, <1>9, <1>10, <2>1, <2>3 DEF Committed, ReadsRaw
    <2>5. HeldIn(Len(file))' \in kept'
        BY <1>1, <1>3, <2>4, CommittedThen
    <2>6. KeptInv'
        <3>1. Extends(Len(file))
            BY <1>2 DEF Extends
        <3> QED
            BY <1>1, <1>2, <1>3, <2>5, <3>1, LongerKept
    <2> QED
        BY <2>3, <2>6
<1>13. EndsCut' /\ KeptInv'
    BY <1>11, <1>12
<1>14. Replacing'
    BY <1>3, <1>9, <1>10, <1>13 DEF Replacing, ReadsRaw
<1>15. LogFramed' /\ Copied' /\ ReadBack'
    BY <1>3, <1>5 DEF LogFramed, Copied, ReadBack, Exporting
<1>16. ToolTypeOK' /\ ToolState'
    BY <1>1, <1>3, <1>4 DEF ToolInv, ToolTypeOK, ToolState, Importing, Exporting
<1> QED
    BY <1>4, <1>13, <1>14, <1>15, <1>16 DEF ToolInv

LEMMA SucceedsKeeps ==
    ASSUME ToolInv, ImportSucceeds
    PROVE  ToolInv'
<1>1. /\ tool = "syncing" /\ pc = "flushing" /\ FsyncSucceeds /\ Return /\ kept' = {raw}
      /\ TypeOK /\ SessionInv /\ intact = Len(file)
    BY DEF ImportSucceeds, ToolInv, ToolTypeOK, LogFramed
<1>2. raw \in Seq(Values) /\ Len(raw) \in 0 .. MaxSize
    BY RawType
<1>3. Committed
    BY <1>1, <1>2 DEF Committed, ToolInv, Replacing, SessionInv, SyncState
<1>4. HeldIn(Len(file)) = raw
    BY <1>3, CommittedHolds
<1>5. UNCHANGED <<file, intact, torn>> /\ synced' = Len(file)
    BY <1>1 DEF FsyncSucceeds
<1>6. Len(file) \in Nat
    BY <1>1 DEF TypeOK, StorageTypeOK
<1>7. StorageTypeOK'
    BY <1>1, <1>5, <1>6 DEF TypeOK, StorageTypeOK
<1>8. KeptInv'
    <2>1. \A m \in Len(file) .. Len(file) : m = Len(file)
        BY <1>6
    <2>2. HeldIn(Len(file))' = raw
        BY <1>4, <1>5 DEF HeldIn
    <2> QED
        BY <1>1, <1>4, <1>5, <2>1, <2>2 DEF KeptInv, HeldIn
<1> QED
    BY <1>1, <1>2, <1>5, <1>7, <1>8, ReturnKeeps

-----------------------------------------------------------------------------
(* Reading the log into the raw file.                                      *)

LEMMA ExportOpenKeeps ==
    ASSUME ToolInv, ExportOpen
    PROVE  ToolInv'
<1>1. /\ Open /\ tool = "none" /\ tool' = "reading"
      /\ UNCHANGED <<raw, offset, out, kept>>
    BY DEF ExportOpen
<1>2. offset = 0 /\ out = <<>>
    BY <1>1 DEF ToolInv, ToolState, Exporting
<1>3. /\ TypeOK' /\ SessionInv' /\ AppendedIsMapped' /\ LogFramed' /\ KeptInv'
      /\ open' /\ openLen' = Len(file') /\ pc' = "idle" /\ DOMAIN pending' = {}
      /\ logicalToPhysical' = RecoveredMap(file', Len(file'))
      /\ logicalSize' = RecoveredSize(file', Len(file'))
    BY <1>1, OpensLog
<1>4. 0 <= logicalSize'
    BY <1>3, MaxSizeType DEF TypeOK
<1>5. ToolTypeOK'
    BY <1>1, <1>2, <1>3, <1>4 DEF ToolInv, ToolTypeOK
<1>6. ToolState'
    BY <1>1, <1>2, <1>3 DEF ToolState, Importing, Exporting
<1>7. ReadBack'
    <2>1. 0 % BlockUnits = 0
        BY FormatAssumption
    <2>2. Served(offset)' = <<>>
        <3> DEFINE f == Served(offset)'
        <3>1. f = [i \in 1 .. 0 |-> f[i]]
            BY <1>1, <1>2 DEF Served
        <3> HIDE DEF f
        <3>2. f = <<>>
            BY <3>1, EmptyFunction
        <3> QED
            BY <3>2 DEF f
    <2> QED
        BY <1>1, <1>2, <1>3, <1>4, <2>1, <2>2 DEF ReadBack
<1>8. Copied' /\ Replacing'
    BY <1>1 DEF Copied, Replacing
<1> QED
    BY <1>3, <1>5, <1>6, <1>7, <1>8 DEF ToolInv

LEMMA NextBlock ==
    ASSUME NEW q \in Nat, NEW k \in Nat \ {0}
    PROVE  (q * k + k) % k = 0
OBVIOUS

(* A chunk appended to what has been served.                               *)
LEMMA ServedOn ==
    ASSUME TypeOK, NEW n \in Nat, NEW m \in 1 .. BlockUnits, n + m <= MaxSize,
           n % BlockUnits = 0, Served(n) \in Seq(Values)
    PROVE  /\ Served(n) \o [i \in 1 .. m |-> CurrentBlock(n \div BlockUnits)[i - 1]] = Served(n + m)
           /\ Served(n + m) \in Seq(Values) /\ Len(Served(n + m)) = n + m
<1> DEFINE q == n \div BlockUnits
           chunk == [i \in 1 .. m |-> CurrentBlock(q)[i - 1]]
<1>1. /\ n \in 0 .. MaxSize - 1 /\ m \in Nat /\ m >= 1 /\ m <= BlockUnits
      /\ BlockUnits \in Nat \ {0}
    BY MaxSizeType, FormatAssumption
<1>2. q \in Block /\ q \in Nat /\ n = q * BlockUnits
    <2>1. n = q * BlockUnits + (n % BlockUnits) /\ q \in Block
        BY <1>1, UnitSplit
    <2>2. q \in Nat /\ q * BlockUnits \in Nat
        BY <1>1, <2>1 DEF Block
    <2> QED
        BY <2>1, <2>2
<1> HIDE DEF q
<1>3. ASSUME NEW u \in n .. n + m - 1
      PROVE  u \div BlockUnits = q /\ u % BlockUnits = u - n /\ u \in 0 .. MaxSize - 1
    <2>1. u \in 0 .. MaxSize - 1 /\ u \in q * BlockUnits .. q * BlockUnits + BlockUnits - 1
        <3>1. u \in n .. n + BlockUnits - 1 /\ u \in 0 .. MaxSize - 1
            BY <1>1, MaxSizeType
        <3> QED
            BY <1>2, <3>1
    <2>2. u \div BlockUnits = q
        BY <1>1, <1>2, <2>1, UnitsOfBlock
    <2>3. u = q * BlockUnits + (u % BlockUnits) /\ u % BlockUnits \in Int
        <3>1. u = (u \div BlockUnits) * BlockUnits + (u % BlockUnits)
            BY ONLY <2>1, UnitSplit
        <3>2. u % BlockUnits \in Int
            BY ONLY <1>1, <2>1, UnitSplit
        <3> QED
            BY ONLY <2>2, <3>1, <3>2
    <2> QED
        BY <1>2, <2>1, <2>2, <2>3
<1>4. ASSUME NEW u \in 0 .. n + m - 1
      PROVE  CurrentBlock(u \div BlockUnits)[u % BlockUnits] \in Values
    <2>1. u \in 0 .. MaxSize - 1
        BY <1>1, MaxSizeType
    <2>2. u \div BlockUnits \in Block /\ u % BlockUnits \in 0 .. BlockUnits - 1
        BY <2>1, UnitSplit
    <2> QED
        BY <2>2, CurrentBlockType DEF BlockData
<1>5. Served(n + m) \in [1 .. n + m -> Values]
    <2>1. \A i \in 1 .. n + m : i - 1 \in 0 .. n + m - 1
        BY <1>1
    <2> QED
        BY <1>4, <2>1 DEF Served
<1>6. chunk \in [1 .. m -> Values]
    <2> SUFFICES ASSUME NEW i \in 1 .. m PROVE CurrentBlock(q)[i - 1] \in Values
        OBVIOUS
    <2>1. i - 1 \in 0 .. BlockUnits - 1
        BY <1>1
    <2> QED
        BY <1>2, <2>1, CurrentBlockType DEF BlockData
<1>7. Len(Served(n)) = n
    BY DEF Served
<1>8. \A i \in 1 .. n : Served(n)[i] = Served(n + m)[i]
    BY <1>1 DEF Served
<1>9. ASSUME NEW i \in n + 1 .. n + m PROVE chunk[i - n] = Served(n + m)[i]
    <2>1. PICK u \in n .. n + m - 1 : u = i - 1
        BY <1>1
    <2>2. u \div BlockUnits = q /\ u % BlockUnits = u - n
        BY <1>3
    <2>3. i \in 1 .. n + m /\ i - n \in 1 .. m /\ u - n = i - n - 1
        BY <1>1, <2>1
    <2>4. Served(n + m)[i] = CurrentBlock((i - 1) \div BlockUnits)[(i - 1) % BlockUnits]
        BY <2>3 DEF Served
    <2>5. chunk[i - n] = CurrentBlock(q)[i - n - 1]
        BY <2>3
    <2> QED
        BY <2>1, <2>2, <2>3, <2>4, <2>5
<1> HIDE DEF chunk
<1>10. chunk \in Seq(Values) /\ Len(chunk) = m
    BY <1>1, <1>6
<1> DEFINE joined == Served(n) \o chunk
<1>11. /\ joined \in Seq(Values) /\ Len(joined) = n + m
       /\ \A i \in 1 .. n + m : joined[i] = IF i <= n THEN Served(n)[i] ELSE chunk[i - n]
    <2>1. /\ joined \in Seq(Values) /\ Len(joined) = Len(Served(n)) + Len(chunk)
          /\ \A i \in 1 .. Len(Served(n)) + Len(chunk) :
                 joined[i] = IF i <= Len(Served(n)) THEN Served(n)[i]
                             ELSE chunk[i - Len(Served(n))]
        BY <1>10, ConcatProperties
    <2> HIDE DEF joined
    <2> QED
        BY <1>7, <1>10, <2>1
<1> HIDE DEF joined
<1>12. joined \in [1 .. n + m -> Values]
    BY <1>1, <1>11
<1>13. \A i \in 1 .. n + m : joined[i] = Served(n + m)[i]
    BY <1>1, <1>8, <1>9, <1>11
<1>14. joined = Served(n + m)
    BY <1>5, <1>12, <1>13, SameFunction
<1> QED
    BY <1>11, <1>14 DEF joined, chunk, q

LEMMA ReadKeeps ==
    ASSUME ToolInv, ReadChunk
    PROVE  ToolInv'
<1> DEFINE m == Smaller(BlockUnits, logicalSize - offset)
<1>1. /\ tool = "reading" /\ offset < logicalSize
      /\ out' = out \o [i \in 1 .. m |-> CurrentBlock(offset \div BlockUnits)[i - 1]]
      /\ offset' = offset + m
      /\ UNCHANGED <<storageVars, mapperVars, tool, raw, kept>>
    BY DEF ReadChunk
<1>2. /\ UNCHANGED <<file, intact, torn, synced, open, openLen, pending, logicalToPhysical>>
      /\ UNCHANGED <<logicalSize, pc, done, tool, raw, kept>>
    BY <1>1 DEF storageVars, mapperVars
<1>3. /\ TypeOK /\ out = Served(offset) /\ offset % BlockUnits = 0
      /\ DOMAIN pending = {} /\ logicalToPhysical = RecoveredMap(file, Len(file))
      /\ logicalSize = RecoveredSize(file, Len(file))
      /\ offset \in Nat /\ logicalSize \in 0 .. MaxSize /\ out \in Seq(Values)
    <2>1. offset \in 0 .. MaxSize /\ logicalSize \in 0 .. MaxSize
        BY DEF ToolInv, ToolTypeOK, TypeOK
    <2>2. offset # logicalSize /\ offset \in Nat
        BY <1>1, <2>1, MaxSizeType
    <2> QED
        BY <1>1, <2>1, <2>2 DEF ToolInv, ToolTypeOK, ReadBack, Exporting
<1>4. /\ m \in 1 .. BlockUnits /\ m \in Nat /\ offset + m <= logicalSize
      /\ m = BlockUnits \/ offset + m = logicalSize
    BY <1>1, <1>3, MaxSizeType, FormatAssumption DEF Smaller
<1> HIDE DEF m
<1>5. offset + m <= MaxSize /\ offset + m \in 0 .. MaxSize
    BY <1>3, <1>4, MaxSizeType
<1>6. /\ out' = Served(offset + m) /\ out' \in Seq(Values) /\ Len(out') = offset + m
    BY <1>1, <1>3, <1>4, <1>5, ServedOn
<1>7. Served(offset)' = Served(offset + m)
    BY <1>1, <1>2 DEF Served, CurrentBlock, PendingWriters
<1>8. m = BlockUnits => (offset + m) % BlockUnits = 0
    <2>1. offset \in 0 .. MaxSize - 1
        BY <1>1, <1>3, MaxSizeType
    <2>2. /\ offset \div BlockUnits \in Block
          /\ offset = (offset \div BlockUnits) * BlockUnits + (offset % BlockUnits)
        BY <2>1, UnitSplit
    <2>3. PICK q \in Nat : q = offset \div BlockUnits
        BY <2>2 DEF Block
    <2>4. offset = q * BlockUnits /\ BlockUnits \in Nat \ {0}
        <3>1. q * BlockUnits \in Nat
            BY FormatAssumption
        <3> QED
            BY <1>3, <2>2, <2>3, <3>1, FormatAssumption
    <2>5. (q * BlockUnits + BlockUnits) % BlockUnits = 0
        BY <2>4, NextBlock
    <2> QED
        BY <2>4, <2>5
<1>9. ReadBack'
    <2>1. /\ tool' = "reading" /\ offset' <= logicalSize' /\ out' = Served(offset)'
          /\ offset' % BlockUnits = 0 \/ offset' = logicalSize'
        BY <1>1, <1>2, <1>4, <1>6, <1>7, <1>8
    <2> QED
        BY <1>2, <1>3, <2>1 DEF ReadBack
<1>10. TypeOK' /\ SessionInv' /\ AppendedIsMapped'
    BY <1>1, TypeStep, SessionStep, AppendedStep DEF ToolInv, ToolTypeOK, vars
<1>11. LogFramed' /\ KeptInv'
    BY <1>1, <1>2, QuietLog
<1>12. ToolTypeOK'
    BY <1>1, <1>2, <1>4, <1>5, <1>6, <1>10 DEF ToolInv, ToolTypeOK
<1>13. ToolState' /\ Copied' /\ Replacing'
    BY <1>1, <1>2 DEF ToolInv, ToolState, Importing, Exporting, Copied, Replacing
<1> QED
    BY <1>9, <1>10, <1>11, <1>12, <1>13 DEF ToolInv

LEMMA ExportSucceedsKeeps ==
    ASSUME ToolInv, ExportSucceeds
    PROVE  ToolInv'
<1>1. /\ UNCHANGED <<file, intact, torn, synced, open, openLen, pending, logicalToPhysical>>
      /\ UNCHANGED <<logicalSize, pc, done, raw, offset, out, kept>>
      /\ tool = "reading" /\ tool' = "exported" /\ offset >= logicalSize
    BY DEF ExportSucceeds, storageVars, mapperVars
<1>2. TypeOK' /\ SessionInv' /\ AppendedIsMapped'
    BY <1>1, TypeStep, SessionStep, AppendedStep
       DEF ToolInv, ToolTypeOK, vars, storageVars, mapperVars
<1>3. LogFramed' /\ KeptInv'
    BY <1>1, QuietLog DEF storageVars
<1>4. offset = logicalSize
    BY <1>1, MaxSizeType DEF ToolInv, ToolTypeOK, TypeOK
<1>5. ReadBack'
    BY <1>1, <1>4 DEF ToolInv, ReadBack, Exporting, Served, CurrentBlock, PendingWriters
<1>6. Copied' /\ Replacing'
    BY <1>1 DEF Copied, Replacing
<1>7. ToolTypeOK' /\ ToolState'
    BY <1>1, <1>2 DEF ToolInv, ToolTypeOK, ToolState, Importing, Exporting
<1> QED
    BY <1>2, <1>3, <1>5, <1>6, <1>7 DEF ToolInv

-----------------------------------------------------------------------------
(* The theorems.                                                           *)

LEMMA ToolStep ==
    ASSUME ToolInv, [ToolNext]_allVars
    PROVE  ToolInv'
<1>1. CASE \E r \in RawFiles : ImportStart(r)
    BY <1>1, StartKeeps
<1>2. CASE ExportOpen
    BY <1>2, ExportOpenKeeps
<1>3. CASE Import
    <2>1. CASE ImportOpen
        BY <2>1, ImportOpenKeeps
    <2>2. CASE CopyChunk
        BY <2>2, CopyKeeps
    <2>3. CASE CopyEnds
        BY <2>3, CopyEndsKeeps
    <2>4. CASE Cut
        BY <2>4, CutKeeps
    <2>5. CASE ImportSync
        BY <2>5, SyncStartKeeps, SyncAppendKeepsTool DEF ImportSync
    <2>6. CASE ImportSucceeds
        BY <2>6, SucceedsKeeps
    <2> QED
        BY <1>3, <2>1, <2>2, <2>3, <2>4, <2>5, <2>6 DEF Import
<1>4. CASE Export
    BY <1>4, ReadKeeps, ExportSucceedsKeeps, FailureKeeps DEF Export
<1>5. CASE Failure
    BY <1>5, OpenFailsKeeps, FailureKeeps DEF Failure
<1>6. CASE UNCHANGED allVars
    <2>1. UNCHANGED vars /\ UNCHANGED toolVars
        BY <1>6 DEF allVars
    <2>2. /\ UNCHANGED <<file, intact, torn, synced, open, openLen, pending, logicalToPhysical>>
          /\ UNCHANGED <<logicalSize, pc, done, tool, raw, offset, out, kept>>
        BY <2>1 DEF vars, storageVars, mapperVars, toolVars
    <2>3. TypeOK' /\ SessionInv' /\ AppendedIsMapped'
        BY <2>1, TypeStep, SessionStep, AppendedStep DEF ToolInv, ToolTypeOK
    <2>4. ToolTypeOK' /\ ToolState' /\ LogFramed' /\ KeptInv'
        BY <2>2, <2>3 DEF ToolInv, ToolTypeOK, ToolState, LogFramed, KeptInv, HeldIn,
                          Importing, Exporting
    <2>5. Copied'
        <3>1. /\ \A b : CurrentBlock(b)' = CurrentBlock(b)
              /\ \A b : PendingWriters(b)' = PendingWriters(b)
            BY <2>2 DEF CurrentBlock, PendingWriters
        <3>2. \A k : ReadsRaw(k) => ReadsRaw(k)'
            BY <2>2, <3>1 DEF ReadsRaw
        <3>3. \A k : Batch(k) => Batch(k)'
            BY <2>2, <3>1, <3>2 DEF Batch
        <3> QED
            BY <2>2, <3>3 DEF ToolInv, Copied
    <2>6. Replacing'
        BY <2>2 DEF ToolInv, Replacing, ReadsRaw, Rewritten, EndsCut, CurrentBlock,
                    PendingWriters, Remaining, LastSlot
    <2>7. ReadBack'
        BY <2>2 DEF ToolInv, ReadBack, Served, CurrentBlock, PendingWriters, Exporting
    <2> QED
        BY <2>3, <2>4, <2>5, <2>6, <2>7 DEF ToolInv
<1> QED
    BY <1>1, <1>2, <1>3, <1>4, <1>5, <1>6 DEF ToolNext

LEMMA InitTool == ToolInit => ToolInv
<1> SUFFICES ASSUME ToolInit PROVE ToolInv
    OBVIOUS
<1>1. PICK log \in OldLogs : /\ file = log /\ intact = Len(log) /\ synced = Len(log)
                             /\ kept = {Held(log)}
    BY DEF ToolInit
<1>2. /\ torn = FALSE /\ open = FALSE /\ openLen = 0 /\ pending = NothingPending
      /\ logicalToPhysical = Unmapped /\ logicalSize = 0 /\ pc = "idle" /\ done = 0
      /\ tool = "none" /\ raw = <<>> /\ offset = 0 /\ out = <<>>
    BY DEF ToolInit
<1>3. file \in Seq(Record) /\ Len(file) \in Nat
    BY <1>1, ToolAssumption
<1>4. TypeOK
    <2>1. 0 \in 0 .. Len(file) /\ Len(file) \in 0 .. Len(file) /\ 0 \in 0 .. MaxSize
          /\ 0 \in 0 .. MaxPending
        BY <1>3, MaxSizeType, BoundsAssumption
    <2>2. StorageTypeOK
        BY <1>1, <1>2, <1>3, <2>1 DEF StorageTypeOK
    <2>3. DOMAIN pending \subseteq Slot /\ pending \in [DOMAIN pending -> Payload]
        BY <1>2, NothingType
    <2>4. logicalToPhysical \in [Block -> 0 .. Len(file)]
        BY <1>2, <2>1 DEF Unmapped
    <2> QED
        BY <1>2, <2>1, <2>2, <2>3, <2>4 DEF TypeOK
<1>5. SessionInv
    <2>1. DOMAIN pending = {}
        BY <1>2, NothingType
    <2> QED
        BY <1>2, <2>1 DEF SessionInv, PendingOrdered, SessionMap, CutIsUnmapped, SessionChain,
                          SyncState
<1>6. HeldIn(Len(file)) = Held(log)
    BY <1>1, HeldIs DEF HeldIn
<1>7. Held(log) \in Seq(Values)
    <2>1. Applied(file, Len(file)) \subseteq 1 .. Len(file) /\ \A i \in 1 .. Len(file) : file[i] \in Record
        BY <1>3 DEF Applied
    <2> QED
        BY <1>1, <1>3, <2>1, HeldIs, FileType
<1>8. KeptInv
    <2>1. \A n \in Len(file) .. Len(file) : n = Len(file)
        BY <1>3
    <2> QED
        BY <1>1, <1>6, <2>1 DEF KeptInv
<1>9. ToolTypeOK
    <2>1. 0 \in 0 .. MaxSize /\ <<>> \in Seq(Values)
        BY MaxSizeType
    <2> QED
        BY <1>1, <1>2, <1>4, <1>7, <2>1 DEF ToolTypeOK
<1>10. AppendedIsMapped /\ ToolState /\ LogFramed /\ Copied /\ Replacing /\ ReadBack
    BY <1>1, <1>2 DEF AppendedIsMapped, ToolState, LogFramed, Copied, Replacing, ReadBack,
                      Importing, Exporting
<1> QED
    BY <1>5, <1>8, <1>9, <1>10 DEF ToolInv

(* What is kept is what the log holds once a part of a record is completed.*)
LEMMA AtomicHolds == ToolInv => ImportIsAtomic
<1> SUFFICES ASSUME ToolInv PROVE ImportIsAtomic
    OBVIOUS
<1>1. TypeOK /\ intact = Len(file) /\ KeptInv
    BY DEF ToolInv, ToolTypeOK, LogFramed
<1>2. Len(file) \in synced .. Len(file)
    BY <1>1 DEF TypeOK, StorageTypeOK
<1>3. Held(Framed) = HeldIn(Len(file))
    BY <1>1, HeldFramed
<1> QED
    BY <1>1, <1>2, <1>3 DEF ImportIsAtomic, KeptInv

LEMMA RoundTripHolds == ToolInv => RoundTrip
<1> SUFFICES ASSUME ToolInv, tool = "exported" PROVE out \in kept
    BY DEF RoundTrip
<1>1. TypeOK /\ KeptInv
    BY DEF ToolInv, ToolTypeOK
<1>2. /\ DOMAIN pending = {} /\ logicalToPhysical = RecoveredMap(file, Len(file))
      /\ logicalSize = RecoveredSize(file, Len(file)) /\ out = Served(logicalSize)
    BY DEF ToolInv, ReadBack, Exporting
<1>3. \A b : CurrentBlock(b) = BlockAt(file, logicalToPhysical[b])
    BY <1>2 DEF CurrentBlock, PendingWriters
<1>4. Served(logicalSize) = HeldIn(Len(file))
    BY <1>2, <1>3 DEF Served, HeldIn, FileOf, RecoveredMap, RecoveredSize
<1>5. Len(file) \in synced .. Len(file)
    BY <1>1 DEF TypeOK, StorageTypeOK
<1> QED
    BY <1>1, <1>2, <1>4, <1>5 DEF KeptInv

LEMMA ToolInvariant == ToolSpec => []ToolInv
<1>1. ToolInit => ToolInv
    BY InitTool
<1>2. ToolInv /\ [ToolNext]_allVars => ToolInv'
    BY ToolStep
<1> QED
    BY <1>1, <1>2, PTL DEF ToolSpec

(* The tool's variables and the mapper's have their types: the raw file    *)
(* written by an export is as long as the loop has come, and never longer  *)
(* than the file (ImportLog, ExportLog).                                   *)
THEOREM ToolTypeCorrect == ToolSpec => []ToolTypeOK
<1>1. ToolInv => ToolTypeOK
    BY DEF ToolInv
<1> QED
    BY <1>1, ToolInvariant, PTL

(* What an export that returns OK has written is, unit for unit and as     *)
(* long, what the log held at first, nothing, or a raw file imported; after*)
(* an import that returned OK it is that raw file or a later one           *)
(* (ImportLog, ExportLog).                                                 *)
THEOREM ExportReturnsImport == ToolSpec => []RoundTrip
<1>1. ToolInv => RoundTrip
    BY RoundTripHolds
<1> QED
    BY <1>1, ToolInvariant, PTL

(* Whatever step an import fails or dies at, also one whose target could   *)
(* not be deleted and ends in a chain, the next open finds what the log    *)
(* held before, none, or the whole raw file (ImportLog).                   *)
THEOREM ImportTakesEffectWhole == ToolSpec => []ImportIsAtomic
<1>1. ToolInv => ImportIsAtomic
    BY AtomicHolds
<1> QED
    BY <1>1, ToolInvariant, PTL
=============================================================================
