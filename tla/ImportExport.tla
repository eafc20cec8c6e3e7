---------------------------- MODULE ImportExport ----------------------------
(* The log tool over a local log: an import deletes the target, writes the *)
(* raw file through a mapper, cuts the log to the raw file's size and      *)
(* syncs once; an export reads the log through a mapper into a raw file.   *)
(* Each runs in a process of its own, which may die at any step; the       *)
(* mapper and the file are BlockMapper's.                                  *)
EXTENDS BlockMapper

CONSTANTS
    RawFiles,   \* bound: the raw files imported, as sequences of units
    OldLogs     \* bound: the logs the target may hold at first

ASSUME ToolAssumption ==
    /\ RawFiles \subseteq Seq(Inputs)
    /\ \A r \in RawFiles : Len(r) <= MaxSize
    /\ OldLogs \subseteq Seq(Record)

VARIABLES
    tool,       \* what the tool does: "none", or a step of import or export
    raw,        \* import: the raw file
    offset,     \* offset of either loop
    out,        \* export: the raw file written so far
    kept        \* history: the files the log may hold by what the imports so
                \* far returned, as sequences of units

toolVars == <<tool, raw, offset, out, kept>>

(* The logical file a log holds, to the unit.                              *)
Held(log) ==
    LET map == RecoveredMap(log, Len(log))
    IN  [i \in 1 .. RecoveredSize(log, Len(log)) |->
            BlockAt(log, map[(i - 1) \div BlockUnits])[(i - 1) % BlockUnits]]

ToolInit ==
    /\ \E log \in OldLogs : /\ file = log
                            /\ intact = Len(log)
                            /\ synced = Len(log)
                            /\ kept = {Held(log)}
    /\ torn = FALSE
    /\ open = FALSE /\ openLen = 0 /\ pending = NothingPending
    /\ logicalToPhysical = Unmapped /\ logicalSize = 0
    /\ pc = "idle" /\ done = 0
    /\ tool = "none" /\ raw = <<>> /\ offset = 0 /\ out = <<>>

(* The process ends: its mapper and storage are gone, nothing is synced.   *)
Return ==
    /\ Forget
    /\ tool' = "none"
    /\ raw' = <<>> /\ offset' = 0 /\ out' = <<>>

-----------------------------------------------------------------------------
(* Import.                                                                 *)

(* The old log is gone and Open creates an empty file; or deleting fails,  *)
(* which is a warning only, and the old log stays.                         *)
DeleteStoragePath(r) ==
    \/ /\ file' = <<>> /\ intact' = 0 /\ torn' = FALSE /\ synced' = 0
       /\ kept' = kept \cup {<<>>}
    \/ /\ Len(file) + Len(r) + 2 <= MaxLog       \* bound: room for the import
       /\ UNCHANGED <<storageVars, kept>>

ImportStart(r) ==
    /\ tool = "none"
    /\ DeleteStoragePath(r)
    /\ tool' = "importOpen"
    /\ raw' = r
    /\ UNCHANGED <<mapperVars, offset, out>>

ImportOpen ==
    /\ tool = "importOpen"
    /\ Open
    /\ tool' = "copying"
    /\ kept' = kept \cup {raw}
    /\ UNCHANGED <<raw, offset, out>>

ImportOpenFails ==
    /\ tool = "importOpen"
    /\ tool' = "none" /\ raw' = <<>>
    /\ OpenFails
    /\ UNCHANGED <<offset, out, kept>>

(* read returns n units, at most a buffer and what is left.                *)
Chunk(n) == [i \in 0 .. n - 1 |-> raw[offset + i + 1]]

(* Broken variant: a read that returns less than a buffer ends the loop.   *)
CopyChunkEndsShort ==
    /\ tool = "copying"
    /\ \E n \in 1 .. Smaller(BlockUnits, Len(raw) - offset) :
        /\ Write(offset, n, Chunk(n))
        /\ offset' = offset + n
        /\ tool' = IF n < BlockUnits THEN "cutting" ELSE "copying"
    /\ UNCHANGED <<raw, out, kept>>

(* One turn of ImportLog's loop.                                           *)
CopyChunk ==
    /\ tool = "copying"
    /\ \E n \in 1 .. Smaller(BlockUnits, Len(raw) - offset) :
        /\ Write(offset, n, Chunk(n))
        /\ offset' = offset + n
    /\ UNCHANGED <<tool, raw, out, kept>>

CopyEnds ==
    /\ tool = "copying" /\ offset = Len(raw)
    /\ tool' = "cutting"
    /\ UNCHANGED <<storageVars, mapperVars, raw, offset, out, kept>>

(* Broken variant: the size is left to the writes.                         *)
CutNothing ==
    /\ tool = "cutting" /\ Idle
    /\ tool' = "syncing"
    /\ UNCHANGED <<storageVars, mapperVars, raw, offset, out, kept>>

Cut ==
    /\ tool = "cutting"
    /\ Truncate(Len(raw))
    /\ tool' = "syncing"
    /\ UNCHANGED <<raw, offset, out, kept>>

ImportSync ==
    /\ tool = "syncing" /\ DOMAIN pending # {}
    /\ SyncStart \/ SyncAppend
    /\ UNCHANGED toolVars

(* Sync returns OK and so does the import.                                 *)
ImportSucceeds ==
    /\ tool = "syncing" /\ pc = "flushing"
    /\ FsyncSucceeds
    /\ kept' = {raw}
    /\ Return

(* An error at any step: reading, Write, Append or fsync.                  *)
ImportFails ==
    /\ \/ tool = "copying" /\ UNCHANGED storageVars
       \/ tool = "syncing" /\ pc = "appending" /\ (AppendFailsClean \/ AppendFailsTorn)
       \/ tool = "syncing" /\ pc = "flushing" /\ UNCHANGED storageVars
    /\ Return
    /\ UNCHANGED kept

-----------------------------------------------------------------------------
(* Export.                                                                 *)

(* Init, and O_TRUNC empties the raw file.                                 *)
ExportOpen ==
    /\ tool = "none"
    /\ Open
    /\ tool' = "reading"
    /\ UNCHANGED <<raw, offset, out, kept>>

(* Broken variant: whole buffers, beyond the end too.                      *)
ReadWholeBuffers ==
    /\ tool = "reading" /\ offset < logicalSize
    /\ out' = out \o [i \in 1 .. BlockUnits |-> CurrentBlock(offset \div BlockUnits)[i - 1]]
    /\ offset' = offset + BlockUnits
    /\ UNCHANGED <<storageVars, mapperVars, tool, raw, kept>>

(* Broken variant: only whole buffers are ever read.                       *)
ReadFullBuffersOnly ==
    /\ tool = "reading" /\ offset < logicalSize
    /\ LET n == IF logicalSize - offset >= BlockUnits THEN BlockUnits ELSE 0
       IN  /\ out' = out \o [i \in 1 .. n |-> CurrentBlock(offset \div BlockUnits)[i - 1]]
           /\ offset' = offset + n
    /\ UNCHANGED <<storageVars, mapperVars, tool, raw, kept>>

(* One turn of ExportLog's loop: Read of up to a buffer, and its write.    *)
ReadChunk ==
    /\ tool = "reading" /\ offset < logicalSize
    /\ LET n == Smaller(BlockUnits, logicalSize - offset)
       IN  /\ out' = out \o [i \in 1 .. n |-> CurrentBlock(offset \div BlockUnits)[i - 1]]
           /\ offset' = offset + n
    /\ UNCHANGED <<storageVars, mapperVars, tool, raw, kept>>

ExportSucceeds ==
    /\ tool = "reading" /\ offset >= logicalSize
    /\ tool' = "exported"
    /\ UNCHANGED <<storageVars, mapperVars, raw, offset, out, kept>>

ExportEnds == tool = "exported" /\ Return /\ UNCHANGED <<storageVars, kept>>

(* Read or write fails: the raw file stays as far as it came.              *)
ExportFails == tool = "reading" /\ Return /\ UNCHANGED <<storageVars, kept>>

ToolCrash ==
    /\ tool # "none"
    /\ StorageCrashes(pc = "appending")
    /\ Return
    /\ UNCHANGED kept

-----------------------------------------------------------------------------
Import == \/ ImportOpen \/ CopyChunk \/ CopyEnds \/ Cut
          \/ ImportSync \/ ImportSucceeds

Export == ReadChunk \/ ExportSucceeds \/ ExportEnds

Failure == ImportOpenFails \/ ImportFails \/ ExportFails \/ ToolCrash

ToolNext == \/ \E r \in RawFiles : ImportStart(r)
            \/ ExportOpen \/ Import \/ Export \/ Failure

allVars == <<vars, toolVars>>
ToolSpec == ToolInit /\ [][ToolNext]_allVars

(* A tool that neither fails nor dies goes on: every call is answered.     *)
FairToolSpec == ToolSpec /\ WF_allVars(Import \/ Export)

-----------------------------------------------------------------------------
ToolTypeOK ==
    /\ TypeOK
    /\ tool \in {"none", "importOpen", "copying", "cutting", "syncing", "reading", "exported"}
    /\ raw \in RawFiles \cup {<<>>}
    /\ offset \in 0 .. MaxSize
    /\ out \in Seq(Values)
    /\ tool \in {"reading", "exported"} => Len(out) = offset /\ offset <= logicalSize
    /\ kept \subseteq Seq(Values)

(* An export that returns OK has written the file the log holds, unit for  *)
(* unit and as long: after an import that returned OK the raw file of it,  *)
(* also when that is no multiple of a block and was read in short pieces   *)
(* (ImportLog, ExportLog).                                                 *)
RoundTrip == tool = "exported" => out \in kept

(* Whatever imports and crashes of them left, an open finds the log as it  *)
(* was, none, or the whole of a file imported: never a part of one, and    *)
(* never a mixture with the log that could not be deleted.                 *)
ImportIsAtomic == Held(Framed) \in kept

(* The tool's loops end.                                                   *)
ToolEnds == tool # "none" ~> tool = "none"
=============================================================================
