---------------------------- MODULE LocalStorage ----------------------------
(* A local file used as AppendOnlyStorage: Append, Sync and what is left   *)
(* of the file after a failed write or a crash.  The operators are pieces  *)
(* of the actions of the module that owns the file.                        *)
EXTENDS LogFormat

VARIABLES
    file,      \* the complete records of the file, in the order appended
    intact,    \* how many of them, from the first, start at a multiple of 4105
    torn,      \* the file ends with a part of a record
    synced     \* how many of them the last successful fsync covers

storageVars == <<file, intact, torn, synced>>

StorageInit == file = <<>> /\ intact = 0 /\ torn = FALSE /\ synced = 0

StorageTypeOK ==
    /\ file \in Seq(Record)
    /\ intact \in 0 .. Len(file)
    /\ torn \in BOOLEAN
    /\ synced \in 0 .. Len(file)

Smaller(m, n) == IF m <= n THEN m ELSE n

(* lseek(SEEK_END), then write until all bytes are written.  After a part  *)
(* of a record the new one, and all that follow, start off the boundary.   *)
AppendSucceeds(r) ==
    /\ file' = Append(file, r)
    /\ intact' = IF torn THEN intact
                 ELSE IF intact = Len(file) THEN intact + 1 ELSE intact
    /\ torn' = FALSE
    /\ UNCHANGED synced

(* lseek or the first write fails.                                         *)
AppendFailsClean == UNCHANGED storageVars

(* A later write of the loop fails: what was written stays in the file.    *)
(* A second part of a record in one file is not modelled.                  *)
AppendFailsTorn ==
    /\ intact = Len(file)
    /\ torn' = TRUE
    /\ UNCHANGED <<file, intact, synced>>

FsyncSucceeds == synced' = Len(file) /\ UNCHANGED <<file, intact, torn>>

(* The process dies or the power fails: what no fsync covered may be lost  *)
(* from its end.  The record being written (writing), or the first one     *)
(* lost, may leave a part of itself.                                       *)
StorageCrashes(writing) ==
    \E n \in synced .. Len(file) :
        /\ file' = SubSeq(file, 1, n)
        /\ intact' = Smaller(intact, n)
        /\ torn' \in IF writing \/ torn \/ n < Len(file) THEN BOOLEAN ELSE {FALSE}
        /\ UNCHANGED synced

(* The file a reader of whole records finds once the last one is completed *)
(* with zeroes.  Records off the boundary are read across their borders:   *)
(* the byte where a flag is expected is one of a payload, and a payload    *)
(* with a zero there is what is modelled.                                  *)
Framed ==
    LET pad == [i \in 1 .. (Len(file) - intact + 1) |-> PadRecord]
    IN  IF torn \/ intact < Len(file) THEN SubSeq(file, 1, intact) \o pad ELSE file
=============================================================================
