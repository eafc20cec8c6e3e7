--------------------------- MODULE MCImportExport ---------------------------
(* Instances of ImportExport.  Raw files of no, one and three units, of    *)
(* which the last ends inside a block; targets that are missing, hold a    *)
(* batch, or end in a chain that no commit follows.                        *)
EXTENDS ImportExport
CONSTANTS A, B
MCInputs == {A, B}
MCValues == {A, B, Zero}
MCRawFiles == {<<>>, <<B>>, <<A, B, A>>}
Old == DataRecord(1, [u \in 0 .. BlockUnits - 1 |-> B])
MCOldLogs == {<<>>, <<Flagged(Old, Commit)>>, <<Flagged(Old, Chained)>>}
=============================================================================
