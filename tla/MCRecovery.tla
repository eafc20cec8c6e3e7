----------------------------- MODULE MCRecovery -----------------------------
(* Every log of at most three records of 2 blocks of 2 units.  What a      *)
(* record says is read only when its flag is Commit or Chained, so one     *)
(* record of each other flag is enough; the payload is never looked at.    *)
EXTENDS Recovery

CONSTANT MaxLog

MCValues == {Zero}

MCPayloads ==
    {DataRecord(b, ZeroBlock) : b \in 0 .. NumBlocks}
        \cup {TruncateRecord(n) : n \in -2 .. MaxSize + 1}

MCRecords ==
    {Flagged(r, f) : r \in MCPayloads, f \in {Commit, Chained}}
        \cup {Flagged(DataRecord(0, ZeroBlock), f) : f \in {Aborted, Unknown}}

MCInitialLogs == UNION {[1 .. n -> MCRecords] : n \in 0 .. MaxLog}
=============================================================================
