------------------------------ MODULE Recovery ------------------------------
(* BlockMapper::Init, loop by loop: completing a torn record, scanning and *)
(* validating the log, the backward pass that finds the applied records    *)
(* and the forward pass that rebuilds the mapping and the logical size.    *)
(* The log is whatever bytes the file holds.                               *)
EXTENDS LogFormat

CONSTANT InitialLogs   \* the files Init may be run on, as records

(* Block indices and sizes as read from the file: -2 and NumBlocks stand   *)
(* for those out of range, a size of -2 for a MetadataBlock that does not  *)
(* parse as well.                                                          *)
RawRecord == [block : -2 .. NumBlocks, data : BlockData, size : -2 .. MaxSize + 1,
              flag : 0 .. 3]

ASSUME LogsAssumption == InitialLogs \subseteq Seq(RawRecord)

VARIABLES
    log,                \* the records of the file
    torn,               \* it ends with an incomplete record
    pc,                 \* the loop Init is in, or its outcome
    cursor,             \* the loop's record
    applied,            \* applied[]: the records marked so far
    appliedNext,        \* applied_next
    logicalToPhysical,  \* logical_to_physical_, 0 for -1 and for "beyond the vector"
    logicalSize         \* logical_size_

vars == <<log, torn, pc, cursor, applied, appliedNext, logicalToPhysical, logicalSize>>

Init ==
    /\ log \in InitialLogs
    /\ torn \in BOOLEAN
    /\ pc = "align"
    /\ cursor = 0
    /\ applied = {}
    /\ appliedNext = FALSE
    /\ logicalToPhysical = [b \in Block |-> 0]
    /\ logicalSize = 0

Fail == /\ pc' = "error"
        /\ UNCHANGED <<log, torn, cursor, applied, appliedNext, logicalToPhysical, logicalSize>>

(* GetSize, Append or PRead returns an error: Init returns it.             *)
StorageFails == pc \in {"align", "scan"} /\ Fail

(* Broken variant: the byte completing the record reads as Commit.         *)
AlignCommits ==
    /\ pc = "align"
    /\ log' = IF torn THEN Append(log, Flagged(PadRecord, Commit)) ELSE log
    /\ torn' = FALSE
    /\ pc' = "scan"
    /\ cursor' = 1
    /\ UNCHANGED <<applied, appliedNext, logicalToPhysical, logicalSize>>

(* P % 4105 # 0: append the zeroes that complete the last record.          *)
Align ==
    /\ pc = "align"
    /\ log' = IF torn THEN Append(log, PadRecord) ELSE log
    /\ torn' = FALSE
    /\ pc' = "scan"
    /\ cursor' = 1
    /\ UNCHANGED <<applied, appliedNext, logicalToPhysical, logicalSize>>

Valid(r) ==
    r.flag \in {Commit, Chained} =>
        /\ r.block \in Block \cup {Metadata}
        /\ r.block = Metadata => r.size = NoSize \/ r.size \in 0 .. MaxSize

ScanInvalid == pc = "scan" /\ cursor <= Len(log) /\ ~Valid(log[cursor]) /\ Fail

(* Broken variant: the loop does not advance.                              *)
ScanStays == pc = "scan" /\ cursor <= Len(log) /\ Valid(log[cursor]) /\ UNCHANGED vars

ScanRecord ==
    /\ pc = "scan" /\ cursor <= Len(log) /\ Valid(log[cursor])
    /\ cursor' = cursor + 1
    /\ UNCHANGED <<log, torn, pc, applied, appliedNext, logicalToPhysical, logicalSize>>

ScanEnds ==
    /\ pc = "scan" /\ cursor > Len(log)
    /\ pc' = "backward"
    /\ cursor' = Len(log)
    /\ UNCHANGED <<log, torn, applied, appliedNext, logicalToPhysical, logicalSize>>

(* Broken variants: the mark lands on the record after; an aborted record  *)
(* does not end the chain; any flag but Commit and Aborted chains.         *)
BackwardMarks(mark, next) ==
    /\ pc = "backward" /\ cursor >= 1
    /\ appliedNext' = next
    /\ applied' = IF appliedNext' THEN applied \cup {mark} ELSE applied
    /\ cursor' = cursor - 1
    /\ UNCHANGED <<log, torn, pc, logicalToPhysical, logicalSize>>

BackwardOffByOne ==
    BackwardMarks(cursor + 1, IF log[cursor].flag = Chained THEN appliedNext
                                                            ELSE log[cursor].flag = Commit)
BackwardNeverEnds == BackwardMarks(cursor, appliedNext \/ log[cursor].flag = Commit)
BackwardChainsUnknown ==
    BackwardMarks(cursor, IF log[cursor].flag \in {Chained, Unknown} THEN appliedNext
                                                                   ELSE log[cursor].flag = Commit)

(* A Chained record keeps applied_next, any other sets it.                 *)
Backward ==
    /\ pc = "backward" /\ cursor >= 1
    /\ appliedNext' = IF log[cursor].flag = Chained THEN appliedNext
                                                    ELSE log[cursor].flag = Commit
    /\ applied' = IF appliedNext' THEN applied \cup {cursor} ELSE applied
    /\ cursor' = cursor - 1
    /\ UNCHANGED <<log, torn, pc, logicalToPhysical, logicalSize>>

BackwardEnds ==
    /\ pc = "backward" /\ cursor < 1
    /\ pc' = "forward"
    /\ cursor' = 1
    /\ UNCHANGED <<log, torn, applied, appliedNext, logicalToPhysical, logicalSize>>

(* Broken variant: a block before the end shortens the file.               *)
GrowToBlock(size, b) == (b + 1) * BlockUnits

Grow(size, b) == IF size >= (b + 1) * BlockUnits THEN size ELSE (b + 1) * BlockUnits

(* Broken variant: a truncation sets the size and leaves the mapping.      *)
ForwardKeepsMap ==
    /\ pc = "forward" /\ cursor <= Len(log)
    /\ LET r == log[cursor] IN
       \/ /\ cursor \in applied /\ r.block \in Block
          /\ logicalToPhysical' = [logicalToPhysical EXCEPT ![r.block] = cursor]
          /\ logicalSize' = Grow(logicalSize, r.block)
       \/ /\ cursor \in applied /\ IsTruncate(r)
          /\ logicalSize' = r.size
          /\ UNCHANGED logicalToPhysical
       \/ /\ cursor \notin applied \/ (r.block = Metadata /\ r.size = NoSize)
          /\ UNCHANGED <<logicalToPhysical, logicalSize>>
    /\ cursor' = cursor + 1
    /\ UNCHANGED <<log, torn, pc, applied, appliedNext>>

Forward ==
    /\ pc = "forward" /\ cursor <= Len(log)
    /\ LET r == log[cursor] IN
       \/ /\ cursor \in applied /\ r.block \in Block
          /\ logicalToPhysical' = [logicalToPhysical EXCEPT ![r.block] = cursor]
          /\ logicalSize' = Grow(logicalSize, r.block)
       \/ /\ cursor \in applied /\ IsTruncate(r)
          /\ logicalToPhysical' =
                 [b \in Block |-> IF Cuts(r, b) THEN 0 ELSE logicalToPhysical[b]]
          /\ logicalSize' = r.size
       \/ /\ cursor \notin applied \/ (r.block = Metadata /\ r.size = NoSize)
          /\ UNCHANGED <<logicalToPhysical, logicalSize>>
    /\ cursor' = cursor + 1
    /\ UNCHANGED <<log, torn, pc, applied, appliedNext>>

ForwardEnds ==
    /\ pc = "forward" /\ cursor > Len(log)
    /\ pc' = "ready"
    /\ UNCHANGED <<log, torn, cursor, applied, appliedNext, logicalToPhysical, logicalSize>>

(* Init has returned.                                                      *)
Returned == pc \in {"ready", "error"} /\ UNCHANGED vars

Step == \/ Align \/ ScanInvalid \/ ScanRecord \/ ScanEnds
        \/ Backward \/ BackwardEnds \/ Forward \/ ForwardEnds

Next == Step \/ StorageFails \/ Returned

Spec == Init /\ [][Next]_vars

(* Init runs in the caller's thread under the mapper's lock: a step that   *)
(* can be taken is taken.                                                  *)
FairSpec == Spec /\ WF_vars(Step)

-----------------------------------------------------------------------------
TypeOK ==
    /\ log \in Seq(RawRecord)
    /\ torn \in BOOLEAN
    /\ pc \in {"align", "scan", "backward", "forward", "ready", "error"}
    /\ cursor \in Nat
    /\ applied \subseteq 1 .. Len(log)
    /\ appliedNext \in BOOLEAN
    /\ logicalToPhysical \in [Block -> Nat]
    /\ logicalSize \in Nat

(* What the two passes compute in their loops is what the log means: the   *)
(* mapping is the last live write of every block among the records whose   *)
(* chain reached a Commit record (block_mapper.cc, Init).                  *)
MapRecovered == pc = "ready" => logicalToPhysical = RecoveredMap(log, Len(log))

(* The logical size Init arrives at is the one the last applied truncation *)
(* and the writes after it give.                                           *)
SizeRecovered == pc = "ready" => logicalSize = RecoveredSize(log, Len(log))

(* A mapped block lies within the logical size, so that no block read      *)
(* through the mapping is hidden behind the end of the file.               *)
MappedWithinSize ==
    pc = "ready" => \A b \in Block :
        logicalToPhysical[b] # 0 => b < CeilBlocks(logicalSize)

(* A mapping refers to an intact data record of its own block whose chain  *)
(* was committed: nothing of a torn, aborted or unfinished batch is served *)
(* and the record read is never another block's or a truncation.           *)
OnlyCommittedServed ==
    pc = "ready" => \A b \in Block : logicalToPhysical[b] # 0 =>
        LET p == logicalToPhysical[b] IN
        /\ log[p].block = b
        /\ log[p].flag \in {Commit, Chained}
        /\ \E j \in p .. Len(log) : log[j].flag = Commit
                                   /\ \A k \in p .. j : log[k].flag \in {Commit, Chained}

(* Completing a torn record changes nothing of what the complete ones      *)
(* mean, and never applies the chain it tears.                             *)
PadIsNeutral ==
    [][pc = "align" /\ pc' = "scan" =>
         /\ Applied(log', Len(log')) = Applied(log, Len(log))
         /\ torn => Len(log') \notin Applied(log', Len(log'))]_vars

(* Init returns, whatever the file holds.                                  *)
Terminates == <>(pc \in {"ready", "error"})
=============================================================================
