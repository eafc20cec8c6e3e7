----------------------------- MODULE LogFormat -----------------------------
(* The append-only log of fixed-size records and the file it denotes.      *)
(* A record is 4105 bytes: an 8-byte block index (-1 for metadata), 4096   *)
(* bytes of payload and one flag byte.  The payload of a metadata record   *)
(* is a MetadataBlock; only its optional new_size matters.  A record's     *)
(* byte offset is 4105 * (position - 1); the modules use the position,     *)
(* from 1, and 0 where the code has the offset -1 ("not mapped").          *)
EXTENDS Integers, Sequences

CONSTANTS
    NumBlocks,   \* block indices are 0 .. NumBlocks-1 (the code: 1000000)
    BlockUnits,  \* smallest units of a block (the code: 4096 bytes)
    Values,      \* what one unit may hold
    Zero         \* the unit of a hole: what a zeroed buffer holds

ASSUME FormatAssumption ==
    /\ NumBlocks \in Nat \ {0}
    /\ BlockUnits \in Nat \ {0}
    /\ Zero \in Values

Block == 0 .. NumBlocks - 1
MaxSize == NumBlocks * BlockUnits
Metadata == -1
NoSize == -1

BlockData == [0 .. BlockUnits - 1 -> Values]
ZeroBlock == [u \in 0 .. BlockUnits - 1 |-> Zero]

(* The flag byte.  Any other byte is treated like Aborted: Unknown stands  *)
(* for all of them.                                                        *)
Aborted == 0
Commit == 1
Chained == 2
Unknown == 3

SizeField == (0 .. MaxSize) \cup {NoSize}
Payload == [block : Block \cup {Metadata}, data : BlockData, size : SizeField]
Record == [block : Block \cup {Metadata}, data : BlockData, size : SizeField,
           flag : 0 .. 3]

DataRecord(b, d) == [block |-> b, data |-> d, size |-> NoSize]
TruncateRecord(n) == [block |-> Metadata, data |-> ZeroBlock, size |-> n]
Flagged(r, f) == [block |-> r.block, data |-> r.data, size |-> r.size, flag |-> f]

(* A torn record completed with zeroes: its flag is Aborted, so that       *)
(* nothing else of it is read.                                             *)
PadRecord == Flagged(DataRecord(0, ZeroBlock), Aborted)

CeilBlocks(n) == (n + BlockUnits - 1) \div BlockUnits

-----------------------------------------------------------------------------
(* What a log means, in closed form.                                       *)

(* Record i of the first n takes effect: the chain it belongs to runs      *)
(* through Chained records into a Commit record.                           *)
AppliedUpTo(log, n, i) ==
    \E j \in i .. n : /\ log[j].flag = Commit
                      /\ \A k \in i .. (j - 1) : log[k].flag = Chained

Applied(log, n) == {i \in 1 .. n : AppliedUpTo(log, n, i)}

(* The largest member of a set of positive numbers, 0 when there is none.  *)
LastOf(S) == CHOOSE x \in S \cup {0} : \A y \in S : y <= x

IsTruncate(r) == r.block = Metadata /\ r.size # NoSize

(* Broken variant: a partly kept last block is cut off.                    *)
CutsPartial(r, b) == IsTruncate(r) /\ r.size \div BlockUnits <= b

Cuts(r, b) == IsTruncate(r) /\ CeilBlocks(r.size) <= b

(* The records among S that write block b and that no later truncation of  *)
(* S removes.                                                              *)
LiveWrites(log, S, b) ==
    {i \in S : /\ log[i].block = b
               /\ \A k \in S : k > i => ~Cuts(log[k], b)}

MapOf(log, S) == [b \in Block |-> LastOf(LiveWrites(log, S, b))]

(* Broken variant: the start of the block instead of its end.              *)
ExtentOfStart(r) == IF r.block # Metadata THEN r.block * BlockUnits
                    ELSE IF r.size # NoSize THEN r.size ELSE 0

(* How far a record extends the file; a truncation ends it there.          *)
Extent(r) == IF r.block # Metadata THEN (r.block + 1) * BlockUnits
             ELSE IF r.size # NoSize THEN r.size ELSE 0

(* The largest extent from the last truncation of S on.                    *)
SizeOf(log, S) ==
    LastOf({Extent(log[i]) : i \in
               {k \in S : \A l \in S : l > k => ~IsTruncate(log[l])}})

(* The map and the size an Init over the first n records arrives at.       *)
RecoveredMap(log, n) == MapOf(log, Applied(log, n))
RecoveredSize(log, n) == SizeOf(log, Applied(log, n))

BlockAt(log, p) == IF p = 0 THEN ZeroBlock ELSE log[p].data

(* The file as its reader sees it: every unit up to the largest size, and  *)
(* the size to the precision recovery keeps, which is a block.             *)
Image(At(_), size) ==
    [data |-> [u \in 0 .. MaxSize - 1 |-> At(u \div BlockUnits)[u % BlockUnits]],
     size |-> CeilBlocks(size)]

(* Block b of an image.                                                    *)
BlockIn(image, b) == [u \in 0 .. BlockUnits - 1 |-> image.data[b * BlockUnits + u]]

Hole(b) == ZeroBlock
EmptyImage == Image(Hole, 0)

(* The file that the records S of a log leave.                             *)
ImageOf(log, S) ==
    LET At(b) == BlockAt(log, LastOf(LiveWrites(log, S, b)))
    IN  Image(At, SizeOf(log, S))
=============================================================================
