---------------------------- MODULE MCCompactor ----------------------------
(* Instances of Compactor: writes of block 0 with two values, of block 1,  *)
(* and a truncation to one block, which extends an empty file by a hole.   *)
EXTENDS Compactor
CONSTANTS A, B
MCValues == {A, B, Zero}
Filled(b, v) == DataRecord(b, [u \in 0 .. BlockUnits - 1 |-> v])
MCWritten == {Filled(0, A), Filled(0, B), Filled(1, A), TruncateRecord(BlockUnits)}
=============================================================================
