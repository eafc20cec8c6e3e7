--------------------------- MODULE MCTransactions ---------------------------
(* Instances of Transactions.                                              *)
EXTENDS Transactions, TLC
CONSTANT Inputs
MCValues == Inputs \cup {Zero}
MCPageData == [0 .. BlockUnits - 1 -> Inputs]
InputSymmetry == Permutations(Inputs)
=============================================================================
