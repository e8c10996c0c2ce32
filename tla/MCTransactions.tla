--------------------------- MODULE MCTransactions ---------------------------
(* Instances of Transactions: three guards on one connection.              *)
EXTENDS Transactions, TLC
CONSTANTS g1, g2, g3
MCGuards == {g1, g2, g3}
Symmetry == Permutations(MCGuards)
=============================================================================
