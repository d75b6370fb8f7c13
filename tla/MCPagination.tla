---------------------------- MODULE MCPagination ----------------------------
(***************************************************************************)
(* A small instance of Pagination: transactions are interchangeable model  *)
(* values; integers wrap from 8 to -8, and page 9 of 2 rows to the first.  *)
(***************************************************************************)
EXTENDS Pagination, TLC

Same == Permutations(Transactions)

SomeParameters == -1..4 \cup {9}

=============================================================================
