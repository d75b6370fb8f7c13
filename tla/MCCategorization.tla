-------------------------- MODULE MCCategorization --------------------------
(***************************************************************************)
(* Small instances of Categorization: every set is of model values that    *)
(* are interchangeable.                                                    *)
(***************************************************************************)
EXTENDS Categorization, TLC

Same == Permutations(Users) \cup Permutations(Wallets)
          \cup Permutations(Transactions) \cup Permutations(Requests)

=============================================================================
