----------------------------- MODULE MCWallets -----------------------------
(***************************************************************************)
(* Small instances of Wallets: users, wallets and slots are model values,  *)
(* interchangeable in runs that check no liveness.                         *)
(***************************************************************************)
EXTENDS Wallets, TLC

Same == Permutations(Users) \cup Permutations(Wallets) \cup Permutations(Requests)

=============================================================================
