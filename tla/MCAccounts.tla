----------------------------- MODULE MCAccounts -----------------------------
(***************************************************************************)
(* Small instances of Accounts: browsers, addresses, tokens and slots are  *)
(* model values, interchangeable in runs that check no liveness.           *)
(***************************************************************************)
EXTENDS Accounts, TLC

Same == Permutations(Browsers) \cup Permutations(Emails)
          \cup Permutations(Tokens) \cup Permutations(Requests)

=============================================================================
