---------------------------- MODULE MCPlaidSync ----------------------------
(***************************************************************************)
(* Small instances of PlaidSync.                                           *)
(***************************************************************************)
EXTENDS PlaidSync, TLC

CONSTANTS i1, i2, a1, a2, t1, t2

\* One item with both accounts; an item beside it has none.
OneItem == a1 :> i1 @@ a2 :> i1

TwoTx == t1 :> a1 @@ t2 :> a2

\* Users and slots are interchangeable, and so are the two accounts of one
\* item together with their transactions.
Same ==
  Permutations(Users) \cup Permutations(Requests)
    \cup {a1 :> a2 @@ a2 :> a1 @@ t1 :> t2 @@ t2 :> t1}

\* The state without pending flags.  No handler decides anything on a flag,
\* Plaid may always publish a settled one, and the properties of overlapping
\* syncs do not mention flags: states that differ in them behave alike.
Unflagged ==
  <<[i \in Items |-> [p \in DOMAIN feed[i] |-> <<feed[i][p].kind, feed[i][p].tx>>]],
    plaid_items, plaid_accounts,
    [t \in DOMAIN transactions |-> transactions[t].user],
    req, skipped, failures>>

=============================================================================
