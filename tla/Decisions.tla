----------------------------- MODULE Decisions -----------------------------
(***************************************************************************)
(* What categorizing promises: a wallet gets at most one decision about a  *)
(* transaction, made by its owner; the first one made stands until it is   *)
(* withdrawn, and whoever was told that it stands can rely on it.          *)
(* Categorization implements this.                                         *)
(***************************************************************************)
EXTENDS Queries

CONSTANTS Users, Wallets, Transactions, Decision

VARIABLES
  owner,   \* table: transaction -> user
  ledger,  \* the decisions that stand
  told     \* those that somebody was told stand

dvars == <<owner, ledger, told>>

DInit == owner = EmptyTable /\ ledger = {} /\ told = {}

About(d, t, w) == d.tx = t /\ d.wallet = w

Own(t, u) ==
  /\ t \notin DOMAIN owner
  /\ owner' = Insert(owner, t, u)
  /\ UNCHANGED <<ledger, told>>

\* Told or not: the answer may be lost.
Decide(d) ==
  /\ d.tx \in DOMAIN owner /\ owner[d.tx] = d.by
  /\ \A e \in ledger : ~About(e, d.tx, d.wallet)
  /\ ledger' = ledger \cup {d}
  /\ told' \in {told, told \cup {d}}
  /\ UNCHANGED owner

Withdraw(t, w) ==
  /\ ledger' = {d \in ledger : ~About(d, t, w)}
  /\ told' = {d \in told : ~About(d, t, w)}
  /\ UNCHANGED owner

DNext ==
  \/ \E t \in Transactions : \/ \E u \in Users : Own(t, u)
                             \/ \E w \in Wallets : Withdraw(t, w)
  \/ \E d \in Decision : Decide(d)

DSpec == DInit /\ [][DNext]_dvars

=============================================================================
