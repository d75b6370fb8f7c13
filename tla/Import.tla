------------------------------- MODULE Import -------------------------------
(***************************************************************************)
(* What importing promises: every transaction a bank announces is stored,  *)
(* once and for the user who linked the bank, or knowingly passed over,    *)
(* before its announcement is acknowledged; what is acknowledged is not    *)
(* announced again.  Acknowledging may be taken back, storing never.       *)
(* PlaidSync implements this.                                              *)
(***************************************************************************)
EXTENDS Queries

CONSTANTS Users, Items, Transactions

VARIABLES
  announced,     \* item -> the transactions its bank has announced
  owner,         \* table: linked item -> user
  acknowledged,  \* linked item -> the announcements acknowledged
  stored,        \* table: transaction -> user
  passed         \* transactions passed over

ivars == <<announced, owner, acknowledged, stored, passed>>

IInit ==
  /\ announced = [i \in Items |-> {}]
  /\ owner = EmptyTable
  /\ acknowledged = EmptyTable
  /\ stored = EmptyTable
  /\ passed = {}

Announce(i, t) ==
  /\ announced' = [announced EXCEPT ![i] = @ \cup {t}]
  /\ UNCHANGED <<owner, acknowledged, stored, passed>>

Link(i, u) ==
  /\ i \notin DOMAIN owner
  /\ owner' = Insert(owner, i, u)
  /\ acknowledged' = Insert(acknowledged, i, {})
  /\ UNCHANGED <<announced, stored, passed>>

Store(i, t) ==
  /\ i \in DOMAIN owner /\ t \in announced[i]
  /\ t \notin DOMAIN stored
  /\ stored' = Insert(stored, t, owner[i])
  /\ UNCHANGED <<announced, owner, acknowledged, passed>>

PassOver(i, t) ==
  /\ i \in DOMAIN owner /\ t \in announced[i]
  /\ passed' = passed \cup {t}
  /\ UNCHANGED <<announced, owner, acknowledged, stored>>

\* Also fewer than before: the rest will be announced again.
Acknowledge(i, S) ==
  /\ i \in DOMAIN owner
  /\ S \subseteq announced[i] \cap (DOMAIN stored \cup passed)
  /\ acknowledged' = [acknowledged EXCEPT ![i] = S]
  /\ UNCHANGED <<announced, owner, stored, passed>>

INext ==
  \E i \in Items :
    \/ \E u \in Users : Link(i, u)
    \/ \E t \in Transactions : Announce(i, t) \/ Store(i, t) \/ PassOver(i, t)
    \/ \E S \in SUBSET Transactions : Acknowledge(i, S)

ISpec == IInit /\ [][INext]_ivars

=============================================================================
