----------------------------- MODULE Membership -----------------------------
(***************************************************************************)
(* What a wallet promises its members: it starts with the user who created *)
(* it, and from then on people are let in and removed by order of members  *)
(* only.  An order is carried out once, later than it was given, perhaps   *)
(* when whoever gave it is not a member any more, or not at all.  Wallets  *)
(* implements this.                                                        *)
(***************************************************************************)
EXTENDS Queries

CONSTANTS Users, Wallets, Requests

VARIABLES
  founder,  \* wallet that has started -> the user who created it
  members,  \* pairs <<wallet, user>>
  orders    \* request -> the order it has taken and not carried out

mvars == <<founder, members, orders>>

MInit == founder = EmptyTable /\ members = {} /\ orders = EmptyTable

\* The creator is the first member.
Found(w, u) ==
  /\ w \notin DOMAIN founder
  /\ founder' = Insert(founder, w, u)
  /\ members' = members \cup {<<w, u>>}
  /\ UNCHANGED orders

Order(r, kind, v, w, u) ==
  /\ r \notin DOMAIN orders
  /\ <<w, v>> \in members
  /\ orders' = Insert(orders, r,
       [kind |-> kind, by |-> v, wallet |-> w, user |-> u])
  /\ UNCHANGED <<founder, members>>

Without(R) == [r \in DOMAIN orders \ R |-> orders[r]]

CarryOut(r) ==
  LET pair == <<orders[r].wallet, orders[r].user>> IN
  /\ r \in DOMAIN orders
  /\ members' = IF orders[r].kind = "insert" THEN members \cup {pair}
                                             ELSE members \ {pair}
  /\ orders' = Without({r})
  /\ UNCHANGED founder

Forget(R) ==
  /\ orders' = Without(R)
  /\ UNCHANGED <<founder, members>>

MNext ==
  \/ \E w \in Wallets, u \in Users :
       \/ Found(w, u)
       \/ \E r \in Requests, kind \in {"insert", "delete"}, v \in Users :
            Order(r, kind, v, w, u)
  \/ \E r \in Requests : CarryOut(r)
  \/ \E R \in SUBSET Requests : Forget(R)

MSpec == MInit /\ [][MNext]_mvars

=============================================================================
