------------------------------- MODULE SignIn -------------------------------
(***************************************************************************)
(* What signing in promises: an address is registered once, by one person; *)
(* a session signs in only whoever it was made for, and only to an account *)
(* of their own; a browser is handed no session but its own, and none is   *)
(* made under a token that somebody holds.  Accounts implements this.      *)
(***************************************************************************)
EXTENDS Queries

CONSTANTS Browsers, Emails, Tokens, NoToken

VARIABLES
  account,  \* address -> the browser of the person who registered it
  maker,    \* token -> the browser its session was made for
  signed,   \* token of a live session -> the account it is signed in to
  holds     \* browser -> the token it holds, or none

svars == <<account, maker, signed, holds>>

SInit ==
  /\ account = EmptyTable
  /\ maker = EmptyTable
  /\ signed = EmptyTable
  /\ holds = [b \in Browsers |-> NoToken]

Enrol(e, b) ==
  /\ e \notin DOMAIN account
  /\ account' = Insert(account, e, b)
  /\ UNCHANGED <<maker, signed, holds>>

Make(k, b, e) ==
  /\ k \notin DOMAIN signed /\ \A c \in Browsers : holds[c] # k
  /\ e \in DOMAIN account /\ account[e] = b
  /\ maker' = Insert(maker, k, b)
  /\ signed' = Insert(signed, k, e)
  /\ UNCHANGED <<account, holds>>

\* Into another account, or again after a logout.
SignInto(k, e) ==
  /\ k \in DOMAIN maker
  /\ e \in DOMAIN account /\ account[e] = maker[k]
  /\ signed' = Insert(signed, k, e)
  /\ UNCHANGED <<account, maker, holds>>

End(k) ==
  /\ signed' = [j \in DOMAIN signed \ {k} |-> signed[j]]
  /\ UNCHANGED <<account, maker, holds>>

Hand(b, k) ==
  /\ k = NoToken \/ (k \in DOMAIN maker /\ maker[k] = b)
  /\ holds' = [holds EXCEPT ![b] = k]
  /\ UNCHANGED <<account, maker, signed>>

SNext ==
  \/ \E b \in Browsers :
       \/ \E e \in Emails : \/ Enrol(e, b)
                            \/ \E k \in Tokens : Make(k, b, e)
       \/ \E k \in Tokens \cup {NoToken} : Hand(b, k)
  \/ \E k \in Tokens : End(k) \/ \E e \in Emails : SignInto(k, e)

SSpec == SInit /\ [][SNext]_svars

=============================================================================
