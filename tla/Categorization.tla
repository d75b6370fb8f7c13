--------------------------- MODULE Categorization ---------------------------
(***************************************************************************)
(* Deciding which transactions a wallet shares: handlers/transactions.go   *)
(* (GetUncategorizedTransactions, CategorizeTransaction,                   *)
(* UncategorizeTransaction) over transaction_categorizations.              *)
(*                                                                         *)
(* Syncs store transactions meanwhile, and members come and go: the lookup *)
(* of a user's wallet may return any wallet, or none.  The routes take any *)
(* ids; a request they refuse at once changes nothing and is not a step.   *)
(***************************************************************************)
EXTENDS Naturals, Queries

CONSTANTS
  Users,         \* registered users with a session
  Wallets,       \* wallets with a row
  Transactions,  \* transaction ids
  Requests,      \* request slots: how many handlers run at once
  MaxFailures    \* bound: failed statements and crashes in a behaviour

ASSUME FailureAssumption == MaxFailures \in Nat

VARIABLES
  transactions,     \* table: transaction -> [user, pending]
  categorizations,  \* table: <<transaction, wallet>> -> [type, by]
  req,              \* what each request slot is doing
  accepted,         \* history: decisions answered 200, until withdrawn
  failures          \* failures so far

vars == <<transactions, categorizations, req, accepted, failures>>

----------------------------------------------------------------------------

Idle == [pc |-> "idle"]

Decision ==
  [tx : Transactions, wallet : Wallets, type : CategoryTypes, by : Users]

\* list: the wallet is looked up; show: the client has the list before it,
\* and since (history) has what was stored or withdrawn after it was read;
\* decide: the transaction is found to be the user's own.
Request ==
  {Idle}
    \cup [pc : {"list"}, user : Users, wallet : Wallets]
    \cup [pc : {"show"}, user : Users, wallet : Wallets,
          listed : SUBSET Transactions, since : SUBSET Transactions]
    \cup [pc : {"decide"}, decision : Decision]

Goto(r, stage) == req' = [req EXCEPT ![r] = stage]

\* The lists before clients, of slots S, get out of date by t.
Outdate(t, S) ==
  req' = [r \in Requests |->
    IF r \in S THEN [req[r] EXCEPT !.since = @ \cup {t}] ELSE req[r]]

Showing == {r \in Requests : req[r].pc = "show"}

Init ==
  /\ transactions = EmptyTable
  /\ categorizations = EmptyTable
  /\ req = [r \in Requests |-> Idle]
  /\ accepted = {}
  /\ failures = 0

----------------------------------------------------------------------------
(* A sync of u stores t; whether it is pending plays no part here.         *)

StoreTransaction(t, u) ==
  /\ t \notin DOMAIN transactions
  /\ transactions' = CreateTransaction(transactions, t, u, FALSE)
  /\ Outdate(t, {r \in Showing : req[r].user = u})
  /\ UNCHANGED <<categorizations, accepted, failures>>

----------------------------------------------------------------------------
(* GET /api/transactions/uncategorized.                                    *)

GetUncategorizedTransactions(r, u, w) ==
  /\ req[r].pc = "idle"
  /\ Goto(r, [pc |-> "list", user |-> u, wallet |-> w])
  /\ UNCHANGED <<transactions, categorizations, accepted, failures>>

ListUncategorized(r) ==
  LET q == req[r] IN
  /\ q.pc = "list"
  /\ Goto(r, [pc |-> "show", user |-> q.user, wallet |-> q.wallet,
              listed |-> GetUncategorizedTransactionsByUserID(
                transactions, categorizations, q.user, q.wallet),
              since |-> {}])
  /\ UNCHANGED <<transactions, categorizations, accepted, failures>>

\* The client lets go of its list.
Leave(r) ==
  /\ req[r].pc = "show"
  /\ Goto(r, Idle)
  /\ UNCHANGED <<transactions, categorizations, accepted, failures>>

----------------------------------------------------------------------------
(* POST /api/transactions/{id}/categorize.                                 *)

\* Mutant: the transaction is looked up, its user is not compared.
Found(u, t) == t \in DOMAIN transactions

OwnTransaction(u, t) == t \in DOMAIN transactions /\ transactions[t].user = u

CategorizeTransaction(r, d) ==
  /\ req[r].pc = "idle"
  /\ OwnTransaction(d.by, d.tx)
  /\ Goto(r, [pc |-> "decide", decision |-> d])
  /\ UNCHANGED <<transactions, categorizations, accepted, failures>>

\* unique (transaction_id, wallet_id): a second row is refused.
Overwritten(d) == FALSE  \* mutant: ON CONFLICT DO UPDATE
Decided(d) == <<d.tx, d.wallet>> \in DOMAIN categorizations

StoreDecision(r) ==
  LET d == req[r].decision IN
  /\ req[r].pc = "decide"
  /\ ~Decided(d)
  /\ categorizations' = CreateTransactionCategorization(
       categorizations, d.tx, d.wallet, d.type, d.by)
  /\ accepted' = accepted \cup {d}
  /\ Goto(r, Idle)
  /\ UNCHANGED <<transactions, failures>>

RefuseDecision(r) ==
  /\ req[r].pc = "decide"
  /\ Decided(req[r].decision)
  /\ Goto(r, Idle)
  /\ UNCHANGED <<transactions, categorizations, accepted, failures>>

----------------------------------------------------------------------------
(* DELETE /api/transactions/{id}/categorize/{walletID}: one statement.     *)

UncategorizeTransaction(t, w) ==
  /\ categorizations' = DeleteTransactionCategorization(categorizations, t, w)
  /\ accepted' = {d \in accepted : d.tx # t \/ d.wallet # w}
  /\ Outdate(t, {r \in Showing : req[r].wallet = w})
  /\ UNCHANGED <<transactions, failures>>

----------------------------------------------------------------------------

\* The next statement fails, or the client goes away.
Fail(r) ==
  /\ failures < MaxFailures
  /\ req[r].pc \in {"list", "decide"}
  /\ Goto(r, Idle)
  /\ failures' = failures + 1
  /\ UNCHANGED <<transactions, categorizations, accepted>>

\* The process dies; what clients show stays with them.
Crash ==
  /\ failures < MaxFailures
  /\ req' = [r \in Requests |-> IF r \in Showing THEN req[r] ELSE Idle]
  /\ failures' = failures + 1
  /\ UNCHANGED <<transactions, categorizations, accepted>>

\* The INSERT commits and its answer is lost: the client cannot tell.
StoreUnanswered(r) ==
  LET d == req[r].decision IN
  /\ failures < MaxFailures
  /\ req[r].pc = "decide"
  /\ ~Decided(d)
  /\ categorizations' = CreateTransactionCategorization(
       categorizations, d.tx, d.wallet, d.type, d.by)
  /\ Goto(r, Idle)
  /\ failures' = failures + 1
  /\ UNCHANGED <<transactions, accepted>>

Next ==
  \/ Crash
  \/ \E t \in Transactions :
       \/ \E u \in Users : StoreTransaction(t, u)
       \/ \E w \in Wallets : UncategorizeTransaction(t, w)
  \/ \E r \in Requests :
       \/ \E u \in Users, w \in Wallets : GetUncategorizedTransactions(r, u, w)
       \/ ListUncategorized(r)
       \/ Leave(r)
       \/ \E d \in Decision : CategorizeTransaction(r, d)
       \/ StoreDecision(r)
       \/ RefuseDecision(r)
       \/ Fail(r)
       \/ StoreUnanswered(r)

Spec == Init /\ [][Next]_vars

----------------------------------------------------------------------------
(* Properties.                                                             *)

\* Tables, requests and histories are well formed.
TypeOK ==
  /\ transactions \in PartialFunctions(Transactions, Transaction(Users))
  /\ categorizations \in PartialFunctions(Transactions \X Wallets,
                                          Categorization(Users))
  /\ req \in [Requests -> Request]
  /\ accepted \in SUBSET Decision
  /\ failures \in 0..MaxFailures

\* Whoever made a stored decision owns the transaction it is about, although
\* ownership is read in one statement and the row written in another.
OwnerDecides ==
  \A k \in DOMAIN categorizations :
    /\ k[1] \in DOMAIN transactions
    /\ transactions[k[1]].user = categorizations[k].by

\* The decision d is the one a row holds.
Stored(d) ==
  /\ <<d.tx, d.wallet>> \in DOMAIN categorizations
  /\ categorizations[<<d.tx, d.wallet>>] = [type |-> d.type, by |-> d.by]

\* A decision the client was told is stored stays as it was told until it is
\* withdrawn, whatever other decisions race with it or are retried after a
\* lost answer: of two for one wallet, at most one is told so.
AcceptedIsStored == \A d \in accepted : Stored(d)

\* A list left before a client hides nothing: what its user owns is listed,
\* or decided for that very wallet, or newer than the list.
NothingHidden ==
  \A r \in Requests : req[r].pc = "show" =>
    \A t \in DOMAIN transactions :
      transactions[t].user = req[r].user =>
        \/ t \in req[r].listed \cup req[r].since
        \/ <<t, req[r].wallet>> \in DOMAIN categorizations

\* The handlers' statements are the steps of the abstract ledger: between
\* looking the owner up and the INSERT, whatever races, is retried after a
\* lost answer or is withdrawn, no decision replaces or outlives another.
D == INSTANCE Decisions WITH
       owner <- [t \in DOMAIN transactions |-> transactions[t].user],
       ledger <- {d \in Decision : Stored(d)},
       told <- accepted
DSpec == D!DSpec

=============================================================================
