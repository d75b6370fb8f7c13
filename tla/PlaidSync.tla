----------------------------- MODULE PlaidSync -----------------------------
(***************************************************************************)
(* Linking a bank and importing its transactions:                          *)
(* handlers/plaid.go (ExchangePublicToken, SyncTransactions,               *)
(* syncItemTransactions), plaid/service.go and the tables they write.      *)
(*                                                                         *)
(* Every HTTP request runs in its own goroutine and nothing serialises     *)
(* them, so the model is a set of request slots, each a handler stopped    *)
(* between two database statements or Plaid calls.  One action is one      *)
(* statement or call with the local code up to the next one.  Plaid is an  *)
(* append-only feed of updates per item, read from a cursor in pages.      *)
(*                                                                         *)
(* Any statement or call may fail (the request answers 500), and the       *)
(* process may be killed; both just drop requests, since every statement   *)
(* has committed by itself.  A statement that commits but whose reply is   *)
(* lost is the statement followed by a failure.                            *)
(***************************************************************************)
EXTENDS Naturals, Sequences, Queries

CONSTANTS
  Users,         \* users with a session
  Items,         \* Plaid items (one session of Link each)
  Accounts,      \* Plaid accounts
  Transactions,  \* Plaid transaction ids
  AccountItem,   \* the item of an account
  TxAccount,     \* the account of a transaction
  Requests,      \* request slots: how many handlers run at once
  PageSize,      \* updates in one page of /transactions/sync
  MaxUpdates,    \* bound: updates Plaid publishes per item
  MaxFailures    \* bound: failed requests and crashes in a behaviour

ASSUME LinkAssumption ==
  /\ AccountItem \in [Accounts -> Items]
  /\ TxAccount \in [Transactions -> Accounts]

ASSUME BoundAssumption ==
  /\ PageSize \in Nat \ {0}
  /\ MaxUpdates \in Nat
  /\ MaxFailures \in Nat

VARIABLES
  feed,            \* Plaid's log of updates for each item
  plaid_items,     \* table: item -> [user, cursor]
  plaid_accounts,  \* table: the accounts with a row
  transactions,    \* table: transaction -> [user, pending]
  req,             \* what each request slot is doing
  skipped,         \* history: transactions passed over, their account unknown
  failures         \* failures so far

tables == <<plaid_items, plaid_accounts, transactions>>
vars == <<feed, plaid_items, plaid_accounts, transactions,
          req, skipped, failures>>

ItemOf(t) == AccountItem[TxAccount[t]]

----------------------------------------------------------------------------
(* Plaid's side.                                                           *)

Update == [kind : {"added", "modified", "removed"},
           tx : Transactions,
           pending : BOOLEAN]

\* The positions of feed f at which updates of one kind stand, above lo.
Positions(f, lo, hi, kind) == {p \in (lo + 1)..hi : f[p].kind = kind}

\* /transactions/sync called with cursor c: the lists of the answer, as
\* positions of the feed, and next_cursor and has_more.
PageEnd(f, c) == IF c + PageSize < Len(f) THEN c + PageSize ELSE Len(f)

SyncResult(f, c) ==
  [added    |-> Positions(f, c, PageEnd(f, c), "added"),
   modified |-> Positions(f, c, PageEnd(f, c), "modified"),
   next     |-> PageEnd(f, c),
   more     |-> PageEnd(f, c) < Len(f)]

Mentions(t, kind) ==
  \E p \in 1..Len(feed[ItemOf(t)]) :
    feed[ItemOf(t)][p].tx = t /\ feed[ItemOf(t)][p].kind = kind

Append1(t, kind, pending) ==
  /\ Len(feed[ItemOf(t)]) < MaxUpdates
  /\ feed' = [feed EXCEPT ![ItemOf(t)] =
       Append(@, [kind |-> kind, tx |-> t, pending |-> pending])]
  /\ UNCHANGED <<tables, req, skipped, failures>>

PublishAdded(t, pending) ==
  /\ ~Mentions(t, "added")
  /\ Append1(t, "added", pending)

\* A transaction that has settled never becomes pending again.
PublishModified(t, pending) ==
  /\ Mentions(t, "added") /\ ~Mentions(t, "removed")
  /\ pending => \A p \in 1..Len(feed[ItemOf(t)]) :
       feed[ItemOf(t)][p].tx = t => feed[ItemOf(t)][p].pending
  /\ Append1(t, "modified", pending)

PublishRemoved(t) ==
  /\ Mentions(t, "added") /\ ~Mentions(t, "removed")
  /\ Append1(t, "removed", FALSE)

----------------------------------------------------------------------------
(* The stages of a request: where its handler stands, and its locals.      *)

\* A cursor is the number of updates it stands behind.
Cursors == 0..MaxUpdates

Idle == [pc |-> "idle"]

ExchangeStage ==
  [pc : {"item", "accounts"}, user : Users, item : Items]
    \cup
  [pc : {"account"}, user : Users, item : Items, left : SUBSET Accounts]

\* todo: the rows SyncTransactions read and has not come to; accounts: the
\* accountMap; added, modified: what is left of the page up to cursor next.
ListStage ==
  [pc : {"next"}, user : Users, todo : PartialFunctions(Items, Cursors)]

FetchStage ==
  [pc : {"fetch"}, user : Users, todo : PartialFunctions(Items, Cursors),
   item : Items, accounts : SUBSET Accounts, cursor : Cursors]

PageStage ==
  [pc : {"page"}, user : Users, todo : PartialFunctions(Items, Cursors),
   item : Items, accounts : SUBSET Accounts, cursor : Cursors,
   added : SUBSET Cursors, modified : SUBSET Cursors, next : Cursors,
   more : BOOLEAN]

Request == {Idle} \cup ExchangeStage \cup ListStage \cup FetchStage
                  \cup PageStage

Goto(r, stage) == req' = [req EXCEPT ![r] = stage]

Init ==
  /\ feed = [i \in Items |-> << >>]
  /\ plaid_items = EmptyTable
  /\ plaid_accounts = {}
  /\ transactions = EmptyTable
  /\ req = [r \in Requests |-> Idle]
  /\ skipped = {}
  /\ failures = 0

----------------------------------------------------------------------------
(* POST /api/plaid/link/exchange.  The institution's name is looked up too *)
(* and a failure of that lookup is ignored.                                *)

\* The exchange answers with the item of the public token.
ExchangePublicToken(r, u, i) ==
  /\ req[r].pc = "idle"
  /\ Goto(r, [pc |-> "item", user |-> u, item |-> i])
  /\ UNCHANGED <<feed, tables, skipped, failures>>

\* item_id is unique: a second row for the item is refused and answers 500.
ItemUpserted(r) == FALSE  \* mutant: ON CONFLICT DO UPDATE
ItemTaken(r) == req[r].item \in DOMAIN plaid_items

StorePlaidItem(r) ==
  LET q == req[r] IN
  /\ q.pc = "item"
  /\ IF ItemTaken(r)
       THEN Goto(r, Idle) /\ UNCHANGED plaid_items
       ELSE /\ plaid_items' = CreatePlaidItem(plaid_items, q.item, q.user)
            /\ Goto(r, [q EXCEPT !.pc = "accounts"])
  /\ UNCHANGED <<feed, plaid_accounts, transactions, skipped, failures>>

GetAccounts(r) ==
  LET q == req[r] IN
  /\ q.pc = "accounts"
  /\ Goto(r, [pc |-> "account", user |-> q.user, item |-> q.item,
              left |-> {a \in Accounts : AccountItem[a] = q.item}])
  /\ UNCHANGED <<feed, tables, skipped, failures>>

\* account_id is unique as well: a refused row ends the request.
StoreAccount(r, a) ==
  LET q == req[r] IN
  /\ q.pc = "account"
  /\ a \in q.left
  /\ IF a \in plaid_accounts
       THEN Goto(r, Idle) /\ UNCHANGED plaid_accounts
       ELSE /\ plaid_accounts' = CreatePlaidAccount(plaid_accounts, a)
            /\ Goto(r, [q EXCEPT !.left = @ \ {a}])
  /\ UNCHANGED <<feed, plaid_items, transactions, skipped, failures>>

ExchangeDone(r) ==
  /\ req[r].pc = "account"
  /\ req[r].left = {}
  /\ Goto(r, Idle)
  /\ UNCHANGED <<feed, tables, skipped, failures>>

----------------------------------------------------------------------------
(* POST /api/plaid/sync.                                                   *)

\* The user's items are read once, with the cursors they have now.
SyncTransactions(r, u) ==
  /\ req[r].pc = "idle"
  /\ Goto(r, [pc |-> "next", user |-> u,
              todo |-> GetPlaidItemsByUserID(plaid_items, u)])
  /\ UNCHANGED <<feed, tables, skipped, failures>>

\* syncItemTransactions: the next row (the query has no ORDER BY) and the
\* accounts it has at this moment.
BeginItem(r, i) ==
  LET q == req[r] IN
  /\ q.pc = "next"
  /\ i \in DOMAIN q.todo
  /\ Goto(r, [pc |-> "fetch", user |-> q.user,
              todo |-> [j \in DOMAIN q.todo \ {i} |-> q.todo[j]],
              item |-> i,
              accounts |->
                GetPlaidAccountsByItemID(plaid_accounts, AccountItem, i),
              cursor |-> q.todo[i]])
  /\ UNCHANGED <<feed, tables, skipped, failures>>

FetchPage(r) ==
  LET q == req[r]
      page == SyncResult(feed[q.item], q.cursor) IN
  /\ q.pc = "fetch"
  /\ Goto(r, [pc |-> "page", user |-> q.user, todo |-> q.todo,
              item |-> q.item, accounts |-> q.accounts,
              cursor |-> q.cursor,
              added |-> page.added, modified |-> page.modified,
              next |-> page.next, more |-> page.more])
  /\ UNCHANGED <<feed, tables, skipped, failures>>

First(S, p) == p \in S /\ \A q \in S : p <= q

\* Request r has come to the added transaction at position p of its feed.
AtAdded(r, p) == req[r].pc = "page" /\ First(req[r].added, p)

UpdateAt(r, p) == feed[req[r].item][p]

\* Mutant: the accountMap keeps one account.
AccountOnly(r, p) == req[r].accounts = {TxAccount[UpdateAt(r, p).tx]}

AccountKnown(r, p) == TxAccount[UpdateAt(r, p).tx] \in req[r].accounts

\* "Skip if account not found".
SkipAdded(r, p) ==
  /\ AtAdded(r, p)
  /\ ~AccountKnown(r, p)
  /\ skipped' = skipped \cup {UpdateAt(r, p).tx}
  /\ Goto(r, [req[r] EXCEPT !.added = @ \ {p}])
  /\ UNCHANGED <<feed, tables, failures>>

StoreAdded(r, p) ==
  LET e == UpdateAt(r, p) IN
  /\ AtAdded(r, p)
  /\ AccountKnown(r, p)
  /\ e.tx \notin DOMAIN transactions
  /\ transactions' =
       CreateTransaction(transactions, e.tx, req[r].user, e.pending)
  /\ Goto(r, [req[r] EXCEPT !.added = @ \ {p}])
  /\ UNCHANGED <<feed, plaid_items, plaid_accounts, skipped, failures>>

\* A conflicting INSERT returns no row, and the generated :one query scans
\* one: it returns pgx.ErrNoRows.  The handler carries on after an error
\* only if its text is the second of these.
ErrNoRows == "no rows in result set"
ToleratedError == "no rows returned"

RejectAdded(r, p) ==
  /\ AtAdded(r, p)
  /\ AccountKnown(r, p)
  /\ UpdateAt(r, p).tx \in DOMAIN transactions
  /\ Goto(r, IF ErrNoRows = ToleratedError
               THEN [req[r] EXCEPT !.added = @ \ {p}]
               ELSE Idle)
  /\ UNCHANGED <<feed, tables, skipped, failures>>

\* Only the pending flag of a modified transaction is taken over.
ApplyModified(r, p) ==
  LET q == req[r] IN
  /\ q.pc = "page"
  /\ q.added = {}
  /\ First(q.modified, p)
  /\ transactions' = UpdateTransactionPendingStatus(transactions,
       UpdateAt(r, p).tx, UpdateAt(r, p).pending)
  /\ Goto(r, [q EXCEPT !.modified = @ \ {p}])
  /\ UNCHANGED <<feed, plaid_items, plaid_accounts, skipped, failures>>

\* Mutants: the cursor is saved before the modified, or before the added
\* list is done; and the last page's cursor is taken for empty.
AddedDone(r) == req[r].added = {}
ModifiedDone(r) == req[r].modified = {}
CursorIfMore(r) == IF req[r].more THEN req[r].next ELSE 0

PageDone(r) == req[r].added = {} /\ req[r].modified = {}
NextCursor(r) == req[r].next

\* Removed transactions are counted and otherwise ignored; then the cursor.
SaveCursor(r) ==
  LET q == req[r] IN
  /\ q.pc = "page"
  /\ PageDone(r)
  /\ plaid_items' = UpdatePlaidItemCursor(plaid_items, q.item, NextCursor(r))
  /\ Goto(r, IF q.more
       THEN [pc |-> "fetch", user |-> q.user, todo |-> q.todo,
             item |-> q.item, accounts |-> q.accounts,
             cursor |-> NextCursor(r)]
       ELSE [pc |-> "next", user |-> q.user, todo |-> q.todo])
  /\ UNCHANGED <<feed, plaid_accounts, transactions, skipped, failures>>

SyncDone(r) ==
  /\ req[r].pc = "next"
  /\ DOMAIN req[r].todo = {}
  /\ Goto(r, Idle)
  /\ UNCHANGED <<feed, tables, skipped, failures>>

----------------------------------------------------------------------------
(* Failures.                                                               *)

\* The next statement or call fails, or the client goes away and the
\* request's context is cancelled: the handler answers 500 and returns.
Fail(r) ==
  /\ failures < MaxFailures
  /\ req[r].pc # "idle"
  /\ Goto(r, Idle)
  /\ failures' = failures + 1
  /\ UNCHANGED <<feed, tables, skipped>>

\* The process dies: every request in it is gone.
Crash ==
  /\ failures < MaxFailures
  /\ req' = [r \in Requests |-> Idle]
  /\ failures' = failures + 1
  /\ UNCHANGED <<feed, tables, skipped>>

----------------------------------------------------------------------------

\* What a running handler does next; the runtime always gets it there.
Proceed(r) ==
  \/ StorePlaidItem(r)
  \/ GetAccounts(r)
  \/ \E a \in Accounts : StoreAccount(r, a)
  \/ ExchangeDone(r)
  \/ \E i \in Items : BeginItem(r, i)
  \/ FetchPage(r)
  \/ \E p \in 1..MaxUpdates : \/ SkipAdded(r, p)
                              \/ StoreAdded(r, p)
                              \/ RejectAdded(r, p)
                              \/ ApplyModified(r, p)
  \/ SaveCursor(r)
  \/ SyncDone(r)

Publish ==
  \E t \in Transactions :
    \/ \E b \in BOOLEAN : PublishAdded(t, b) \/ PublishModified(t, b)
    \/ PublishRemoved(t)

Next ==
  \/ Publish
  \/ \E r \in Requests :
       \/ \E u \in Users, i \in Items : ExchangePublicToken(r, u, i)
       \/ \E u \in Users : SyncTransactions(r, u)
       \/ Proceed(r)
       \/ Fail(r)
  \/ Crash

Spec == Init /\ [][Next]_vars

\* A started handler finishes.  Nobody has to start one.
Fairness == \A r \in Requests : WF_vars(Proceed(r))

FairSpec == Spec /\ Fairness

----------------------------------------------------------------------------
(* Properties of every run.                                                *)

\* Every variable holds what its column, local or log may hold: keys are
\* unique, todo lists and page positions are those of the feed's items.
TypeOK ==
  /\ feed \in [Items -> Seq(Update)]
  /\ \A i \in Items : Len(feed[i]) \in Cursors
  /\ plaid_items \in PartialFunctions(Items, PlaidItem(Users, Cursors))
  /\ plaid_accounts \in SUBSET Accounts
  /\ transactions \in PartialFunctions(Transactions, Transaction(Users))
  /\ req \in [Requests -> Request]
  /\ skipped \in SUBSET Transactions
  /\ failures \in 0..MaxFailures

Listing(r) == req[r].pc \in {"next", "fetch", "page"}
Importing(r) == req[r].pc \in {"fetch", "page"}

Handled(t) == t \in DOMAIN transactions \/ t \in skipped

\* Every transaction announced at or below position c of i's feed is handled.
Covered(i, c) ==
  /\ c <= Len(feed[i])
  /\ \A p \in 1..c : feed[i][p].kind = "added" => Handled(feed[i][p].tx)

\* A saved cursor never stands past a transaction that was neither stored
\* nor knowingly skipped, whatever fails and whatever overlaps: the cursor
\* of a page is written after the page, though no SQL transaction says so,
\* and Plaid will not announce what lies behind a cursor again.
CursorCovers ==
  \A i \in DOMAIN plaid_items : Covered(i, plaid_items[i].cursor)

\* A stored transaction has its account's row and its item's row, and is
\* owned by the user who owns the item: nothing is imported for one user
\* from an item another user has linked, even when one public token is posted
\* by two users at once (createTransaction takes user_id from the request and
\* the account from a map read earlier).
OwnerConsistent ==
  \A t \in DOMAIN transactions :
    /\ TxAccount[t] \in plaid_accounts
    /\ ItemOf(t) \in DOMAIN plaid_items
    /\ transactions[t].user = plaid_items[ItemOf(t)].user

\* The positions of the new transactions request r has stored from its page:
\* it has come past them, and its own accountMap has their account.
StoredFromPage(r) ==
  {p \in (req[r].cursor + 1)..req[r].next :
     /\ UpdateAt(r, p).kind = "added"
     /\ p \notin req[r].added
     /\ AccountKnown(r, p)}

\* Two syncs of one item may overlap, and the slower one may then write an
\* older cursor over a newer one; but none overtakes a request that has
\* stored a transaction from its page: what it stored is still ahead of the
\* saved cursor, because the duplicate INSERT ends the other request before
\* its cursor.  The exception is a transaction that the other request has
\* skipped: it read the item's accounts before the account had a row, tries
\* no INSERT, and may save its cursor past what this one has stored since.
CreatorAheadOfCursor ==
  \A r \in Requests : req[r].pc = "page" =>
    \A p \in StoredFromPage(r) :
      \/ plaid_items[req[r].item].cursor < p
      \/ UpdateAt(r, p).tx \in skipped

\* Every account of item i has a row, and no request still works with a map
\* of its accounts that was read before.
Complete(i) ==
  LET all == {a \in Accounts : AccountItem[a] = i} IN
  /\ i \in DOMAIN plaid_items
  /\ all \subseteq plaid_accounts
  /\ \A r \in Requests :
       Importing(r) /\ req[r].item = i => all \subseteq req[r].accounts

\* Transactions are lost to syncs that started while an exchange was storing
\* the item's accounts, and to no others: once the last account is in and
\* those syncs are over, no sync skips a transaction of the item any more,
\* whatever fails or overlaps later.
CompleteIsFinal ==
  [][\A i \in Items : Complete(i) =>
       /\ Complete(i)'
       /\ \A t \in skipped' \ skipped : ItemOf(t) # i]_vars

\* Some account of a linked item has no row, and no request is on its way
\* to storing it.
Broken(i) ==
  /\ i \in DOMAIN plaid_items
  /\ \E a \in Accounts : AccountItem[a] = i /\ a \notin plaid_accounts
  /\ \A r \in Requests :
       req[r].pc \in {"accounts", "account"} => req[r].item # i

\* An exchange that fails after its first INSERT is never made good: posting
\* the item's token again, by anyone, in any order, stops at the unique
\* item_id and adds no account.
BrokenIsFinal == [][\A i \in Items : Broken(i) => Broken(i)']_vars

\* Request r has not read item i past position p, or still has it to do.
NotPast(r, i, p) ==
  /\ Listing(r) /\ i \in DOMAIN req[r].todo => req[r].todo[i] < p
  /\ Importing(r) /\ req[r].item = i => req[r].cursor < p
  /\ req[r].pc = "page" /\ req[r].item = i /\ p <= req[r].next =>
       p \in req[r].added

\* The transaction that item i's feed adds at p, ahead of the saved cursor, is
\* stored already, and no request stands past it or would pass over it.
HalfImported(i, p) ==
  /\ i \in DOMAIN plaid_items /\ plaid_items[i].cursor < p /\ p <= Len(feed[i])
  /\ feed[i][p].kind = "added" /\ feed[i][p].tx \in DOMAIN transactions
  /\ \A r \in Requests :
       /\ NotPast(r, i, p)
       /\ Importing(r) /\ req[r].item = i =>
            TxAccount[feed[i][p].tx] \in req[r].accounts

\* A page that a failure has cut off half way is never completed: with no sync
\* past it at that moment, none that runs then or later, of whatever age and
\* however many at once, gets the item's cursor past what was stored, for the
\* duplicate INSERT ends each of them at the same place.
HalfImportIsFinal ==
  [][\A i \in Items, p \in 1..MaxUpdates :
       HalfImported(i, p) => HalfImported(i, p)']_vars

\* The transactions item i's feed announces at or below position c.
Announced(i, c) ==
  {feed[i][p].tx : p \in {q \in 1..c : feed[i][q].kind = "added"}}

\* The handlers' statements are the steps of the abstract import: a cursor
\* acknowledges what it stands past, and only after it has been handled; a
\* row is stored once, for the user of the item that announced it.
I == INSTANCE Import WITH
       announced <- [i \in Items |-> Announced(i, Len(feed[i]))],
       owner <- [i \in DOMAIN plaid_items |-> plaid_items[i].user],
       acknowledged <-
         [i \in DOMAIN plaid_items |-> Announced(i, plaid_items[i].cursor)],
       stored <- [t \in DOMAIN transactions |-> transactions[t].user],
       passed <- skipped
ISpec == I!ISpec

----------------------------------------------------------------------------
(* The inductive invariant: what requests in flight hold, beside what the  *)
(* tables hold.  PlaidSyncProofs proves it and draws the above from it.    *)

\* What is left of a page lies inside the page, and the page in the feed.
PageInFeed(r) ==
  req[r].pc = "page" =>
    /\ req[r].next <= Len(feed[req[r].item])
    /\ req[r].added \cup req[r].modified
         \subseteq (req[r].cursor + 1)..req[r].next

\* Every cursor a request holds is as good as a saved one, and so is its
\* page's cursor once the page is done.
HoldsCovered(r) ==
  /\ Listing(r) => \A i \in DOMAIN req[r].todo : Covered(i, req[r].todo[i])
  /\ Importing(r) => Covered(req[r].item, req[r].cursor)
  /\ req[r].pc = "page" =>
       \A p \in (req[r].cursor + 1)..req[r].next :
         UpdateAt(r, p).kind = "added" =>
           p \in req[r].added \/ Handled(UpdateAt(r, p).tx)

\* The items and accounts a request holds have rows, and are its user's.
HoldsOwned(r) ==
  LET q == req[r]
      Owned(i) == i \in DOMAIN plaid_items /\ plaid_items[i].user = q.user IN
  /\ q.pc \in {"accounts", "account"} => Owned(q.item)
  /\ q.pc = "account" => \A a \in q.left : AccountItem[a] = q.item
  /\ Listing(r) => \A i \in DOMAIN q.todo : Owned(i)
  /\ Importing(r) =>
       /\ Owned(q.item)
       /\ q.accounts \subseteq
            GetPlaidAccountsByItemID(plaid_accounts, AccountItem, q.item)

AccountsLinked ==
  \A a \in plaid_accounts : AccountItem[a] \in DOMAIN plaid_items

\* The positions of new transactions request r has come past on its page and
\* that nobody has ever skipped, so that r has stored them; neither another
\* request nor the saved cursor can overtake these.
DoneWith(r) ==
  {p \in (req[r].cursor + 1)..req[r].next :
     /\ UpdateAt(r, p).kind = "added"
     /\ p \notin req[r].added
     /\ UpdateAt(r, p).tx \notin skipped}

Unpassed(r, o) ==
  \A p \in DoneWith(r) : NotPast(o, req[r].item, p)

DoneAhead ==
  \A r \in Requests : req[r].pc = "page" =>
    \A p \in DoneWith(r) : plaid_items[req[r].item].cursor < p

IInv ==
  /\ TypeOK
  /\ \A r \in Requests : PageInFeed(r) /\ HoldsCovered(r) /\ HoldsOwned(r)
  /\ AccountsLinked
  /\ CursorCovers
  /\ OwnerConsistent
  /\ \A r, o \in Requests : req[r].pc = "page" /\ r # o => Unpassed(r, o)
  /\ DoneAhead

----------------------------------------------------------------------------
(* Properties of users who wait for an answer before they ask again; any   *)
(* number of users may ask at once.                                        *)

\* The syncs of one user do not overlap.
SyncsApart ==
  \A r, o \in Requests :
    r # o /\ Listing(r) /\ Listing(o) => req[r].user # req[o].user

\* Nor do syncs and exchanges of one user.
RequestsApart ==
  \A r, o \in Requests :
    r # o /\ req[r].pc # "idle" /\ req[o].pc # "idle"
      => req[r].user # req[o].user

\* With a user's syncs apart none moves a saved cursor backwards.
CursorMonotone ==
  [][\A i \in DOMAIN plaid_items :
       plaid_items[i].cursor <= plaid_items'[i].cursor]_vars

\* The pending flag the feed gives t once its first n updates are applied.
PendingAfter(t, n, flag) ==
  \E p \in 1..n :
    /\ feed[ItemOf(t)][p].tx = t
    /\ feed[ItemOf(t)][p].pending = flag
    /\ feed[ItemOf(t)][p].kind # "removed"
    /\ \A q \in (p + 1)..n : feed[ItemOf(t)][q].tx = t =>
         feed[ItemOf(t)][q].kind = "removed"

\* The stored pending flag is one the feed had at the saved cursor or later,
\* also after a failure in the middle of a page and the page's second
\* reading: no update behind the cursor is missing from the row.
PendingNotBehindCursor ==
  \A t \in DOMAIN transactions :
    \E n \in plaid_items[ItemOf(t)].cursor..Len(feed[ItemOf(t)]) :
      PendingAfter(t, n, transactions[t].pending)

\* With a user's requests apart, a transaction is passed over only when its
\* item's exchange failed half way.
SkippedOnlyIfBroken == \A t \in skipped : Broken(ItemOf(t))

Syncing(u) == \E r \in Requests : Listing(r) /\ req[r].user = u

ItemsOf(u) == {i \in DOMAIN plaid_items : plaid_items[i].user = u}

\* A user who syncs again and again gets every item to the end of its feed,
\* whichever other item comes first and whichever failures end a sync, or
\* has an item that stops at a half imported page.
CaughtUp ==
  \A u \in Users, i \in Items :
    []<>Syncing(u) =>
      (i \in ItemsOf(u)
         ~> \/ i \in ItemsOf(u) /\ plaid_items[i].cursor = Len(feed[i])
            \/ \E j \in ItemsOf(u), p \in 1..MaxUpdates : HalfImported(j, p))

\* "Log but don't fail on duplicate transactions": a request that comes to a
\* transaction already stored goes on, unless something else fails.
DuplicateTolerated ==
  [][\A r \in Requests :
       (\E p \in 1..MaxUpdates :
          AtAdded(r, p) /\ UpdateAt(r, p).tx \in DOMAIN transactions)
         => req'[r].pc # "idle" \/ failures' > failures]_vars

=============================================================================
