# spendr, verified

spendr is a Go web server for shared expenses: users register, connect their
bank accounts through Plaid, import transactions, share a wallet with
others and mark transactions as shared or individual. This directory holds TLA+
models of the parts of it where order, overlap and failure matter, the TLC runs
that check them on small instances, and TLAPS proofs of what matters most.

All paths below are in the repository (`src/`). `plaid.go` is
`internal/handlers/plaid.go`; `wallets.go` and `transactions.go` are beside it.

## The system

| Component | State it keeps | Operations that change it | What makes it correct |
|---|---|---|---|
| Bank linking and import (`plaid.go`, `internal/plaid/service.go`) | `plaid_items` with the sync cursor, `plaid_accounts`, `transactions`; Plaid's feed per item | exchange of a public token, sync | no cursor is saved past a transaction that was neither stored nor skipped, and none is skipped once its account is known; imports belong to the item's user; pending flags keep up; a user who keeps syncing catches up |
| Shared wallets (`wallets.go`, `cmd/web/wallets.templ`) | `wallets`, `wallet_members` | create, add member, remove member | the creator is in first; only members let people in and remove them; nobody new gets into a deserted wallet |
| Categorization (`transactions.go`) | `transaction_categorizations`; the list a client has | categorize, uncategorize | only a transaction's owner decides; an accepted decision stands until withdrawn; a list hides nothing undecided |
| Lists and pagination (`transactions.go`, `dashboard.go`) | none | none | a walk from page to page misses nothing it could show; counted pages hold the rows of their number |
| Accounts and sessions (`internal/auth`, `internal/handlers/auth.go`) | `users`, `sessions`; the browsers' cookies | register, login, logout, expiry and cleanup | a session signs in only the account's own user; a cookie names a stored session; a session that is gone comes back only by a sign-in that had loaded it; who owns an account gets into it |
| Server, shutdown, health and sockets (`cmd/api/main.go`, `internal/server`, `internal/database/database.go`, `internal/handlers/websocket.go`) | the process, its connections and its pool | serve, signal, shutdown, health probe, socket | a signal ends the process; an exit cuts off no tracked request that has not had 5 seconds; a probe reports, and does not act |
| Balances table, pages, migrations, build | none that a handler decides on | none | not modelled |

How they interact. The components call each other only through the database. A
browser sends HTTP requests; `net/http` runs each in a goroutine of its own;
the session middleware gives it a user id; its handler runs SQL statements and
Plaid calls one after another and answers. There are no locks, no queues and no
SQL transactions: `Queries.WithTx` exists and is never called, so every
statement commits by itself and any number of requests interleave between
statements. Everything hard about this system comes from that:

- a handler that fails or is cut off between two statements leaves the first
  one's effect (an item without accounts, a page half imported, a wallet
  without members);
- a handler acts on rows it read some statements ago (the cursor, the account
  map, the membership check);
- a request carries ids from a page of any age, or from no page at all, and the
  handlers check little of it;
- uniqueness in the database is the only thing two requests agree on, and how
  an error is read (`"no rows returned"`) decides what happens next;
- a session is loaded before the handler and committed when it writes its
  status, and the cookie comes with the answer, later still;
- the process ends while handlers run, on a signal, or because a probe failed.

`PROJECT.json` lists these hazards at their lines.

## Modules

| Module | What it is |
|---|---|
| `Queries` | the SQL statements the handlers use, as operators on tables |
| `PlaidSync` | linking and import: state, actions, properties, refinement mapping, inductive invariant |
| `Import` | the abstract import |
| `MCPlaidSync` | link tables, symmetry and view of its instances |
| `Wallets` | wallets: state, actions, properties, refinement mapping |
| `Membership` | the abstract wallet |
| `Categorization` | decisions and the uncategorized list; refinement mapping |
| `Decisions` | the abstract ledger of decisions |
| `Accounts` | registration, login, logout and sessions; refinement mapping |
| `SignIn` | the abstract sign-in |
| `Pagination` | both paginated lists, their numbers and links |
| `Lifecycle` | the process, its connections, its pool and its end |
| `MCWallets`, `MCCategorization`, `MCAccounts`, `MCPagination` | the symmetry of their instances |
| `QueriesProofs`, `PlaidSyncProofs`, `SyncSerialProofs`, `WalletsProofs`, `CategorizationProofs`, `AccountsProofs`, `PaginationProofs`, `LifecycleProofs` | theorems and proofs |

The modules of the handlers share `Queries` and are composed with nothing else:
what another component may do to the rows of one is an action of that one
(`StoreTransaction` in `Categorization` and `Pagination`, any wallet answered
to a lookup in `Categorization`). The end of the process in `Lifecycle` is the
`Crash` of the others.

### Queries

A table is a function from its unique key to the columns a handler decides on
(`plaid_items`: user and cursor; `transactions`: user and pending), or a set
where the key is all there is. Each operator is one `sqlc` query.
`INSERT ... ON CONFLICT DO NOTHING` leaves a table as it is; `UPDATE` and
`DELETE` without a row have no effect and no error. Names, dates, amounts and
JSON columns are left out. A query without `ORDER BY` but with `LIMIT 1`
(`GetWalletByUserID`) is the set of rows it may return.

### PlaidSync

State: the three tables; `feed`, Plaid's log of updates per item; `req`, one
record per request slot with the place its handler stands at (`pc`) and its
locals; and two histories, `skipped` and `failures`. A cursor is the number of
updates it stands behind, 0 for NULL.

| Action | Code |
|---|---|
| `ExchangePublicToken`, `StorePlaidItem`, `GetAccounts`, `StoreAccount`, `ExchangeDone` | `ExchangePublicToken`, plaid.go:64-145 |
| `SyncTransactions` | reading the user's items, plaid.go:155 |
| `BeginItem` | the item loop and the account map, plaid.go:166-212 |
| `FetchPage` | one page from Plaid, plaid.go:216 and service.go:166-198 |
| `SkipAdded`, `StoreAdded`, `RejectAdded` | one transaction of the added loop: account unknown, stored, or there already |
| `ApplyModified` | one transaction of the modified loop |
| `SaveCursor` | the ignored removals, the cursor, and `has_more` |
| `SyncDone` | the answer |
| `Fail` | any error return: the next statement or call fails, or the client leaves |
| `Crash` | the process goes away (also at the end of the 5 seconds of `gracefulShutdown`) |
| `Publish` | Plaid: a transaction is added, modified or removed |

Plaid is external and modelled from how the code uses it: an append-only feed
per item, `/transactions/sync` answers the updates after a cursor in pages of
`PageSize`, and an item's accounts are those `/accounts/get` lists. Accounts
that open after the link was made are outside the model: nothing in the code
ever adds them, so their transactions are always skipped. A settled transaction
does not become pending again. A duplicate of Plaid's own (two added updates
for one transaction) is not assumed.

A statement that commits although its reply is lost is the statement followed
by `Fail`. `RejectAdded` models the conflict: the generated `:one` query scans no
row and returns pgx's `ErrNoRows` ("no rows in result set"), which is not the
text the handler tolerates, so the request ends.

`PlaidSync` implements `Import`, in which a bank announces transactions, each
is stored once for the user who linked the bank or passed over, and only then
acknowledged. The mapping: `announced` = the added updates of a feed,
`acknowledged` = those at or below the saved cursor, `stored` and `owner` = the
user columns, `passed` = `skipped`. Acknowledging may be taken back, because an
overlapping sync may save an older cursor.

Not modelled here: the links' institution names, the failure of whose lookup is
ignored; amounts and dates; `CreateLinkToken` and the list of accounts, which
change nothing.

### Wallets and Membership

State: the two tables; `req`, as above; histories `creator` and `joined`.
`GET /wallets` only reads, and what its page shows is no restriction: a page may
be as old as it likes, may have been rendered for somebody else who used the
same browser, and need not exist at all. So requests carry any ids, and the
guards of the actions are the checks of the handlers. `RemoveMember` asks only
whether the caller is in the wallet the URL names; the member may be anybody,
the caller too, although the page has no button for that. `AddMember` does not
even look at the URL's wallet.

| Action | Code |
|---|---|
| `CreateWallet`, `AddCreator` | the two INSERTs of `CreateWallet`, wallets.go:63 and 70 |
| `AddMember`, `AddFound` | lookup and INSERT of `AddMember`, wallets.go:98 and 112 |
| `RemoveMember`, `DeleteMember` | check and DELETE of `RemoveMember`, wallets.go:148 and 155 |
| `Refuse` | their errors: no wallet found, or not the one that is named, wallets.go:99 and 149 |
| `Fail`, `Crash` | error returns, and the process going away |

`Membership` is what a wallet promises: its founder comes first; after that
people are let in and removed by order of members only, and an order is carried
out at most once, maybe late, when whoever gave it is a member no longer.
`Wallets` implements it under the mapping `founder` = the creators of the
wallets somebody has joined, `members` = `wallet_members`, `orders` = what the
requests between their lookup and their INSERT or DELETE have been asked to do.

### Categorization

State: `transactions` and `transaction_categorizations`; `req`, as above, where
a slot in state `show` is a client with a list before it; and two histories,
`accepted` (decisions answered 200, until withdrawn) and `since` (what a list
cannot know of: stored or withdrawn after it was read).

| Action | Code |
|---|---|
| `StoreTransaction` | a sync stores a row, `createTransaction`, plaid.go:267 |
| `GetUncategorizedTransactions`, `ListUncategorized` | the wallet lookup and the query after it, transactions.go:92-116 |
| `CategorizeTransaction` | the type, the row and its owner, transactions.go:118-236 |
| `StoreDecision`, `RefuseDecision` | the INSERT and its unique key, transactions.go:238-249 |
| `UncategorizeTransaction` | the DELETE, transactions.go:153-184 |
| `StoreUnanswered` | the INSERT commits and its answer is lost |
| `Fail`, `Crash`, `Leave` | error returns, the process going away, a client done with its list |

What a sync does before and after its INSERT is in `PlaidSync`; here any user's
transaction may come at any time. Who is in which wallet is in `Wallets`; here
the lookup may return any wallet, because members come and go between the
statements, and `categorize` takes the wallet id of its form as it is, without
asking for membership. `UncategorizeTransaction` asks neither for the owner nor
for membership, so the model lets it withdraw any decision at any time. No page
of this commit shows the list or sends these requests: the handlers are modelled
as their routes offer them, with any ids. `GetSharedTransactions` and the
redirect of `UncategorizedTransactionsPage` change nothing and are left out.

`Categorization` implements `Decisions`, in which a wallet gets at most one
decision about a transaction, made by its owner in one step, and the first one
made stands until it is withdrawn; somebody may or may not be told. The mapping:
`owner` = the user column, `ledger` = the decisions whose rows are stored, `told` =
`accepted`. The owner is looked up in one statement and the row inserted in
another, so the step that decides is the INSERT.

### Accounts

State: `users` and `sessions`; `cookie`, the token each browser holds; `req`, as
above; `expired`, the sessions past their deadline; and the histories `holder`
and `loggedOut`. A browser stands for a person and for the password only they
type. The session manager is external and modelled from how `server.go` sets it
up: it loads the session a cookie names before the handler, commits a changed
one when the handler writes its status, and the cookie is in the answer.

| Action | Code |
|---|---|
| `Send`, `Answer` | a browser's request with its cookie, and the answer with its Set-Cookie |
| `Load` | LoadAndSave (routes.go:20) and `RequireAuth`, middleware.go:16-30 |
| `Login` | auth.go:33-45, service.go:39-51 |
| `Register` | auth.go:49-62: hash, then the INSERT, whose unique index decides |
| `Commit` | `Put` and `WriteHeader` of both: the session's row |
| `Logout` | auth.go:66-69: `Destroy`, whose error is ignored (`Fail`) |
| `PageDone` | a handler behind `RequireAuth` |
| `Expire`, `Cleanup` | the Lifetime of 24 hours, and the deletion in the background, server.go:31-32 |
| `Fail`, `Crash` | the next statement fails or an answer is lost, and the process going away |

No handler calls `RenewToken`, so a later login on one browser keeps the token
and the deadline of the first, also for another account. A login that has
loaded its session when a logout deletes it commits it again:
`OnlySignInsRevive` says that nothing else brings a session back, that each
sign-in that had loaded it does so at most once, and that none joins them once
the session is gone. Password
hashing is a comparison. Tokens are random, so a fresh one is one nothing
names; `TokensOut` is a bound, not code.

`Accounts` implements `SignIn`, in which an address is registered once, a live
session is made for one browser and signs it in to accounts of its person only,
ends, and is handed to that browser and to no other. The mapping, in words:
`account` = who registered each address, `maker` = `holder`, `signed` = the sessions that
are stored and before their deadline, with the accounts in them, `holds` = the cookies. A commit of a session
that a logout or the clean-up has taken away meanwhile is a sign-in of its own
(`SignInto`), as it is in the code.

### Lifecycle

State: where `main` and `gracefulShutdown` are; `conn`, what `http.Server`
knows of each connection, and `handler`, what its goroutine does;
`timedOut`, `signals` and `ended`.

| Action | Code |
|---|---|
| `Listen`, `ListenFails`, `ServeReturns`, `MainExits` | `main`, main.go:40-57 |
| `NotifyContext`, `Signal`, `Stop`, `Shutdown`, `SendDone` | `gracefulShutdown`, main.go:15-37 |
| `CloseIdle`, `Drained`, `TimeUp` | `http.Server.Shutdown`: idle connections, no connection left, the 5 seconds |
| `Accept`, `HangUp`, `Read`, `Begin`, `Answer` | a connection and its requests |
| `Query`, `QueryDone` | a statement holding a connection of the pool |
| `Health`, `HealthFails` | the ping within its second, and `log.Fatalf`, database.go:73-98 |
| `WebSocket`, `Leave`, `WriteFails` | the hijacked connection and its loop, websocket.go:18-40 |

What handlers do is in the other modules; here they are statements. `net/http`
is external; two of its details matter and are kept: a new connection of five
seconds' age counts as idle, and a connection that `closeIdleConns` closes
between the reading of its request and the start of its handler is forgotten,
so that handler runs on without being waited for (`forgotten`). `NotCutShort`
has these and the sockets as its exceptions; the model reaches both. Logging, CORS, `HelloWorldHandler` and
the environment are left out.

### Pagination

State: `date`, the table; `view`, the request under way or the answer before the
client; and `walk`, a history of following links from page 1.

| Action | Code |
|---|---|
| `Dashboard`, `GetTransactions` | the parameters, dashboard.go:25-50 and transactions.go:35-58 |
| `NextPage`, `Previous` | the links, dashboard.templ:131-165 |
| `Count`, `CountFails` | the count; the dashboard goes on without it |
| `List`, `ListFails` | the rows; a negative offset is an error |
| `StoreTransaction` | a sync stores a row, plaid.go:301-322 |

`Int32` cuts the offset as the conversion does. `ORDER BY date DESC` without a
tie-break gives rows of one date in any order, another one in each query, so
`GetTransactionsByUserIDPaginated` is the set of lists it may return. The
properties therefore speak of rows alone on their date. `PageIsExact` covers the
pages a request itself counts and those beyond them whose offset fits an int32.
Further out offsets wrap, in the model as in the code: page 9 of 2 rows has the
rows of page 1, and in the code page 268435457 of 16 rows has. How a row is
drawn is left out.

## Runs

Each run asks one question. Bounds are constants of the modules (`MaxUpdates`,
`MaxFailures`, `MaxFaults`, `MaxSignals`, `Tokens`, `Parameters`, the number of
request slots) and stand in the guards of `Append1`, `Fail`, `Crash`, `Expire`
and `Signal`. Deadlock is checked in every run but those of `Lifecycle`, where
the process really ends.

| Run | Instance | Shows |
|---|---|---|
| `sync_overlap` | 2 users, 1 item with 2 accounts and 2 transactions, feed of 3, page of 1, 2 requests, 2 failures | `TypeOK`, `CursorCovers`, `CreatorAheadOfCursor`, `OwnerConsistent`, `BrokenIsFinal`, `HalfImportIsFinal`, `CompleteIsFinal` and the refinement `ISpec`: two exchanges of one public token, syncs during them, overlapping syncs, and pages cut off half way |
| `sync_serial` | 1 user, 2 items, one of them with 2 accounts and 2 transactions and the other empty, feed of 3, page of 2, 1 request, 2 failures | `CursorMonotone`, `PendingNotBehindCursor`, `SkippedOnlyIfBroken`: what holds without overlap, through failures in the middle of a page; `CaughtUp` |
| `sync_duplicate` | 1 request, page of 2, 1 failure | finds `DuplicateTolerated` violated |
| `wallets_overlap` | 3 users, 2 wallets, 2 requests, 1 failure | `TypeOK`, `CreatorJoinsFirst`, `DesertedIsFinal` and the refinement `MSpec`: requests with any ids, and lookups older than the wallet they act on |
| `wallets_remove` | 2 users, 1 wallet, 2 requests | finds `RemoverHasAccess` violated |
| `wallets_add` | 2 users, 2 wallets, 1 request | finds `AddsToNamedWallet` violated |
| `categorize` | 2 users, 2 wallets, 2 transactions, 2 requests, 1 failure | `TypeOK`, `OwnerDecides`, `AcceptedIsStored`, `NothingHidden` and the refinement `DSpec`: racing, retried and withdrawn decisions, and lists of any age |
| `accounts_overlap` | 2 browsers, 2 addresses, 2 tokens, 2 requests, 1 fault | `TypeOK`, `SignedInAsOneself`, `CookieIsGood`, `OnlySignInsRevive` and the refinement `SSpec`: racing registrations, logins into old sessions, logouts and deadlines meanwhile |
| `accounts_live` | 1 browser, 1 address, 3 tokens, 1 request, 2 faults | `GetsIn` |
| `lifecycle` | 3 connections, 1 connection of the pool, 3 signals | `TypeOK`, `NotCutShort`, `Ends` |
| `health_probe` | 2 connections, 1 connection of the pool, pings never slow by themselves | finds `HealthAnswers` violated |
| `paginate` | 4 rows on 3 dates, pages of 2, limits to 3, integers from -8 to 7 | `TypeOK`, `NoneMissed`, `PageIsExact`: rows stored between pages, numbers that overflow, statements that fail |

Why the bounds are enough. Each hazard needs at most two requests, and two
accounts or transactions to tell "some" from "all". A feed of three single
pages lets one sync be two pages ahead of another and the slower one put its
cursor back. Pages of two, with a failure after the first, give the half
imported page; the third update of the feed may be the modification, or the
removal, of one of its transactions. Two failures let the repair of a failure
fail. A second item, even an empty one, may come before or after the first in
the unordered list. Two wallets give a user a choice of wallet and a
transaction two decisions; three users are one who removes another while a
third is let in. A logged-out token can be named by a cookie and by
two requests at once; a third token lets one browser make a session after two
lost ones. Three connections over a pool of one are a statement, a ping behind
it and a socket; three signals are one that is heard, one that is ignored and
one that kills. Four rows in pages of two are two full pages, three a page and
a half; with integers of 16 values, page 9 has the offset of page 1. The
theorems remove the bounds for the safety properties they cover.

Symmetry is used for interchangeable users, wallets, browsers, addresses,
tokens and request slots, and for the two accounts of an item together with
their transactions, in runs without liveness properties only.
`sync_overlap` also leaves pending flags out of the state that TLC compares
(`Unflagged`): no handler decides anything on a flag, and the properties of that
run do not mention them. `sync_serial` has the flags.

### Fairness

A handler that runs is carried on (weak fairness of each request's next step,
`PlaidSync!FairSpec` and `Accounts!FairSpec`). The runtime schedules goroutines
fairly, and a statement or call ends with an answer or an error. The Plaid
client has no timeout of its own, so this includes that Plaid answers. Nobody
is assumed to start a request: nothing in the code syncs by itself (the pages
post one after a link and on the "Sync transactions" button), and nobody has to
log in, so `CaughtUp` and `GetsIn` say what is promised to a user who does so
again and again. Failures strike anywhere, but `CaughtUp` leaves out a user with
an item whose page was half imported when one did, because that item is stuck:
see the first finding.

`Lifecycle!FairSpec` assumes that `main` and `gracefulShutdown` run on and that
5 seconds pass, and nothing of handlers, statements or clients.

## What the runs found

1. **A duplicate stops its item for good** (`sync_duplicate`). plaid.go:229
   says "Log but don't fail on duplicate transactions"; the code compares the
   error with `"no rows returned"`, which is never the text of pgx's
   `ErrNoRows`, and answers 500. After a failure in the middle of a page, the
   page is read again from the old cursor and stops at the first transaction
   that had been stored, on every later sync: by `HalfImportIsFinal` (proved)
   none, of whatever age and however many at once, gets past it, provided that
   no sync was past it already at the moment of the failure.
   `CreatorAheadOfCursor` also depends on the code as it is: with the intended
   text, an overlapping request could pass over what another one is still
   storing and save its cursor (the property's mutant).
2. **Two members can remove each other** (`wallets_remove`). wallets.go:147
   verifies access in one statement and deletes in another; when two removals
   overlap, both pass the check, and the first takes away what the second has
   verified. The wallet is left with nobody. The same state is reached by one
   request, a last member's removal of themselves, which only the page leaves
   out. By `DesertedIsFinal` only requests that looked before can still enter
   the wallet then.
3. **Members are added to a wallet the URL does not name** (`wallets_add`).
   The route has a `walletID` the handler does not read; a user in two wallets
   adds to whichever one `LIMIT 1` returns.
4. **The health probe ends the process** (`health_probe`). database.go:72 says
   that `Health` "returns a map with keys indicating various health
   statistics"; when its ping does not come back within a second it calls
   `log.Fatalf`, with every request in the process. The database may be well:
   requests that hold all connections of the pool for a second are enough.

Also visible in the models, without a claim of the repository against it:

- an exchange that fails half way leaves an item that can neither be linked
  again nor completed (`BrokenIsFinal`), and the transactions of its missing
  accounts are passed over;
- a sync that starts while an exchange is still storing accounts passes over
  transactions of those it does not know, saves its cursor behind them, and
  they are never announced again, although another sync may be storing them at
  the moment (the exception of `CreatorAheadOfCursor`). `CursorCovers` counts
  them as handled. By `CompleteIsFinal` this ends with the exchange and the
  syncs that started before its end;
- two syncs of one user that overlap can leave a transaction pending that its
  bank has settled, without any failure: the slower one applies an old page
  after the faster one has applied the next, and the faster one's cursor is
  saved last. Hence the hypothesis of `FlagsKeepUp`;
- a shutdown neither waits for sockets nor closes them: their handlers are cut
  off before the closing message they defer; nor does it wait for a request
  read from a connection that it closes as idle at the same moment;
- a second signal during the shutdown, or one before the goroutine listens,
  ends the process at once;
- a login that overlaps a logout of the same session brings the session back;
- a page number far beyond the last wraps to the rows of an earlier page;
- a row can be on no page of a walk if it shares its date with others, or is
  pushed behind the last page between that page's count and its rows.

## Proofs

The theorems hold for all sets of users, items, accounts, transactions,
wallets, browsers, tokens, connections and request slots, any page size, any
int32 width and any bounds. Their assumptions are named and stand in the
modules: `LinkAssumption` and `BoundAssumption` (PlaidSync: the link tables are
functions, the bounds natural numbers), `FailureAssumption` (Wallets,
Categorization), `TokenAssumption` and `FaultAssumption` (Accounts: the empty
token is no token), `PoolAssumption` and `SignalAssumption` (Lifecycle), and
`DateAssumption`, `LimitAssumption` and `RowAssumption` (Pagination: dates are
ordered as integers, page sizes are positive, and there are fewer rows than an
int32 can count, as their keys are int32 serials). TLC evaluates them in every
run.

`PlaidSyncProofs` proves `TypeOK`, `CursorCovers`, `OwnerConsistent`,
`CreatorAheadOfCursor` and the action properties `BrokenIsFinal`,
`HalfImportIsFinal` and `CompleteIsFinal`. None is inductive alone, because a request acts on what it
read earlier. The inductive invariant `IInv` says what requests in flight hold:

- `PageInFeed`: what is left of a page lies inside the page, and the page
  inside the feed;
- `HoldsCovered`: every cursor a request holds is as good as a saved one, and
  whatever a page announced is stored, skipped or still to do. When nothing is
  left, the page's cursor is as good as a saved one, which gives `CursorCovers`;
- `HoldsOwned`, `AccountsLinked`: the items and accounts a request holds have
  rows and are its user's. Rows are never deleted, which gives
  `OwnerConsistent`;
- `DoneWith` and `Unpassed`: no other request has read past a transaction that
  this one has come past on its page and that nobody ever skipped, or else that
  transaction is still on its list, where it will be a duplicate. The first
  case gives `DoneAhead` (the saved cursor is before it too) when the other
  saves its cursor, and the second keeps it from saving.
  `CreatorAheadOfCursor` follows: what a request has stored from its page is of
  that kind unless another request has skipped it.

`BrokenIsFinal` follows from `HoldsOwned`: the exchanges under way for a linked
item are those that created it. That `PlaidSync` implements `Import` needs, with
the above, that what is left of a page's added list is what the feed has added
(`ImportInv`): a stored row was announced, and by `CursorCovers` what a saved
cursor acknowledges has been handled.

`HalfImportIsFinal` follows a request of any age through a page that holds the
stored transaction (`ActorNotPast`): it has the transaction on its list and its
account in its map, so that it neither passes over it nor stores it, and ends.
It needs `FeedInv`, which says that a feed is about its item's own transactions
and adds each once, before anything else, and `OwnerConsistent`: the account of
a stored transaction has a row, so every later sync of the item knows it.

`CompleteIsFinal` needs `FeedInv` as well: a request that knows all accounts of
its item meets no other in the item's feed (`SkipsNothing`), and whichever
request comes to the item later reads all of them (`ActorKnowsAll`).

`SyncSerialProofs` proves `CursorMonotone` and `PendingNotBehindCursor` under
`SyncsApart` (the syncs of one user do not overlap) and `SkippedOnlyIfBroken`
under `RequestsApart` (nor do one's syncs and exchanges). Any number of users
may have requests under way, and failures strike anywhere; the run `sync_serial`
is the instance with one user. The hypotheses are about clients: nothing in the
server keeps a user from posting twice, and without them all three are false.
What makes them enough is `HoldsOwned`: requests of two users never hold one
item, so that neither moves a cursor (`CursorsElsewhere`), a row
(`RowsElsewhere`) or an account list the other has read.

- `SerialInv`: what a request holds are the saved cursors.
- `SkipInv`: a request that imports an item knows all of the accounts the item
  has (`HoldsAccounts`), so that it passes over a transaction only if its
  account was never stored, and nobody is about to store it.
- `PendingInv`: a page is applied up to some position `k` between its cursor and
  its end, what is left of its modified list lies behind `k`, and every row of
  its item is that of the feed's first `k` updates or of later ones
  (`Progress`). A flag stays right until the next modification of its
  transaction (`StillAfter`), so that passing the others changes nothing, and a
  failure leaves rows that are at worst ahead of the cursor.

`WalletsProofs` proves `TypeOK`, `CreatorJoinsFirst`, `DesertedIsFinal` and that
`Wallets` implements `Membership`. Its `IInv` adds `HoldsStarted` (a request
about to insert holds a wallet with a row, and either nobody has joined it and
the request is its creator's, or the creator has) and `CreatorsApart` (one
request only inserts a wallet's first member). `DesertedIsFinal` rests on
`NobodySetsOut`: an insert starts either from a member's lookup or from a new
row, and it is its request's last statement. For `Membership` a lookup is the
order (`OrderTaken`) and the INSERT or DELETE carries it out; that the first
member is a founder and not somebody let in follows from `HoldsStarted`.

`CategorizationProofs` proves all four invariants of `Categorization`. Together
with `HoldsOwn` (a request about to insert has found the transaction its user's
own) they are inductive: a row's user never changes, so what was read a
statement ago still holds when the decision is stored. `NothingHidden` is kept
by each list taking note of what is stored for its user or withdrawn from its
wallet. That `Categorization` implements `Decisions` rests on the same invariant:
the INSERT is a step of the ledger because the row's owner is still the one that
was looked up and the unique key refuses a second row; every other statement
stutters.

`AccountsProofs` proves all four properties of `Accounts` but the liveness. Its
`IInv` traces every token a cookie or a request names to the browser it was
made for (`Traced`, `Good`), and says that who is about to be signed in owns the
account. A fresh token is named by nothing, so making one disturbs none of it;
`OnlySignInsRevive` follows because only a live session is loaded
(`NobodyLoadsIt`) and a commit is a sign-in's last statement
(`RevivedByCommit`). The steps of
`SignIn` come out of the same facts: a token made is one that nobody holds,
because what a cookie names has been made before; and a browser is handed its
own session, because `Traced` follows the answer's token to the request that
made it.

`PaginationProofs` proves all three properties of `Pagination`. `OffsetExact`:
within the counted pages the product is below the number of rows, so its int32
is exact, as it is for a later page whose product an int32 holds.
`ListOfAlone`: a row alone on its date is in a list exactly if its rank is
between offset and end. `Ahead`, the inductive part: a row of the start
that has not been seen has a rank behind all pages passed so far, because rows
are only pushed down.

`LifecycleProofs` proves `TypeOK` and `NotCutShort`: once the shutdown is over
without having run out of time, every connection is closed, hijacked or
forgotten and stays so (`Quiet`), no handler runs on a closed one (`Connected`),
and the process exits by itself only then.

`QueriesProofs` has the types of the tables the statements return. Proof
modules `EXTEND` their component; the leaves use Z3, Zenon and LS4.

Only model-checked: `CaughtUp`, `GetsIn` and `Ends` (liveness is out of the
prover's reach), and the four violations.

## Not modelled

- The balances table: no handler uses its queries.
- `CreateLinkToken`, the list of accounts, `GET /wallets`, `GetSharedTransactions`, the redirect
  of `UncategorizedTransactionsPage`, `HelloWorldHandler`: they change no state
  and decide nothing a property is about.
- Amounts, names, JSON columns and what pages look like. An amount that
  numeric(12,2) refuses is a statement that fails every time.
- Running the migrations, and the build.

## Plan

Done: every component that changes state, four abstract specifications and the
proofs that they are implemented. Left:

1. Composition: `Categorization` over `Membership`, with what becomes of the
   decisions of a member who leaves.
2. Overlapping syncs of one user and pending flags: what weaker promise than
   `PendingNotBehindCursor` holds for them.
