-------------------------- MODULE PlaidSyncProofs --------------------------
(***************************************************************************)
(* Theorems about PlaidSync for every set of users, items, accounts,       *)
(* transactions and request slots, every page size and every place where a *)
(* request may fail; and that PlaidSync implements Import.                 *)
(***************************************************************************)
EXTENDS PlaidSync, QueriesProofs

----------------------------------------------------------------------------
(* Shapes of a request.                                                    *)

\* The pc of a request tells which fields it has.
LEMMA StageOf ==
  ASSUME NEW q \in Request
  PROVE  /\ q.pc \in {"idle", "item", "accounts", "account",
                      "next", "fetch", "page"}
         /\ q.pc = "idle" => q = Idle
         /\ q.pc \in {"item", "accounts", "account"} => q \in ExchangeStage
         /\ q.pc = "account" => q.left \in SUBSET Accounts
         /\ q.pc = "next" => q \in ListStage
         /\ q.pc = "fetch" => q \in FetchStage
         /\ q.pc = "page" => q \in PageStage
  BY DEF Request, Idle, ExchangeStage, ListStage, FetchStage, PageStage

\* Plaid answers with positions between the two cursors it reports, and
\* the new cursor is at most the length of the feed.
LEMMA PageShape ==
  ASSUME NEW f \in Seq(Update), Len(f) \in Cursors, NEW c \in Cursors
  PROVE  /\ PageEnd(f, c) \in Cursors
         /\ PageEnd(f, c) <= Len(f)
         /\ SyncResult(f, c).next = PageEnd(f, c)
         /\ SyncResult(f, c).more \in BOOLEAN
         /\ SyncResult(f, c).added \in SUBSET Cursors
         /\ SyncResult(f, c).modified \in SUBSET Cursors
         /\ \A p \in (c + 1)..PageEnd(f, c) :
              f[p].kind = "added" => p \in SyncResult(f, c).added
  BY BoundAssumption DEF PageEnd, SyncResult, Positions, Cursors

\* Publishing lengthens one feed and changes nothing that stood in it.
LEMMA FeedGrows ==
  ASSUME TypeOK, Publish
  PROVE  /\ feed' \in [Items -> Seq(Update)]
         /\ \A i \in Items : Len(feed'[i]) \in Cursors
         /\ \A i \in Items : /\ Len(feed[i]) <= Len(feed'[i])
                             /\ \A p \in 1..Len(feed[i]) : feed'[i][p] = feed[i][p]
         /\ UNCHANGED <<tables, req, skipped, failures>>
  <1>1. PICK t \in Transactions, k \in {"added", "modified", "removed"},
             b \in BOOLEAN : Append1(t, k, b)
    BY DEF Publish, PublishAdded, PublishModified, PublishRemoved
  <1> DEFINE i == ItemOf(t)
             e == [kind |-> k, tx |-> t, pending |-> b]
  <1>2. i \in Items /\ e \in Update
    BY LinkAssumption DEF ItemOf, Update
  <1>3. feed' = [feed EXCEPT ![i] = Append(@, e)] /\ Len(feed[i]) < MaxUpdates
    BY <1>1 DEF Append1
  <1>4. feed[i] \in Seq(Update)
    BY <1>2 DEF TypeOK
  <1>5. /\ Append(feed[i], e) \in Seq(Update)
        /\ Len(Append(feed[i], e)) = Len(feed[i]) + 1
        /\ \A p \in 1..Len(feed[i]) : Append(feed[i], e)[p] = feed[i][p]
    BY <1>2, <1>4
  <1>6. Len(feed[i]) + 1 \in Cursors
    BY <1>2, <1>3, BoundAssumption DEF TypeOK, Cursors
  <1> HIDE DEF i, e
  <1>7. \A j \in Items : feed'[j] = IF j = i THEN Append(feed[i], e) ELSE feed[j]
    BY <1>3 DEF TypeOK
  <1>8. feed' \in [Items -> Seq(Update)]
    BY <1>2, <1>3, <1>5 DEF TypeOK
  <1>9. \A j \in Items : Len(feed'[j]) \in Cursors /\ Len(feed[j]) <= Len(feed'[j])
    <2> TAKE j \in Items
    <2>1. Len(feed[j]) \in Nat /\ Len(feed[j]) \in Cursors
      BY DEF TypeOK
    <2>2. CASE j = i
      <3>1. Len(feed'[j]) = Len(feed[j]) + 1
        BY <2>2, <1>5, <1>7
      <3> QED
        BY <3>1, <2>1, <2>2, <1>6
    <2>3. CASE j # i
      BY <2>1, <2>3, <1>7
    <2> QED
      BY <2>2, <2>3
  <1> QED
    BY <1>1, <1>4, <1>5, <1>7, <1>8, <1>9 DEF Append1

----------------------------------------------------------------------------
(* Type correctness.                                                       *)

\* A request that goes to a well-formed stage leaves all slots well formed,
\* and touches no other slot.
LEMMA GotoType ==
  ASSUME req \in [Requests -> Request],
         NEW r \in Requests, NEW s \in Request, Goto(r, s)
  PROVE  /\ req' \in [Requests -> Request]
         /\ req'[r] = s
         /\ \A o \in Requests : o # r => req'[o] = req[o]
  BY DEF Goto

\* What the steps of a request do to the types.
LEMMA ExchangeTypes ==
  ASSUME TypeOK, NEW r \in Requests,
         \/ \E u \in Users, i \in Items : ExchangePublicToken(r, u, i)
         \/ StorePlaidItem(r)
         \/ GetAccounts(r)
         \/ \E a \in Accounts : StoreAccount(r, a)
         \/ ExchangeDone(r)
  PROVE  TypeOK'
  <1>0. req[r] \in Request
    BY DEF TypeOK
  <1>1. ASSUME NEW u \in Users, NEW i \in Items, ExchangePublicToken(r, u, i)
        PROVE  TypeOK'
    <2>1. [pc |-> "item", user |-> u, item |-> i] \in Request
      BY DEF Request, ExchangeStage
    <2>2. req' \in [Requests -> Request]
      BY <1>1, <2>1, GotoType DEF ExchangePublicToken, TypeOK
    <2> QED
      BY <1>1, <2>2 DEF ExchangePublicToken, TypeOK, tables
  <1>2. ASSUME StorePlaidItem(r)
        PROVE  TypeOK'
    <2>1. req[r] \in ExchangeStage /\ req[r].pc = "item"
      BY <1>0, <1>2, StageOf DEF StorePlaidItem
    <2>2. [req[r] EXCEPT !.pc = "accounts"] \in Request /\ Idle \in Request
      BY <2>1 DEF Request, ExchangeStage
    <2>3. req' \in [Requests -> Request]
      BY <1>2, <2>2, GotoType DEF StorePlaidItem, TypeOK
    <2>4. req[r].item \in Items /\ req[r].user \in Users
      BY <2>1 DEF ExchangeStage
    <2>5. [user |-> req[r].user, cursor |-> 0] \in PlaidItem(Users, Cursors)
      BY <2>4, BoundAssumption DEF PlaidItem, Cursors
    <2>6. plaid_items' \in PartialFunctions(Items, PlaidItem(Users, Cursors))
      <3>1. plaid_items \in PartialFunctions(Items, PlaidItem(Users, Cursors))
        BY DEF TypeOK
      <3>2. CreatePlaidItem(plaid_items, req[r].item, req[r].user)
              \in PartialFunctions(Items, PlaidItem(Users, Cursors))
        BY <3>1, <2>4, <2>5, InsertRow DEF CreatePlaidItem
      <3> QED
        BY <1>2, <3>1, <3>2 DEF StorePlaidItem
    <2> QED
      BY <1>2, <2>3, <2>6 DEF StorePlaidItem, TypeOK
  <1>3. ASSUME GetAccounts(r)
        PROVE  TypeOK'
    <2>1. req[r] \in ExchangeStage
      BY <1>0, <1>3, StageOf DEF GetAccounts
    <2>2. [pc |-> "account", user |-> req[r].user, item |-> req[r].item,
           left |-> {a \in Accounts : AccountItem[a] = req[r].item}] \in Request
      BY <2>1 DEF Request, ExchangeStage
    <2>3. req' \in [Requests -> Request]
      BY <1>3, <2>2, GotoType DEF GetAccounts, TypeOK
    <2> QED
      BY <1>3, <2>3 DEF GetAccounts, TypeOK, tables
  <1>4. ASSUME NEW a \in Accounts, StoreAccount(r, a)
        PROVE  TypeOK'
    <2>1. req[r] \in ExchangeStage /\ req[r].pc = "account"
          /\ req[r].left \in SUBSET Accounts
      BY <1>0, <1>4, StageOf DEF StoreAccount
    <2>2. [req[r] EXCEPT !.left = @ \ {a}] \in Request /\ Idle \in Request
      BY <2>1 DEF Request, ExchangeStage
    <2>3. req' \in [Requests -> Request]
      BY <1>4, <2>2, GotoType DEF StoreAccount, TypeOK
    <2>4. plaid_accounts' \in SUBSET Accounts
      BY <1>4 DEF StoreAccount, CreatePlaidAccount, TypeOK
    <2> QED
      BY <1>4, <2>3, <2>4 DEF StoreAccount, TypeOK
  <1>5. ASSUME ExchangeDone(r)
        PROVE  TypeOK'
    <2>1. Idle \in Request
      BY DEF Request
    <2>2. req' \in [Requests -> Request]
      BY <1>5, <2>1, GotoType DEF ExchangeDone, TypeOK
    <2> QED
      BY <1>5, <2>2 DEF ExchangeDone, TypeOK, tables
  <1> QED
    BY <1>1, <1>2, <1>3, <1>4, <1>5


\* Without its chosen item a todo list is still one.
LEMMA TodoType ==
  ASSUME NEW todo \in PartialFunctions(Items, Cursors), NEW i \in Items
  PROVE  /\ [j \in DOMAIN todo \ {i} |-> todo[j]] \in PartialFunctions(Items, Cursors)
         /\ i \in DOMAIN todo => todo[i] \in Cursors
  <1>1. DOMAIN todo \subseteq Items /\ todo \in [DOMAIN todo -> Cursors]
    BY TableIsFunction
  <1> DEFINE rest == [j \in DOMAIN todo \ {i} |-> todo[j]]
  <1>2. DOMAIN rest \subseteq Items /\ rest \in [DOMAIN rest -> Cursors]
    BY <1>1
  <1> HIDE DEF rest
  <1>3. rest \in PartialFunctions(Items, Cursors)
    BY <1>2, TableIsFunction
  <1> QED
    BY <1>1, <1>3 DEF rest

\* The columns of an item's row.
LEMMA ItemRows ==
  ASSUME TypeOK
  PROVE  \A i \in DOMAIN plaid_items :
           /\ i \in Items
           /\ plaid_items[i].user \in Users
           /\ plaid_items[i].cursor \in Cursors
  <1>1. plaid_items \in PartialFunctions(Items, PlaidItem(Users, Cursors))
    BY DEF TypeOK
  <1>2. plaid_items \in [DOMAIN plaid_items -> PlaidItem(Users, Cursors)]
        /\ DOMAIN plaid_items \subseteq Items
    BY <1>1, TableIsFunction
  <1> QED
    BY <1>2 DEF PlaidItem

\* The rows of one user, with their cursors, are a todo list.
LEMMA ListType ==
  ASSUME TypeOK, NEW u \in Users
  PROVE  /\ GetPlaidItemsByUserID(plaid_items, u) \in PartialFunctions(Items, Cursors)
         /\ \A i \in DOMAIN GetPlaidItemsByUserID(plaid_items, u) :
              /\ i \in DOMAIN plaid_items
              /\ plaid_items[i].user = u
              /\ GetPlaidItemsByUserID(plaid_items, u)[i] = plaid_items[i].cursor
  <1> DEFINE todo == GetPlaidItemsByUserID(plaid_items, u)
             D == {j \in DOMAIN plaid_items : plaid_items[j].user = u}
  <1>1. plaid_items \in [DOMAIN plaid_items -> PlaidItem(Users, Cursors)]
        /\ DOMAIN plaid_items \subseteq Items
    BY TableIsFunction DEF TypeOK
  <1>2. todo = [i \in D |-> plaid_items[i].cursor]
    BY DEF GetPlaidItemsByUserID
  <1>3. \A i \in DOMAIN plaid_items : plaid_items[i].cursor \in Cursors
    BY <1>1 DEF PlaidItem
  <1>4. DOMAIN todo \subseteq Items /\ todo \in [DOMAIN todo -> Cursors]
    BY <1>1, <1>2, <1>3
  <1>5. todo \in PartialFunctions(Items, Cursors)
    BY <1>4, TableIsFunction
  <1> QED
    BY <1>2, <1>5

\* The fields of an update of a feed.
LEMMA UpdateType ==
  ASSUME TypeOK, NEW i \in Items, NEW p \in 1..Len(feed[i])
  PROVE  /\ feed[i][p] \in Update
         /\ feed[i][p].tx \in Transactions
         /\ feed[i][p].pending \in BOOLEAN
  <1>1. feed[i] \in Seq(Update)
    BY DEF TypeOK
  <1>2. feed[i][p] \in Update
    BY <1>1
  <1> QED
    BY <1>2 DEF Update

\* The update a page stage has come to is one of its item's feed.
LEMMA AtUpdate ==
  ASSUME TypeOK, NEW r \in Requests, PageInFeed(r), req[r].pc = "page",
         NEW p \in req[r].added \cup req[r].modified
  PROVE  /\ req[r] \in PageStage
         /\ p \in (req[r].cursor + 1)..req[r].next
         /\ p \in 1..Len(feed[req[r].item])
         /\ UpdateAt(r, p).tx \in Transactions
         /\ UpdateAt(r, p).pending \in BOOLEAN
  <1>1. req[r] \in PageStage
    BY StageOf DEF TypeOK
  <1>2. req[r].item \in Items /\ req[r].cursor \in Cursors /\ req[r].next \in Cursors
    BY <1>1 DEF PageStage
  <1>3. p \in (req[r].cursor + 1)..req[r].next
        /\ req[r].next <= Len(feed[req[r].item])
    BY DEF PageInFeed
  <1>4. Len(feed[req[r].item]) \in Nat
    BY <1>2, BoundAssumption DEF TypeOK, Cursors
  <1>5. p \in 1..Len(feed[req[r].item])
    BY <1>2, <1>3, <1>4, BoundAssumption DEF Cursors
  <1> QED
    BY <1>1, <1>2, <1>3, <1>5, UpdateType DEF UpdateAt

\* A page stage with part of its page done is still a page stage.
LEMMA PageRest ==
  ASSUME NEW q \in PageStage, NEW S
  PROVE  /\ [q EXCEPT !.added = @ \ S] \in PageStage
         /\ [q EXCEPT !.modified = @ \ S] \in PageStage
         /\ PageStage \subseteq Request
  BY DEF PageStage, Request

LEMMA SyncTypes ==
  ASSUME TypeOK, NEW r \in Requests, PageInFeed(r),
         \/ \E u \in Users : SyncTransactions(r, u)
         \/ \E i \in Items : BeginItem(r, i)
         \/ FetchPage(r)
         \/ \E p \in 1..MaxUpdates : \/ SkipAdded(r, p)
                                     \/ StoreAdded(r, p)
                                     \/ RejectAdded(r, p)
                                     \/ ApplyModified(r, p)
         \/ SaveCursor(r)
         \/ SyncDone(r)
  PROVE  TypeOK' /\ PageInFeed(r)'
  <1>0. req[r] \in Request /\ Idle \in Request
    BY DEF TypeOK, Request
  <1>1. ASSUME NEW u \in Users, SyncTransactions(r, u)
        PROVE  TypeOK' /\ PageInFeed(r)'
    <2> DEFINE s == [pc |-> "next", user |-> u,
                     todo |-> GetPlaidItemsByUserID(plaid_items, u)]
    <2>1. s \in Request /\ s.pc = "next"
      BY ListType DEF Request, ListStage
    <2>2. Goto(r, s)
      BY <1>1 DEF SyncTransactions
    <2> HIDE DEF s
    <2>3. req' \in [Requests -> Request] /\ req'[r] = s
      BY <2>1, <2>2, GotoType DEF TypeOK
    <2> QED
      BY <1>1, <2>1, <2>3 DEF SyncTransactions, TypeOK, tables, PageInFeed
  <1>2. ASSUME NEW i \in Items, BeginItem(r, i)
        PROVE  TypeOK' /\ PageInFeed(r)'
    <2> DEFINE s == [pc |-> "fetch", user |-> req[r].user,
                     todo |-> [j \in DOMAIN req[r].todo \ {i} |-> req[r].todo[j]],
                     item |-> i,
                     accounts |->
                       GetPlaidAccountsByItemID(plaid_accounts, AccountItem, i),
                     cursor |-> req[r].todo[i]]
    <2>1. req[r] \in ListStage /\ i \in DOMAIN req[r].todo
      BY <1>0, <1>2, StageOf DEF BeginItem
    <2>2. GetPlaidAccountsByItemID(plaid_accounts, AccountItem, i) \in SUBSET Accounts
      BY DEF GetPlaidAccountsByItemID, TypeOK
    <2>3. req[r].user \in Users /\ req[r].todo \in PartialFunctions(Items, Cursors)
      BY <2>1 DEF ListStage
    <2>4. s \in Request /\ s.pc = "fetch"
      BY <2>1, <2>2, <2>3, TodoType DEF Request, FetchStage
    <2>5. Goto(r, s)
      BY <1>2 DEF BeginItem
    <2> HIDE DEF s
    <2>6. req' \in [Requests -> Request] /\ req'[r] = s
      BY <2>4, <2>5, GotoType DEF TypeOK
    <2> QED
      BY <1>2, <2>4, <2>6 DEF BeginItem, TypeOK, tables, PageInFeed
  <1>3. ASSUME FetchPage(r)
        PROVE  TypeOK' /\ PageInFeed(r)'
    <2> DEFINE q == req[r]
               page == SyncResult(feed[q.item], q.cursor)
               s == [pc |-> "page", user |-> q.user, todo |-> q.todo,
                     item |-> q.item, accounts |-> q.accounts,
                     cursor |-> q.cursor,
                     added |-> page.added, modified |-> page.modified,
                     next |-> page.next, more |-> page.more]
    <2>1. q \in FetchStage
      BY <1>0, <1>3, StageOf DEF FetchPage
    <2>2. /\ q.user \in Users /\ q.item \in Items /\ q.cursor \in Cursors
          /\ q.todo \in PartialFunctions(Items, Cursors)
          /\ q.accounts \in SUBSET Accounts
      BY <2>1 DEF FetchStage
    <2>3. feed[q.item] \in Seq(Update) /\ Len(feed[q.item]) \in Cursors
      BY <2>2 DEF TypeOK
    <2>4. /\ page.added \in SUBSET Cursors /\ page.modified \in SUBSET Cursors
          /\ page.next \in Cursors /\ page.more \in BOOLEAN
          /\ page.next <= Len(feed[q.item])
      BY <2>2, <2>3, PageShape
    <2>5. page.added \cup page.modified \subseteq (q.cursor + 1)..page.next
      BY DEF SyncResult, Positions
    <2>6. Goto(r, s)
      BY <1>3 DEF FetchPage
    <2> HIDE DEF q, page
    <2>7. s \in Request
      BY <2>2, <2>4 DEF Request, PageStage
    <2>8. /\ s.item = q.item /\ s.next = page.next /\ s.cursor = q.cursor
          /\ s.added = page.added /\ s.modified = page.modified
      OBVIOUS
    <2> HIDE DEF s
    <2>9. req' \in [Requests -> Request] /\ req'[r] = s
      BY <2>6, <2>7, GotoType DEF TypeOK
    <2>10. TypeOK'
      BY <1>3, <2>9 DEF FetchPage, TypeOK, tables
    <2>11. feed' = feed
      BY <1>3 DEF FetchPage
    <2> QED
      BY <2>4, <2>5, <2>8, <2>9, <2>10, <2>11 DEF PageInFeed
  <1>4. ASSUME NEW p \in 1..MaxUpdates, SkipAdded(r, p)
        PROVE  TypeOK' /\ PageInFeed(r)'
    <2>1. req[r].pc = "page" /\ p \in req[r].added
      BY <1>4 DEF SkipAdded, AtAdded, First
    <2>2. req[r] \in PageStage /\ UpdateAt(r, p).tx \in Transactions
      BY <2>1, AtUpdate
    <2> DEFINE s == [req[r] EXCEPT !.added = @ \ {p}]
    <2>3. s \in Request
      BY <2>2, PageRest
    <2>4. Goto(r, s)
      BY <1>4 DEF SkipAdded
    <2>5. /\ s.item = req[r].item /\ s.next = req[r].next
          /\ s.cursor = req[r].cursor /\ s.modified = req[r].modified
          /\ s.added \subseteq req[r].added /\ s.pc = "page"
      BY <2>1, <2>2 DEF PageStage
    <2> HIDE DEF s
    <2>6. req' \in [Requests -> Request] /\ req'[r] = s
      BY <2>3, <2>4, GotoType DEF TypeOK
    <2>7. TypeOK'
      BY <1>4, <2>2, <2>6 DEF SkipAdded, TypeOK, tables
    <2>8. feed' = feed
      BY <1>4 DEF SkipAdded
    <2> QED
      BY <2>1, <2>5, <2>6, <2>7, <2>8 DEF PageInFeed
  <1>5. ASSUME NEW p \in 1..MaxUpdates, StoreAdded(r, p)
        PROVE  TypeOK' /\ PageInFeed(r)'
    <2>1. req[r].pc = "page" /\ p \in req[r].added
      BY <1>5 DEF StoreAdded, AtAdded, First
    <2>2. /\ req[r] \in PageStage
          /\ UpdateAt(r, p).tx \in Transactions
          /\ UpdateAt(r, p).pending \in BOOLEAN
      BY <2>1, AtUpdate
    <2> DEFINE s == [req[r] EXCEPT !.added = @ \ {p}]
    <2>3. s \in Request
      BY <2>2, PageRest
    <2>4. Goto(r, s)
      BY <1>5 DEF StoreAdded
    <2>5. /\ s.item = req[r].item /\ s.next = req[r].next
          /\ s.cursor = req[r].cursor /\ s.modified = req[r].modified
          /\ s.added \subseteq req[r].added /\ s.pc = "page"
      BY <2>1, <2>2 DEF PageStage
    <2> HIDE DEF s
    <2>6. req' \in [Requests -> Request] /\ req'[r] = s
      BY <2>3, <2>4, GotoType DEF TypeOK
    <2>7. transactions' \in PartialFunctions(Transactions, Transaction(Users))
      <3>1. req[r].user \in Users
        BY <2>2 DEF PageStage
      <3>2. transactions \in PartialFunctions(Transactions, Transaction(Users))
        BY DEF TypeOK
      <3> QED
        BY <1>5, <2>2, <3>1, <3>2, TransactionRow DEF StoreAdded
    <2>8. TypeOK'
      BY <1>5, <2>6, <2>7 DEF StoreAdded, TypeOK
    <2>9. feed' = feed
      BY <1>5 DEF StoreAdded
    <2> QED
      BY <2>1, <2>5, <2>6, <2>8, <2>9 DEF PageInFeed
  <1>6. ASSUME NEW p \in 1..MaxUpdates, RejectAdded(r, p)
        PROVE  TypeOK' /\ PageInFeed(r)'
    <2>1. Goto(r, Idle)
      BY <1>6 DEF RejectAdded, ErrNoRows, ToleratedError
    <2>2. req' \in [Requests -> Request] /\ req'[r] = Idle
      BY <1>0, <2>1, GotoType DEF TypeOK
    <2> QED
      BY <1>6, <2>2 DEF RejectAdded, TypeOK, tables, PageInFeed, Idle
  <1>7. ASSUME NEW p \in 1..MaxUpdates, ApplyModified(r, p)
        PROVE  TypeOK' /\ PageInFeed(r)'
    <2>1. req[r].pc = "page" /\ p \in req[r].modified
      BY <1>7 DEF ApplyModified, First
    <2>2. req[r] \in PageStage /\ UpdateAt(r, p).pending \in BOOLEAN
      BY <2>1, AtUpdate
    <2> DEFINE s == [req[r] EXCEPT !.modified = @ \ {p}]
    <2>3. s \in Request
      BY <2>2, PageRest
    <2>4. Goto(r, s)
      BY <1>7 DEF ApplyModified
    <2>5. /\ s.item = req[r].item /\ s.next = req[r].next
          /\ s.cursor = req[r].cursor /\ s.added = req[r].added
          /\ s.modified \subseteq req[r].modified /\ s.pc = "page"
      BY <2>1, <2>2 DEF PageStage
    <2> HIDE DEF s
    <2>6. req' \in [Requests -> Request] /\ req'[r] = s
      BY <2>3, <2>4, GotoType DEF TypeOK
    <2>7. transactions' \in PartialFunctions(Transactions, Transaction(Users))
      <3>1. transactions \in PartialFunctions(Transactions, Transaction(Users))
        BY DEF TypeOK
      <3> QED
        BY <1>7, <2>2, <3>1, PendingRow DEF ApplyModified
    <2>8. TypeOK'
      BY <1>7, <2>6, <2>7 DEF ApplyModified, TypeOK
    <2>9. feed' = feed
      BY <1>7 DEF ApplyModified
    <2> QED
      BY <2>1, <2>5, <2>6, <2>8, <2>9 DEF PageInFeed
  <1>8. ASSUME SaveCursor(r)
        PROVE  TypeOK' /\ PageInFeed(r)'
    <2>1. req[r] \in PageStage
      BY <1>0, <1>8, StageOf DEF SaveCursor, PageDone, NextCursor
    <2>2. /\ req[r].user \in Users /\ req[r].item \in Items
          /\ req[r].todo \in PartialFunctions(Items, Cursors)
          /\ req[r].accounts \in SUBSET Accounts /\ req[r].next \in Cursors
      BY <2>1 DEF PageStage
    <2> DEFINE s == IF req[r].more
         THEN [pc |-> "fetch", user |-> req[r].user, todo |-> req[r].todo,
               item |-> req[r].item, accounts |-> req[r].accounts,
               cursor |-> req[r].next]
         ELSE [pc |-> "next", user |-> req[r].user, todo |-> req[r].todo]
    <2>3. s \in Request /\ s.pc # "page"
      BY <2>2 DEF Request, FetchStage, ListStage
    <2>4. Goto(r, s)
      BY <1>8 DEF SaveCursor, PageDone, NextCursor
    <2> HIDE DEF s
    <2>5. req' \in [Requests -> Request] /\ req'[r] = s
      BY <2>3, <2>4, GotoType DEF TypeOK
    <2>6. plaid_items' \in PartialFunctions(Items, PlaidItem(Users, Cursors))
      <3>1. plaid_items \in PartialFunctions(Items, PlaidItem(Users, Cursors))
        BY DEF TypeOK
      <3> QED
        BY <1>8, <2>2, <3>1, CursorRow DEF SaveCursor, PageDone, NextCursor
    <2> QED
      BY <1>8, <2>3, <2>5, <2>6 DEF SaveCursor, PageDone, NextCursor, TypeOK, PageInFeed
  <1>9. ASSUME SyncDone(r)
        PROVE  TypeOK' /\ PageInFeed(r)'
    <2>1. req' \in [Requests -> Request] /\ req'[r] = Idle
      BY <1>0, <1>9, GotoType DEF SyncDone, TypeOK
    <2> QED
      BY <1>9, <2>1 DEF SyncDone, TypeOK, tables, PageInFeed, Idle
  <1> QED
    BY <1>1, <1>2, <1>3, <1>4, <1>5, <1>6, <1>7, <1>8, <1>9

\* A request that fails, or the death of the process, leaves idle slots.
LEMMA FailureIdles ==
  ASSUME req \in [Requests -> Request], (\E r \in Requests : Fail(r)) \/ Crash
  PROVE  /\ req' \in [Requests -> Request]
         /\ \A r \in Requests : req'[r] = req[r] \/ req'[r] = Idle
         /\ UNCHANGED <<feed, tables, skipped>>
  <1>1. Idle \in Request
    BY DEF Request
  <1>2. CASE \E r \in Requests : Fail(r)
    BY <1>1, <1>2, GotoType DEF Fail
  <1>3. CASE Crash
    BY <1>1, <1>3 DEF Crash
  <1> QED
    BY <1>2, <1>3

\* One action of one request touches no other slot.
LEMMA OneSlot ==
  ASSUME TypeOK, NEW r \in Requests,
         \/ \E u \in Users, i \in Items : ExchangePublicToken(r, u, i)
         \/ \E u \in Users : SyncTransactions(r, u)
         \/ Proceed(r)
  PROVE  \A o \in Requests : o # r => req'[o] = req[o]
  <1>1. \E s : Goto(r, s)
    BY DEF ExchangePublicToken, SyncTransactions, Proceed, StorePlaidItem,
           GetAccounts, StoreAccount, ExchangeDone, BeginItem, FetchPage,
           SkipAdded, StoreAdded, RejectAdded, ApplyModified, SaveCursor,
           SyncDone
  <1> QED
    BY <1>1 DEF Goto, TypeOK

TypeInv == TypeOK /\ \A r \in Requests : PageInFeed(r)

LEMMA TypeInit == Init => TypeInv
  <1> SUFFICES ASSUME Init PROVE TypeInv
    OBVIOUS
  <1>1. /\ plaid_items \in PartialFunctions(Items, PlaidItem(Users, Cursors))
        /\ transactions \in PartialFunctions(Transactions, Transaction(Users))
    BY EmptyTableType DEF Init
  <1>2. req \in [Requests -> Request] /\ \A r \in Requests : req[r].pc = "idle"
    BY DEF Init, Request, Idle
  <1>3. feed \in [Items -> Seq(Update)] /\ \A i \in Items : Len(feed[i]) \in Cursors
    BY BoundAssumption DEF Init, Cursors
  <1>4. failures \in 0..MaxFailures
    BY BoundAssumption DEF Init
  <1> QED
    BY <1>1, <1>2, <1>3, <1>4 DEF Init, TypeInv, TypeOK, PageInFeed

LEMMA TypeStep == TypeInv /\ [Next]_vars => TypeInv'
  <1> SUFFICES ASSUME TypeInv, [Next]_vars PROVE TypeInv'
    OBVIOUS
  <1>0. TypeOK /\ \A r \in Requests : PageInFeed(r)
    BY DEF TypeInv
  <1>1. CASE Publish
    <2>1. /\ feed' \in [Items -> Seq(Update)]
          /\ \A i \in Items : Len(feed'[i]) \in Cursors
          /\ \A i \in Items : Len(feed[i]) <= Len(feed'[i])
          /\ UNCHANGED <<tables, req, skipped, failures>>
      BY <1>0, <1>1, FeedGrows
    <2>2. TypeOK'
      BY <1>0, <2>1 DEF TypeOK, tables
    <2>3. ASSUME NEW r \in Requests, req[r].pc = "page"
          PROVE  req[r].next <= Len(feed'[req[r].item])
      <3>1. req[r] \in PageStage
        BY <1>0, <2>3, StageOf DEF TypeOK
      <3>2. req[r].item \in Items /\ req[r].next \in Cursors
        BY <3>1 DEF PageStage
      <3>3. Len(feed[req[r].item]) \in Nat /\ Len(feed'[req[r].item]) \in Nat
        BY <3>2, <1>0, <2>1, BoundAssumption DEF TypeOK, Cursors
      <3>4. req[r].next <= Len(feed[req[r].item])
        BY <1>0, <2>3 DEF PageInFeed
      <3> QED
        BY <2>1, <3>2, <3>3, <3>4, BoundAssumption DEF Cursors
    <2> QED
      BY <1>0, <2>1, <2>2, <2>3 DEF TypeInv, PageInFeed
  <1>2. ASSUME NEW r \in Requests,
               \/ \E u \in Users, i \in Items : ExchangePublicToken(r, u, i)
               \/ StorePlaidItem(r)
               \/ GetAccounts(r)
               \/ \E a \in Accounts : StoreAccount(r, a)
               \/ ExchangeDone(r)
        PROVE  TypeInv'
    <2>1. TypeOK'
      BY <1>0, <1>2, ExchangeTypes
    <2>2. req'[r].pc # "page"
      BY <1>0, <1>2, StageOf
         DEF ExchangePublicToken, StorePlaidItem, GetAccounts, StoreAccount,
             ExchangeDone, Goto, Idle, TypeOK, ExchangeStage
    <2>3. \A o \in Requests : o # r => req'[o] = req[o]
      BY <1>0, <1>2, OneSlot DEF Proceed
    <2>4. feed' = feed
      BY <1>2 DEF ExchangePublicToken, StorePlaidItem, GetAccounts,
                  StoreAccount, ExchangeDone
    <2> QED
      BY <1>0, <2>1, <2>2, <2>3, <2>4 DEF TypeInv, PageInFeed
  <1>3. ASSUME NEW r \in Requests,
               \/ \E u \in Users : SyncTransactions(r, u)
               \/ \E i \in Items : BeginItem(r, i)
               \/ FetchPage(r)
               \/ \E p \in 1..MaxUpdates : \/ SkipAdded(r, p)
                                           \/ StoreAdded(r, p)
                                           \/ RejectAdded(r, p)
                                           \/ ApplyModified(r, p)
               \/ SaveCursor(r)
               \/ SyncDone(r)
        PROVE  TypeInv'
    <2>1. TypeOK' /\ PageInFeed(r)'
      BY <1>0, <1>3, SyncTypes
    <2>2. \A o \in Requests : o # r => req'[o] = req[o]
      BY <1>0, <1>3, OneSlot DEF Proceed
    <2>3. feed' = feed
      BY <1>3 DEF SyncTransactions, BeginItem, FetchPage, SkipAdded, StoreAdded,
                  RejectAdded, ApplyModified, SaveCursor, SyncDone
    <2> QED
      BY <1>0, <2>1, <2>2, <2>3 DEF TypeInv, PageInFeed
  <1>4. CASE (\E r \in Requests : Fail(r)) \/ Crash
    <2>1. /\ req' \in [Requests -> Request]
          /\ \A r \in Requests : req'[r] = req[r] \/ req'[r] = Idle
          /\ UNCHANGED <<feed, tables, skipped>>
      BY <1>0, <1>4, FailureIdles DEF TypeOK
    <2>2. failures' \in 0..MaxFailures
      BY <1>0, <1>4, BoundAssumption DEF TypeOK, Fail, Crash
    <2> QED
      BY <1>0, <2>1, <2>2 DEF TypeInv, TypeOK, PageInFeed, tables, Idle
  <1>5. CASE UNCHANGED vars
    BY <1>0, <1>5 DEF TypeInv, TypeOK, PageInFeed, vars
  <1> QED
    BY <1>1, <1>2, <1>3, <1>4, <1>5 DEF Next, Proceed

\* Every table keeps its shape and its unique keys in every behaviour.
THEOREM TypeCorrect == Spec => []TypeOK
  <1>1. TypeInv => TypeOK
    BY DEF TypeInv
  <1> QED
    BY <1>1, TypeInit, TypeStep, PTL DEF Spec

----------------------------------------------------------------------------
(* Nothing is forgotten.                                                   *)

\* No step takes back an update, a row of any table, an item's owner or a
\* skip.
LEMMA NothingForgotten ==
  ASSUME TypeInv, [Next]_vars
  PROVE  /\ \A i \in Items :
              /\ Len(feed[i]) <= Len(feed'[i])
              /\ \A p \in 1..Len(feed[i]) : feed'[i][p] = feed[i][p]
         /\ DOMAIN transactions \subseteq DOMAIN transactions'
         /\ skipped \subseteq skipped'
         /\ plaid_accounts \subseteq plaid_accounts'
         /\ DOMAIN plaid_items \subseteq DOMAIN plaid_items'
         /\ \A i \in DOMAIN plaid_items : plaid_items'[i].user = plaid_items[i].user
  <1>0. TypeOK /\ \A r \in Requests : PageInFeed(r)
    BY DEF TypeInv
  <1>1. /\ plaid_items \in PartialFunctions(Items, PlaidItem(Users, Cursors))
        /\ transactions \in PartialFunctions(Transactions, Transaction(Users))
        /\ \A i \in Items : Len(feed[i]) \in Nat
    BY <1>0 DEF TypeOK
  <1>2. CASE Publish
    BY <1>0, <1>1, <1>2, FeedGrows DEF tables
  <1>3. ASSUME NEW r \in Requests, StorePlaidItem(r)
        PROVE  /\ feed' = feed /\ UNCHANGED <<plaid_accounts, transactions, skipped>>
               /\ DOMAIN plaid_items \subseteq DOMAIN plaid_items'
               /\ \A i \in DOMAIN plaid_items : plaid_items'[i] = plaid_items[i]
    BY <1>3 DEF StorePlaidItem, ItemTaken, CreatePlaidItem, Insert
  <1>4. ASSUME NEW r \in Requests, NEW a \in Accounts, StoreAccount(r, a)
        PROVE  /\ UNCHANGED <<feed, plaid_items, transactions, skipped>>
               /\ plaid_accounts \subseteq plaid_accounts'
    BY <1>4 DEF StoreAccount, CreatePlaidAccount
  <1>5. ASSUME NEW r \in Requests, NEW p \in 1..MaxUpdates,
               SkipAdded(r, p) \/ RejectAdded(r, p)
        PROVE  UNCHANGED <<feed, tables>> /\ skipped \subseteq skipped'
    BY <1>5 DEF SkipAdded, RejectAdded
  <1>6. ASSUME NEW r \in Requests, NEW p \in 1..MaxUpdates,
               StoreAdded(r, p) \/ ApplyModified(r, p)
        PROVE  /\ UNCHANGED <<feed, plaid_items, plaid_accounts, skipped>>
               /\ DOMAIN transactions \subseteq DOMAIN transactions'
    BY <1>6 DEF StoreAdded, ApplyModified, CreateTransaction, Insert,
                UpdateTransactionPendingStatus
  <1>7. ASSUME NEW r \in Requests, SaveCursor(r)
        PROVE  /\ UNCHANGED <<feed, plaid_accounts, transactions, skipped>>
               /\ DOMAIN plaid_items \subseteq DOMAIN plaid_items'
               /\ \A i \in DOMAIN plaid_items :
                    plaid_items'[i].user = plaid_items[i].user
    <2>1. req[r] \in PageStage
      BY <1>0, <1>7, StageOf DEF SaveCursor, PageDone, NextCursor, TypeOK
    <2>2. req[r].next \in Cursors
      BY <2>1 DEF PageStage
    <2> QED
      BY <1>1, <1>7, <2>2, CursorRow DEF SaveCursor, PageDone, NextCursor
  <1>8. ASSUME NEW r \in Requests,
               \/ \E u \in Users, i \in Items : ExchangePublicToken(r, u, i)
               \/ GetAccounts(r)
               \/ ExchangeDone(r)
               \/ \E u \in Users : SyncTransactions(r, u)
               \/ \E i \in Items : BeginItem(r, i)
               \/ FetchPage(r)
               \/ SyncDone(r)
        PROVE  UNCHANGED <<feed, tables, skipped>>
    BY <1>8 DEF ExchangePublicToken, GetAccounts, ExchangeDone,
                SyncTransactions, BeginItem, FetchPage, SyncDone
  <1>9. CASE (\E r \in Requests : Fail(r)) \/ Crash \/ UNCHANGED vars
    BY <1>9 DEF Fail, Crash, vars, tables
  <1> QED
    <2>1. CASE \E r \in Requests : StorePlaidItem(r) \/ SaveCursor(r)
      BY <1>1, <1>3, <1>7, <2>1
    <2>2. CASE \E r \in Requests, a \in Accounts : StoreAccount(r, a)
      BY <1>1, <1>4, <2>2
    <2>3. CASE \E r \in Requests, p \in 1..MaxUpdates :
                 \/ SkipAdded(r, p) \/ RejectAdded(r, p)
                 \/ StoreAdded(r, p) \/ ApplyModified(r, p)
      BY <1>1, <1>5, <1>6, <2>3 DEF tables
    <2>4. CASE UNCHANGED <<feed, tables, skipped>>
      BY <1>1, <2>4 DEF tables
    <2> QED
      BY <1>2, <1>8, <1>9, <2>1, <2>2, <2>3, <2>4 DEF Next, Proceed

\* So what is handled stays handled, and a covered cursor stays covered.
LEMMA CoveredStays ==
  ASSUME TypeInv, [Next]_vars
  PROVE  /\ \A t : Handled(t) => Handled(t)'
         /\ \A i \in Items, c \in Cursors : Covered(i, c) => Covered(i, c)'
         /\ \A r \in Requests :
              HoldsCovered(r) /\ req'[r] = req[r] => HoldsCovered(r)'
  <1>0. TypeOK /\ TypeOK' /\ \A r \in Requests : PageInFeed(r)
    BY TypeStep DEF TypeInv
  <1>1. \A t : Handled(t) => Handled(t)'
    BY NothingForgotten DEF Handled
  <1>2. ASSUME NEW i \in Items, NEW c \in Cursors, Covered(i, c)
        PROVE  Covered(i, c)'
    <2>1. /\ Len(feed[i]) \in Nat /\ Len(feed'[i]) \in Nat
          /\ c \in Nat /\ c <= Len(feed[i])
      BY <1>0, <1>2 DEF TypeOK, Covered, Cursors
    <2>2. c <= Len(feed'[i])
      BY <2>1, NothingForgotten
    <2>3. \A p \in 1..c : feed'[i][p] = feed[i][p]
      BY <2>1, NothingForgotten
    <2> QED
      BY <1>1, <1>2, <2>2, <2>3 DEF Covered
  <1>3. ASSUME NEW r \in Requests, HoldsCovered(r), req'[r] = req[r]
        PROVE  HoldsCovered(r)'
    <2>0. req[r] \in Request
      BY <1>0 DEF TypeOK
    <2>1. ASSUME Listing(r), NEW i \in DOMAIN req[r].todo
          PROVE  Covered(i, req[r].todo[i])'
      <3>1. req[r].todo \in PartialFunctions(Items, Cursors)
        BY <2>0, <2>1, StageOf DEF Listing, ListStage, FetchStage, PageStage
      <3>2. i \in Items /\ req[r].todo[i] \in Cursors
        BY <2>1, <3>1, TableIsFunction
      <3> QED
        BY <1>2, <1>3, <2>1, <3>2 DEF HoldsCovered
    <2>2. ASSUME Importing(r)
          PROVE  Covered(req[r].item, req[r].cursor)'
      <3>1. req[r].item \in Items /\ req[r].cursor \in Cursors
        BY <2>0, <2>2, StageOf DEF Importing, FetchStage, PageStage
      <3> QED
        BY <1>2, <1>3, <2>2, <3>1 DEF HoldsCovered
    <2>3. ASSUME req[r].pc = "page", NEW p \in (req[r].cursor + 1)..req[r].next,
                 UpdateAt(r, p)'.kind = "added"
          PROVE  p \in req[r].added \/ Handled(UpdateAt(r, p).tx)'
      <3>1. req[r] \in PageStage
        BY <2>0, <2>3, StageOf
      <3>2. /\ req[r].item \in Items
            /\ req[r].cursor \in Nat /\ req[r].next \in Nat
        BY <3>1 DEF PageStage, Cursors
      <3>3. req[r].next <= Len(feed[req[r].item]) /\ Len(feed[req[r].item]) \in Nat
        BY <1>0, <2>3, <3>2 DEF PageInFeed, TypeOK
      <3>4. p \in 1..Len(feed[req[r].item])
        BY <3>2, <3>3
      <3>5. UpdateAt(r, p)' = UpdateAt(r, p)
        BY <1>3, <3>2, <3>4, NothingForgotten DEF UpdateAt
      <3> QED
        BY <1>1, <1>3, <2>3, <3>5 DEF HoldsCovered
    <2> QED
      BY <1>3, <2>1, <2>2, <2>3 DEF HoldsCovered, Listing, Importing
  <1> QED
    BY <1>1, <1>2, <1>3

----------------------------------------------------------------------------
(* The saved cursor never stands past a lost transaction.                  *)

CoverInv ==
  /\ TypeInv
  /\ CursorCovers
  /\ \A r \in Requests : HoldsCovered(r)

LEMMA CoverInit == Init => CoverInv
  <1> SUFFICES ASSUME Init PROVE CoverInv
    OBVIOUS
  <1>1. \A r \in Requests : req[r].pc = "idle"
    BY DEF Init, Idle
  <1>2. DOMAIN plaid_items = {}
    BY EmptyTableType DEF Init
  <1> QED
    BY <1>1, <1>2, TypeInit
       DEF CoverInv, CursorCovers, HoldsCovered, Listing, Importing

\* Once nothing is left of a page's added list, its last cursor is covered.
LEMMA PageDoneCovered ==
  ASSUME TypeInv, NEW r \in Requests, HoldsCovered(r), SaveCursor(r)
  PROVE  Covered(req[r].item, req[r].next)
  <1>1. /\ req[r].pc = "page" /\ req[r] \in PageStage /\ req[r].added = {}
        /\ PageInFeed(r)
    BY StageOf DEF SaveCursor, PageDone, NextCursor, TypeInv, TypeOK
  <1>2. req[r].cursor \in Cursors /\ req[r].next \in Cursors
    BY <1>1 DEF PageStage
  <1>3. Covered(req[r].item, req[r].cursor)
    BY <1>1 DEF HoldsCovered, Importing
  <1>4. \A e \in (req[r].cursor + 1)..req[r].next :
          feed[req[r].item][e].kind = "added" => Handled(feed[req[r].item][e].tx)
    BY <1>1 DEF HoldsCovered, UpdateAt
  <1>5. req[r].next <= Len(feed[req[r].item])
    BY <1>1 DEF PageInFeed
  <1>6. \A e \in 1..req[r].next :
          e \in 1..req[r].cursor \/ e \in (req[r].cursor + 1)..req[r].next
    BY <1>2 DEF Cursors
  <1> QED
    BY <1>3, <1>4, <1>5, <1>6 DEF Covered

\* The acting request: every stage it can come to holds covered cursors.
LEMMA ActorCovered ==
  ASSUME CoverInv, Next, NEW r \in Requests, TypeInv',
         \/ \E u \in Users : SyncTransactions(r, u)
         \/ \E i \in Items : BeginItem(r, i)
         \/ FetchPage(r)
         \/ \E p \in 1..MaxUpdates : \/ SkipAdded(r, p)
                                     \/ StoreAdded(r, p)
                                     \/ RejectAdded(r, p)
                                     \/ ApplyModified(r, p)
         \/ SaveCursor(r)
  PROVE  HoldsCovered(r)'
  <1>0. /\ TypeInv /\ TypeOK /\ req[r] \in Request
        /\ PageInFeed(r) /\ HoldsCovered(r)
    BY DEF CoverInv, TypeInv, TypeOK
  <1>1. /\ \A t : Handled(t) => Handled(t)'
        /\ \A i \in Items, c \in Cursors : Covered(i, c) => Covered(i, c)'
    BY <1>0, CoveredStays
  <1>2. ASSUME NEW u \in Users, SyncTransactions(r, u)
        PROVE  HoldsCovered(r)'
    <2> DEFINE todo == GetPlaidItemsByUserID(plaid_items, u)
    <2>1. req'[r] = [pc |-> "next", user |-> u, todo |-> todo]
      BY <1>0, <1>2 DEF SyncTransactions, Goto, TypeOK
    <2>2. /\ todo \in PartialFunctions(Items, Cursors)
          /\ \A i \in DOMAIN todo : /\ i \in DOMAIN plaid_items
                                    /\ todo[i] = plaid_items[i].cursor
      BY <1>0, ListType
    <2>3. \A i \in DOMAIN todo : i \in Items /\ todo[i] \in Cursors
      BY <2>2, TableIsFunction
    <2>4. \A i, c : i \in DOMAIN todo /\ c = todo[i] => Covered(i, c)'
      BY <1>1, <2>2, <2>3 DEF CoverInv, CursorCovers
    <2> HIDE DEF todo
    <2> QED
      BY <2>1, <2>4 DEF HoldsCovered, Listing, Importing
  <1>3. ASSUME NEW i \in Items, BeginItem(r, i)
        PROVE  HoldsCovered(r)'
    <2>1. /\ req'[r].pc = "fetch" /\ req'[r].item = i
          /\ req'[r].cursor = req[r].todo[i]
          /\ req'[r].todo = [j \in DOMAIN req[r].todo \ {i} |-> req[r].todo[j]]
      BY <1>0, <1>3 DEF BeginItem, Goto, TypeOK
    <2>2. req[r] \in ListStage /\ req[r].pc = "next" /\ i \in DOMAIN req[r].todo
      BY <1>0, <1>3, StageOf DEF BeginItem
    <2>3. req[r].todo \in PartialFunctions(Items, Cursors)
      BY <2>2 DEF ListStage
    <2>4. \A j \in DOMAIN req[r].todo : j \in Items /\ req[r].todo[j] \in Cursors
      BY <2>3, TableIsFunction
    <2>5. \A j, c : j \in DOMAIN req[r].todo /\ c = req[r].todo[j] => Covered(j, c)'
      BY <1>0, <1>1, <2>2, <2>4 DEF HoldsCovered, Listing
    <2> QED
      BY <2>1, <2>2, <2>5 DEF HoldsCovered, Listing, Importing
  <1>4. ASSUME FetchPage(r)
        PROVE  HoldsCovered(r)'
    <2> DEFINE q == req[r]
               page == SyncResult(feed[q.item], q.cursor)
    <2>1. /\ req'[r].pc = "page" /\ req'[r].item = q.item
          /\ req'[r].cursor = q.cursor /\ req'[r].todo = q.todo
          /\ req'[r].added = page.added /\ req'[r].next = page.next
      BY <1>0, <1>4 DEF FetchPage, Goto, TypeOK
    <2>2. q \in FetchStage /\ q.pc = "fetch"
      BY <1>0, <1>4, StageOf DEF FetchPage
    <2>3. /\ q.item \in Items /\ q.cursor \in Cursors
          /\ q.todo \in PartialFunctions(Items, Cursors)
      BY <2>2 DEF FetchStage
    <2>4. \A j \in DOMAIN q.todo : j \in Items /\ q.todo[j] \in Cursors
      BY <2>3, TableIsFunction
    <2>5. \A j, c : j \in DOMAIN q.todo /\ c = q.todo[j] => Covered(j, c)'
      BY <1>0, <1>1, <2>2, <2>4 DEF HoldsCovered, Listing
    <2>6. \A i, c : i = q.item /\ c = q.cursor => Covered(i, c)'
      BY <1>0, <1>1, <2>2, <2>3 DEF HoldsCovered, Importing
    <2>7. feed[q.item] \in Seq(Update) /\ Len(feed[q.item]) \in Cursors
      BY <1>0, <2>3 DEF TypeOK
    <2>8. \A p \in (q.cursor + 1)..page.next :
            feed[q.item][p].kind = "added" => p \in page.added
      BY <2>3, <2>7, PageShape
    <2>9. feed' = feed
      BY <1>4 DEF FetchPage
    <2> HIDE DEF q, page
    <2> QED
      BY <2>1, <2>5, <2>6, <2>8, <2>9 DEF HoldsCovered, Listing, Importing, UpdateAt
  <1>5. ASSUME NEW p \in 1..MaxUpdates,
               SkipAdded(r, p) \/ StoreAdded(r, p) \/ ApplyModified(r, p)
        PROVE  HoldsCovered(r)'
    <2>1. req[r].pc = "page" /\ req[r] \in PageStage /\ feed' = feed
      BY <1>0, <1>5, StageOf DEF SkipAdded, StoreAdded, ApplyModified, AtAdded
    <2>2. /\ req[r].item \in Items /\ req[r].cursor \in Cursors
          /\ req[r].todo \in PartialFunctions(Items, Cursors)
      BY <2>1 DEF PageStage
    <2>3. \A j \in DOMAIN req[r].todo : j \in Items /\ req[r].todo[j] \in Cursors
      BY <2>2, TableIsFunction
    <2>4. \A j, c : j \in DOMAIN req[r].todo /\ c = req[r].todo[j] => Covered(j, c)'
      BY <1>0, <1>1, <2>1, <2>3 DEF HoldsCovered, Listing
    <2>5. \A i, c : i = req[r].item /\ c = req[r].cursor => Covered(i, c)'
      BY <1>0, <1>1, <2>1, <2>2 DEF HoldsCovered, Importing
    <2>6. /\ req'[r].pc = "page" /\ req'[r].item = req[r].item
          /\ req'[r].cursor = req[r].cursor /\ req'[r].todo = req[r].todo
          /\ req'[r].next = req[r].next
      BY <1>0, <1>5, <2>1
         DEF SkipAdded, StoreAdded, ApplyModified, Goto, TypeOK, PageStage
    <2>7. \A e \in (req[r].cursor + 1)..req[r].next :
            /\ UpdateAt(r, e)' = UpdateAt(r, e)
            /\ UpdateAt(r, e).kind = "added" =>
                 e \in req[r].added \/ Handled(UpdateAt(r, e).tx)'
      BY <1>0, <1>1, <2>1, <2>6 DEF HoldsCovered, UpdateAt
    <2>8. \A e \in req[r].added :
            e \in req'[r].added \/ Handled(UpdateAt(r, e).tx)'
      <3>1. CASE ApplyModified(r, p)
        BY <1>0, <2>1, <3>1 DEF ApplyModified, Goto, TypeOK, PageStage
      <3>2. CASE SkipAdded(r, p) \/ StoreAdded(r, p)
        <4>1. req'[r].added = req[r].added \ {p}
          BY <1>0, <2>1, <3>2 DEF SkipAdded, StoreAdded, Goto, TypeOK, PageStage
        <4>2. \A t : t = UpdateAt(r, p).tx => Handled(t)'
          BY <3>2 DEF SkipAdded, StoreAdded, CreateTransaction, Insert, Handled
        <4>3. UpdateAt(r, p)' = UpdateAt(r, p)
          BY <2>1, <2>6 DEF UpdateAt
        <4> QED
          BY <4>1, <4>2, <4>3
      <3> QED
        BY <1>5, <3>1, <3>2
    <2> QED
      BY <2>4, <2>5, <2>6, <2>7, <2>8 DEF HoldsCovered, Listing, Importing
  <1>6. ASSUME NEW p \in 1..MaxUpdates, RejectAdded(r, p)
        PROVE  HoldsCovered(r)'
    <2>1. req'[r] = Idle
      BY <1>0, <1>6 DEF RejectAdded, ErrNoRows, ToleratedError, Goto, TypeOK
    <2> QED
      BY <2>1 DEF HoldsCovered, Listing, Importing, Idle
  <1>7. ASSUME SaveCursor(r)
        PROVE  HoldsCovered(r)'
    <2>1. req[r].pc = "page" /\ req[r] \in PageStage
          /\ req[r].added = {} /\ feed' = feed
      BY <1>0, <1>7, StageOf DEF SaveCursor, PageDone, NextCursor
    <2>2. /\ req[r].item \in Items /\ req[r].cursor \in Cursors
          /\ req[r].next \in Cursors
          /\ req[r].todo \in PartialFunctions(Items, Cursors)
      BY <2>1 DEF PageStage
    <2>3. \A j \in DOMAIN req[r].todo : j \in Items /\ req[r].todo[j] \in Cursors
      BY <2>2, TableIsFunction
    <2>4. \A j, c : j \in DOMAIN req[r].todo /\ c = req[r].todo[j] => Covered(j, c)'
      BY <1>0, <1>1, <2>1, <2>3 DEF HoldsCovered, Listing
    <2>5. Covered(req[r].item, req[r].next)
      BY <1>0, <1>7, PageDoneCovered
    <2>6. \A i, c : i = req[r].item /\ c = req[r].next => Covered(i, c)'
      BY <1>1, <2>2, <2>5
    <2>7. /\ req'[r].pc \in {"fetch", "next"} /\ req'[r].todo = req[r].todo
          /\ req'[r].pc = "fetch" => /\ req'[r].item = req[r].item
                                     /\ req'[r].cursor = req[r].next
      BY <1>0, <1>7 DEF SaveCursor, PageDone, NextCursor, Goto, TypeOK
    <2> QED
      BY <2>4, <2>6, <2>7 DEF HoldsCovered, Listing, Importing
  <1> QED
    BY <1>2, <1>3, <1>4, <1>5, <1>6, <1>7

LEMMA CoverStep == CoverInv /\ [Next]_vars => CoverInv'
  <1> SUFFICES ASSUME CoverInv, [Next]_vars PROVE CoverInv'
    OBVIOUS
  <1>0. /\ TypeInv /\ TypeInv' /\ TypeOK /\ CursorCovers
        /\ \A r \in Requests : HoldsCovered(r) /\ PageInFeed(r)
    BY TypeStep DEF CoverInv, TypeInv
  <1>1. /\ \A i \in Items, c \in Cursors : Covered(i, c) => Covered(i, c)'
        /\ \A r \in Requests :
             HoldsCovered(r) /\ req'[r] = req[r] => HoldsCovered(r)'
    BY <1>0, CoveredStays
  <1>2. /\ plaid_items \in PartialFunctions(Items, PlaidItem(Users, Cursors))
        /\ \A i \in DOMAIN plaid_items : i \in Items /\ plaid_items[i].cursor \in Cursors
    BY <1>0, ItemRows DEF TypeOK
  <1>3. ASSUME \A r \in Requests : req'[r] = req[r] \/ req'[r] = Idle
        PROVE  \A r \in Requests : HoldsCovered(r)'
    BY <1>0, <1>1, <1>3 DEF HoldsCovered, Listing, Importing, Idle
  <1>4. ASSUME UNCHANGED plaid_items
        PROVE  CursorCovers'
    <2>1. \A i, c : i \in DOMAIN plaid_items /\ c = plaid_items[i].cursor
            => Covered(i, c)'
      BY <1>0, <1>1, <1>2 DEF CursorCovers
    <2> QED
      BY <1>4, <2>1 DEF CursorCovers
  <1>5. CASE Publish \/ (\E r \in Requests : Fail(r)) \/ Crash \/ UNCHANGED vars
    <2>1. CASE Publish
      <3>1. UNCHANGED <<tables, req>>
        BY <1>0, <2>1, FeedGrows
      <3> QED
        BY <1>0, <1>3, <1>4, <3>1 DEF CoverInv, tables
    <2>2. CASE (\E r \in Requests : Fail(r)) \/ Crash
      <3>1. /\ \A r \in Requests : req'[r] = req[r] \/ req'[r] = Idle
            /\ UNCHANGED tables
        BY <1>0, <2>2, FailureIdles DEF TypeOK
      <3> QED
        BY <1>0, <1>3, <1>4, <3>1 DEF CoverInv, tables
    <2>3. CASE UNCHANGED vars
      BY <1>0, <1>3, <1>4, <2>3 DEF CoverInv, vars
    <2> QED
      BY <1>5, <2>1, <2>2, <2>3
  <1>6. ASSUME NEW r \in Requests, Next,
               \/ \E u \in Users, i \in Items : ExchangePublicToken(r, u, i)
               \/ StorePlaidItem(r)
               \/ GetAccounts(r)
               \/ \E a \in Accounts : StoreAccount(r, a)
               \/ ExchangeDone(r)
               \/ SyncDone(r)
        PROVE  CoverInv'
    <2>1. \A o \in Requests : o # r => req'[o] = req[o]
      BY <1>0, <1>6, OneSlot DEF Proceed
    <2>2. req'[r].pc \in {"idle", "item", "accounts", "account"}
      BY <1>0, <1>6, StageOf
         DEF ExchangePublicToken, StorePlaidItem, GetAccounts, StoreAccount,
             ExchangeDone, SyncDone, Goto, Idle, TypeOK, ExchangeStage
    <2>3. HoldsCovered(r)'
      BY <2>2 DEF HoldsCovered, Listing, Importing
    <2>4. CursorCovers'
      <3>1. CASE StorePlaidItem(r) /\ plaid_items' # plaid_items
        <4>1. plaid_items' = CreatePlaidItem(plaid_items, req[r].item, req[r].user)
          BY <3>1 DEF StorePlaidItem
        <4>2. \A i \in DOMAIN plaid_items' :
                \/ i \in DOMAIN plaid_items /\ plaid_items'[i] = plaid_items[i]
                \/ i = req[r].item /\ plaid_items'[i].cursor = 0
          BY <4>1 DEF CreatePlaidItem, Insert
        <4>3. req[r].item \in Items
          BY <1>0, <3>1, StageOf DEF StorePlaidItem, TypeOK, ExchangeStage
        <4>4. \A i \in Items : Covered(i, 0)'
          BY <1>0, BoundAssumption DEF Covered, TypeInv, TypeOK, Cursors
        <4>5. \A i, c : i \in DOMAIN plaid_items /\ c = plaid_items[i].cursor
                => Covered(i, c)'
          BY <1>0, <1>1, <1>2 DEF CursorCovers
        <4>6. ASSUME NEW i \in DOMAIN plaid_items', NEW c,
                     c = plaid_items'[i].cursor
              PROVE  Covered(i, c)'
          BY <4>2, <4>3, <4>4, <4>5, <4>6
        <4> QED
          BY <4>6 DEF CursorCovers
      <3>2. CASE UNCHANGED plaid_items
        BY <1>4, <3>2
      <3> QED
        BY <1>6, <3>1, <3>2
           DEF ExchangePublicToken, StorePlaidItem, GetAccounts, StoreAccount,
               ExchangeDone, SyncDone, tables
    <2> QED
      BY <1>0, <1>1, <2>1, <2>3, <2>4 DEF CoverInv
  <1>7. ASSUME NEW r \in Requests, Next,
               \/ \E u \in Users : SyncTransactions(r, u)
               \/ \E i \in Items : BeginItem(r, i)
               \/ FetchPage(r)
               \/ \E p \in 1..MaxUpdates : \/ SkipAdded(r, p)
                                           \/ StoreAdded(r, p)
                                           \/ RejectAdded(r, p)
                                           \/ ApplyModified(r, p)
               \/ SaveCursor(r)
        PROVE  CoverInv'
    <2>1. HoldsCovered(r)'
      BY <1>0, <1>7, ActorCovered
    <2>2. \A o \in Requests : o # r => req'[o] = req[o]
      BY <1>0, <1>7, OneSlot DEF Proceed
    <2>3. CursorCovers'
      <3>1. CASE SaveCursor(r)
        <4>1. req[r].pc = "page" /\ req[r] \in PageStage
          BY <1>0, <3>1, StageOf DEF SaveCursor, PageDone, NextCursor, TypeOK
        <4>2. req[r].item \in Items /\ req[r].next \in Cursors
          BY <4>1 DEF PageStage
        <4>3. /\ DOMAIN plaid_items' = DOMAIN plaid_items
              /\ \A i \in DOMAIN plaid_items :
                   plaid_items'[i].cursor =
                     IF i = req[r].item THEN req[r].next ELSE plaid_items[i].cursor
          BY <1>2, <3>1, <4>2, CursorRow DEF SaveCursor, PageDone, NextCursor
        <4>4. \A i, c : i = req[r].item /\ c = req[r].next => Covered(i, c)'
          BY <1>0, <1>1, <3>1, <4>2, PageDoneCovered
        <4>5. \A i, c : i \in DOMAIN plaid_items /\ c = plaid_items[i].cursor
                => Covered(i, c)'
          BY <1>0, <1>1, <1>2 DEF CursorCovers
        <4>6. ASSUME NEW i \in DOMAIN plaid_items', NEW c,
                     c = plaid_items'[i].cursor
              PROVE  Covered(i, c)'
          BY <4>3, <4>4, <4>5, <4>6
        <4> QED
          BY <4>6 DEF CursorCovers
      <3>2. CASE UNCHANGED plaid_items
        BY <1>4, <3>2
      <3> QED
        BY <1>7, <3>1, <3>2
           DEF SyncTransactions, BeginItem, FetchPage, SkipAdded, StoreAdded,
               RejectAdded, ApplyModified, tables
    <2> QED
      BY <1>0, <1>1, <2>1, <2>2, <2>3 DEF CoverInv
  <1> QED
    BY <1>5, <1>6, <1>7 DEF Next, Proceed

\* At no moment does a saved cursor stand past a transaction that is neither
\* stored nor skipped: not between the statements of a sync, not after a
\* failure or a crash, not when syncs of one item overlap.
THEOREM CursorNeverPastLost == Spec => []CursorCovers
  <1>1. CoverInv => CursorCovers
    BY DEF CoverInv
  <1> QED
    BY <1>1, CoverInit, CoverStep, PTL DEF Spec

----------------------------------------------------------------------------
(* Imports stay with the owner of the bank login.                          *)

OwnerInv ==
  /\ TypeInv
  /\ AccountsLinked
  /\ OwnerConsistent
  /\ \A r \in Requests : HoldsOwned(r)

LEMMA OwnerInit == Init => OwnerInv
  <1> SUFFICES ASSUME Init PROVE OwnerInv
    OBVIOUS
  <1>1. \A r \in Requests : req[r].pc = "idle"
    BY DEF Init, Idle
  <1>2. DOMAIN transactions = {} /\ plaid_accounts = {}
    BY EmptyTableType DEF Init
  <1> QED
    BY <1>1, <1>2, TypeInit
       DEF OwnerInv, AccountsLinked, OwnerConsistent, HoldsOwned, Listing,
           Importing

\* Rows only accumulate, so what an untouched slot holds stays its own.
LEMMA OwnedStays ==
  ASSUME TypeInv, [Next]_vars, NEW r \in Requests, HoldsOwned(r),
         req'[r] = req[r]
  PROVE  HoldsOwned(r)'
  <1>1. /\ plaid_accounts \subseteq plaid_accounts'
        /\ DOMAIN plaid_items \subseteq DOMAIN plaid_items'
        /\ \A i \in DOMAIN plaid_items : plaid_items'[i].user = plaid_items[i].user
    BY NothingForgotten
  <1> QED
    BY <1>1 DEF HoldsOwned, Listing, Importing, GetPlaidAccountsByItemID

\* The acting request only comes to hold what has a row and is its user's.
LEMMA ActorOwned ==
  ASSUME OwnerInv, Next, NEW r \in Requests,
         \/ \E u \in Users, i \in Items : ExchangePublicToken(r, u, i)
         \/ \E u \in Users : SyncTransactions(r, u)
         \/ Proceed(r)
  PROVE  HoldsOwned(r)'
  <1>0. /\ TypeInv /\ TypeOK /\ req[r] \in Request /\ HoldsOwned(r)
    BY DEF OwnerInv, TypeInv, TypeOK
  <1>1. /\ plaid_accounts \subseteq plaid_accounts'
        /\ DOMAIN plaid_items \subseteq DOMAIN plaid_items'
        /\ \A i \in DOMAIN plaid_items : plaid_items'[i].user = plaid_items[i].user
    BY <1>0, NothingForgotten
  <1>2. ASSUME NEW u \in Users, NEW i \in Items, ExchangePublicToken(r, u, i)
        PROVE  HoldsOwned(r)'
    <2>1. req'[r].pc = "item"
      BY <1>0, <1>2 DEF ExchangePublicToken, Goto, TypeOK
    <2> QED
      BY <2>1 DEF HoldsOwned, Listing, Importing
  <1>3. ASSUME StorePlaidItem(r)
        PROVE  HoldsOwned(r)'
    <2>1. req[r] \in ExchangeStage /\ req[r].pc = "item"
      BY <1>0, <1>3, StageOf DEF StorePlaidItem
    <2>2. \/ req'[r].pc = "idle"
          \/ /\ req'[r].pc = "accounts" /\ req'[r].item = req[r].item
             /\ req'[r].user = req[r].user
             /\ req[r].item \in DOMAIN plaid_items'
             /\ plaid_items'[req[r].item].user = req[r].user
      BY <1>0, <1>3, <2>1
         DEF StorePlaidItem, ItemTaken, Goto, TypeOK, Idle, ExchangeStage,
             CreatePlaidItem, Insert
    <2> QED
      BY <2>2 DEF HoldsOwned, Listing, Importing
  <1>4. ASSUME GetAccounts(r)
        PROVE  HoldsOwned(r)'
    <2>1. /\ req'[r].pc = "account" /\ req'[r].item = req[r].item
          /\ req'[r].user = req[r].user
          /\ req'[r].left = {a \in Accounts : AccountItem[a] = req[r].item}
      BY <1>0, <1>4 DEF GetAccounts, Goto, TypeOK
    <2>2. /\ req[r].item \in DOMAIN plaid_items'
          /\ plaid_items'[req[r].item].user = req[r].user
      BY <1>0, <1>1, <1>4 DEF GetAccounts, HoldsOwned
    <2> QED
      BY <2>1, <2>2 DEF HoldsOwned, Listing, Importing
  <1>5. ASSUME NEW a \in Accounts, StoreAccount(r, a)
        PROVE  HoldsOwned(r)'
    <2>1. req[r] \in ExchangeStage /\ req[r].pc = "account"
      BY <1>0, <1>5, StageOf DEF StoreAccount
    <2>2. \/ req'[r].pc = "idle"
          \/ /\ req'[r].pc = "account" /\ req'[r].item = req[r].item
             /\ req'[r].user = req[r].user
             /\ req'[r].left = req[r].left \ {a}
      BY <1>0, <1>5, <2>1 DEF StoreAccount, Goto, TypeOK, Idle, ExchangeStage
    <2>3. /\ req[r].item \in DOMAIN plaid_items'
          /\ plaid_items'[req[r].item].user = req[r].user
          /\ \A b \in req[r].left : AccountItem[b] = req[r].item
      BY <1>0, <1>1, <2>1 DEF HoldsOwned
    <2> QED
      BY <2>2, <2>3 DEF HoldsOwned, Listing, Importing
  <1>6. ASSUME ExchangeDone(r) \/ SyncDone(r)
               \/ \E p \in 1..MaxUpdates : RejectAdded(r, p)
        PROVE  HoldsOwned(r)'
    <2>1. req'[r] = Idle
      BY <1>0, <1>6 DEF ExchangeDone, SyncDone, RejectAdded, Goto, TypeOK,
                        ErrNoRows, ToleratedError
    <2> QED
      BY <2>1 DEF HoldsOwned, Listing, Importing, Idle
  <1>7. ASSUME NEW u \in Users, SyncTransactions(r, u)
        PROVE  HoldsOwned(r)'
    <2> DEFINE todo == GetPlaidItemsByUserID(plaid_items, u)
    <2>1. req'[r] = [pc |-> "next", user |-> u, todo |-> todo]
      BY <1>0, <1>7 DEF SyncTransactions, Goto, TypeOK
    <2>2. \A i \in DOMAIN todo : i \in DOMAIN plaid_items /\ plaid_items[i].user = u
      BY <1>0, ListType
    <2> HIDE DEF todo
    <2> QED
      BY <1>1, <2>1, <2>2 DEF HoldsOwned, Listing, Importing
  <1>8. ASSUME NEW i \in Items, BeginItem(r, i)
        PROVE  HoldsOwned(r)'
    <2> DEFINE Own == GetPlaidAccountsByItemID(plaid_accounts, AccountItem, i)
    <2>1. /\ req'[r].pc = "fetch" /\ req'[r].item = i
          /\ req'[r].user = req[r].user /\ req'[r].accounts = Own
          /\ DOMAIN req'[r].todo = DOMAIN req[r].todo \ {i}
      BY <1>0, <1>8 DEF BeginItem, Goto, TypeOK
    <2>2. /\ i \in DOMAIN req[r].todo
          /\ \A j \in DOMAIN req[r].todo :
               j \in DOMAIN plaid_items /\ plaid_items[j].user = req[r].user
      BY <1>0, <1>8 DEF BeginItem, HoldsOwned, Listing
    <2>3. UNCHANGED plaid_accounts
      BY <1>8 DEF BeginItem, tables
    <2> HIDE DEF Own
    <2> QED
      BY <1>1, <2>1, <2>2, <2>3 DEF HoldsOwned, Listing, Importing, Own
  <1>9. ASSUME \/ FetchPage(r)
               \/ \E p \in 1..MaxUpdates : \/ SkipAdded(r, p)
                                           \/ StoreAdded(r, p)
                                           \/ ApplyModified(r, p)
               \/ SaveCursor(r)
        PROVE  HoldsOwned(r)'
    <2>1. /\ req[r].pc \in {"fetch", "page"}
          /\ req'[r].pc \in {"next", "fetch", "page"}
          /\ req'[r].todo = req[r].todo /\ req'[r].user = req[r].user
          /\ req'[r].pc # "next" => /\ req'[r].item = req[r].item
                                    /\ req'[r].accounts = req[r].accounts
      <3>1. CASE FetchPage(r)
        BY <1>0, <3>1 DEF FetchPage, Goto, TypeOK
      <3>2. CASE SaveCursor(r)
        BY <1>0, <3>2 DEF SaveCursor, PageDone, NextCursor, Goto, TypeOK
      <3>3. ASSUME NEW p \in 1..MaxUpdates,
                   \/ SkipAdded(r, p)
                   \/ StoreAdded(r, p)
                   \/ ApplyModified(r, p)
            PROVE  /\ req[r].pc = "page" /\ req'[r].pc = "page"
                   /\ req'[r].todo = req[r].todo /\ req'[r].user = req[r].user
                   /\ req'[r].item = req[r].item
                   /\ req'[r].accounts = req[r].accounts
        <4>1. req[r].pc = "page" /\ req[r] \in PageStage
          BY <1>0, <3>3, StageOf DEF SkipAdded, StoreAdded, ApplyModified, AtAdded
        <4> QED
          BY <1>0, <3>3, <4>1
             DEF SkipAdded, StoreAdded, ApplyModified, Goto, TypeOK, PageStage
      <3> QED
        BY <1>9, <3>1, <3>2, <3>3
    <2>2. /\ \A j \in DOMAIN req[r].todo :
               j \in DOMAIN plaid_items /\ plaid_items[j].user = req[r].user
          /\ req[r].item \in DOMAIN plaid_items
          /\ plaid_items[req[r].item].user = req[r].user
          /\ req[r].accounts \subseteq
               GetPlaidAccountsByItemID(plaid_accounts, AccountItem, req[r].item)
      BY <1>0, <2>1 DEF HoldsOwned, Listing, Importing
    <2> QED
      BY <1>1, <2>1, <2>2
         DEF HoldsOwned, Listing, Importing, GetPlaidAccountsByItemID
  <1> QED
    BY <1>2, <1>3, <1>4, <1>5, <1>6, <1>7, <1>8, <1>9 DEF Proceed

LEMMA OwnerStep == OwnerInv /\ [Next]_vars => OwnerInv'
  <1> SUFFICES ASSUME OwnerInv, [Next]_vars PROVE OwnerInv'
    OBVIOUS
  <1>0. /\ TypeInv /\ TypeInv' /\ TypeOK /\ AccountsLinked /\ OwnerConsistent
        /\ \A r \in Requests : HoldsOwned(r) /\ PageInFeed(r)
    BY TypeStep DEF OwnerInv, TypeInv
  <1>1. /\ plaid_accounts \subseteq plaid_accounts'
        /\ DOMAIN plaid_items \subseteq DOMAIN plaid_items'
        /\ \A i \in DOMAIN plaid_items : plaid_items'[i].user = plaid_items[i].user
    BY <1>0, NothingForgotten
  <1>2. AccountsLinked'
    <2>1. CASE UNCHANGED plaid_accounts
      BY <1>0, <1>1, <2>1 DEF AccountsLinked
    <2>2. ASSUME NEW r \in Requests, NEW a \in Accounts, StoreAccount(r, a)
          PROVE  AccountsLinked'
      <3>1. AccountItem[a] \in DOMAIN plaid_items
        BY <1>0, <2>2 DEF StoreAccount, HoldsOwned
      <3> QED
        BY <1>0, <1>1, <2>2, <3>1
           DEF StoreAccount, CreatePlaidAccount, AccountsLinked
    <2> QED
      BY <2>1, <2>2, FailureIdles, FeedGrows
         DEF Next, Proceed, vars, tables, Publish, PublishAdded, PublishModified,
             PublishRemoved, Append1, Fail, Crash, ExchangePublicToken,
             StorePlaidItem, GetAccounts, ExchangeDone, SyncTransactions,
             BeginItem, FetchPage, SkipAdded, StoreAdded, RejectAdded,
             ApplyModified, SaveCursor, SyncDone
  <1>3. OwnerConsistent'
    <2>1. ASSUME DOMAIN transactions' = DOMAIN transactions,
                 \A t \in DOMAIN transactions :
                   transactions'[t].user = transactions[t].user
          PROVE  OwnerConsistent'
      BY <1>0, <1>1, <2>1 DEF OwnerConsistent
    <2>2. ASSUME NEW r \in Requests, NEW p \in 1..MaxUpdates, StoreAdded(r, p)
          PROVE  OwnerConsistent'
      <3> DEFINE t == UpdateAt(r, p).tx
      <3>1. req[r].pc = "page" /\ p \in req[r].added
        BY <2>2 DEF StoreAdded, AtAdded, First
      <3>2. /\ req[r] \in PageStage /\ t \in Transactions
            /\ UpdateAt(r, p).pending \in BOOLEAN
        BY <1>0, <3>1, AtUpdate
      <3>3. req[r].user \in Users
        BY <3>2 DEF PageStage
      <3>4. transactions \in PartialFunctions(Transactions, Transaction(Users))
        BY <1>0 DEF TypeOK
      <3>5. /\ DOMAIN transactions' = DOMAIN transactions \cup {t}
            /\ transactions'[t].user = req[r].user
            /\ \A k \in DOMAIN transactions : transactions'[k] = transactions[k]
        <4> DEFINE b == UpdateAt(r, p).pending
        <4>1. /\ transactions' =
                   CreateTransaction(transactions, t, req[r].user, b)
              /\ t \notin DOMAIN transactions
          BY <2>2 DEF StoreAdded
        <4>2. t \in Transactions /\ b \in BOOLEAN
          BY <3>2
        <4> HIDE DEF t, b
        <4> QED
          BY <3>3, <3>4, <4>1, <4>2, TransactionRow
      <3>6. /\ TxAccount[t] \in plaid_accounts
            /\ ItemOf(t) \in DOMAIN plaid_items
            /\ plaid_items[ItemOf(t)].user = req[r].user
        BY <1>0, <2>2, <3>1
           DEF StoreAdded, AccountKnown, HoldsOwned, Importing,
               GetPlaidAccountsByItemID, ItemOf
      <3> HIDE DEF t
      <3> QED
        BY <1>0, <1>1, <3>5, <3>6 DEF OwnerConsistent
    <2>3. ASSUME NEW r \in Requests, NEW p \in 1..MaxUpdates, ApplyModified(r, p)
          PROVE  OwnerConsistent'
      <3>1. req[r].pc = "page" /\ p \in req[r].modified
        BY <2>3 DEF ApplyModified, First
      <3>2. UpdateAt(r, p).pending \in BOOLEAN
        BY <1>0, <3>1, AtUpdate
      <3>3. transactions \in PartialFunctions(Transactions, Transaction(Users))
        BY <1>0 DEF TypeOK
      <3> QED
        BY <2>1, <2>3, <3>2, <3>3, PendingRow DEF ApplyModified
    <2>4. CASE UNCHANGED transactions
      BY <2>1, <2>4
    <2> QED
      BY <2>2, <2>3, <2>4
         DEF Next, Proceed, vars, tables, Publish, PublishAdded, PublishModified,
             PublishRemoved, Append1, Fail, Crash, ExchangePublicToken,
             StorePlaidItem, GetAccounts, StoreAccount, ExchangeDone,
             SyncTransactions, BeginItem, FetchPage, SkipAdded, RejectAdded,
             SaveCursor, SyncDone
  <1>4. \A r \in Requests : HoldsOwned(r)'
    <2>1. CASE \A r \in Requests : req'[r] = req[r] \/ req'[r] = Idle
      BY <1>0, <2>1, OwnedStays DEF HoldsOwned, Listing, Importing, Idle
    <2>2. ASSUME NEW r \in Requests, Next,
                 \/ \E u \in Users, i \in Items : ExchangePublicToken(r, u, i)
                 \/ \E u \in Users : SyncTransactions(r, u)
                 \/ Proceed(r)
          PROVE  \A o \in Requests : HoldsOwned(o)'
      BY <1>0, <2>2, ActorOwned, OneSlot, OwnedStays DEF OwnerInv
    <2>3. CASE Publish \/ UNCHANGED vars
      BY <1>0, <2>1, <2>3, FeedGrows DEF vars
    <2>4. CASE (\E r \in Requests : Fail(r)) \/ Crash
      BY <1>0, <2>1, <2>4, FailureIdles DEF TypeOK
    <2> QED
      BY <2>2, <2>3, <2>4 DEF Next
  <1> QED
    BY <1>0, <1>2, <1>3, <1>4 DEF OwnerInv

\* A stored transaction always belongs to the user who owns its bank login,
\* however exchanges and syncs of several users interleave.
THEOREM ImportsKeepOwner == Spec => []OwnerConsistent
  <1>1. OwnerInv => OwnerConsistent
    BY DEF OwnerInv
  <1> QED
    BY <1>1, OwnerInit, OwnerStep, PTL DEF Spec

----------------------------------------------------------------------------
(* A half-linked item stays half linked.                                   *)

LEMMA BrokenStays ==
  ASSUME OwnerInv, [Next]_vars, NEW i \in Items, Broken(i)
  PROVE  Broken(i)'
  <1>0. /\ TypeInv /\ TypeOK
        /\ \A r \in Requests : HoldsOwned(r) /\ req[r] \in Request
    BY DEF OwnerInv, TypeInv, TypeOK
  <1>1. i \in DOMAIN plaid_items'
    BY <1>0, NothingForgotten DEF Broken
  <1>2. \E a \in Accounts : AccountItem[a] = i /\ a \notin plaid_accounts'
    <2>1. CASE UNCHANGED plaid_accounts
      BY <2>1 DEF Broken
    <2>2. ASSUME NEW r \in Requests, NEW a \in Accounts, StoreAccount(r, a)
          PROVE  \E b \in Accounts : AccountItem[b] = i /\ b \notin plaid_accounts'
      <3>1. AccountItem[a] # i
        BY <1>0, <2>2 DEF StoreAccount, HoldsOwned, Broken
      <3> QED
        BY <2>2, <3>1 DEF StoreAccount, CreatePlaidAccount, Broken
    <2> QED
      BY <2>1, <2>2
         DEF Next, Proceed, vars, tables, Publish, PublishAdded, PublishModified,
             PublishRemoved, Append1, Fail, Crash, ExchangePublicToken,
             StorePlaidItem, GetAccounts, ExchangeDone, SyncTransactions,
             BeginItem, FetchPage, SkipAdded, StoreAdded, RejectAdded,
             ApplyModified, SaveCursor, SyncDone
  <1>3. \A r \in Requests :
          req'[r].pc \in {"accounts", "account"} => req'[r].item # i
    <2>1. CASE \A r \in Requests : req'[r] = req[r] \/ req'[r] = Idle
      BY <2>1 DEF Broken, Idle
    <2>2. ASSUME NEW r \in Requests,
                 \/ \E u \in Users, j \in Items : ExchangePublicToken(r, u, j)
                 \/ \E u \in Users : SyncTransactions(r, u)
                 \/ Proceed(r)
          PROVE  req'[r].pc \in {"accounts", "account"} => req'[r].item # i
      <3>1. CASE StorePlaidItem(r)
        <4>1. req[r] \in ExchangeStage
          BY <1>0, <3>1, StageOf DEF StorePlaidItem
        <4> QED
          BY <1>0, <3>1, <4>1
             DEF StorePlaidItem, ItemTaken, Goto, TypeOK, Idle, Broken, ExchangeStage
      <3>2. CASE GetAccounts(r)
        BY <1>0, <3>2 DEF GetAccounts, Goto, TypeOK, Broken
      <3>3. CASE \E a \in Accounts : StoreAccount(r, a)
        <4>1. req[r] \in ExchangeStage /\ req[r].pc = "account"
          BY <1>0, <3>3, StageOf DEF StoreAccount
        <4>2. req'[r].pc = "idle" \/ req'[r].item = req[r].item
          BY <1>0, <3>3, <4>1 DEF StoreAccount, Goto, TypeOK, Idle, ExchangeStage
        <4> QED
          BY <4>1, <4>2 DEF Broken
      <3>4. ASSUME ~StorePlaidItem(r), ~GetAccounts(r),
                   ~\E a \in Accounts : StoreAccount(r, a)
            PROVE  req'[r].pc \notin {"accounts", "account"}
        <4>1. CASE \E p \in 1..MaxUpdates :
                     SkipAdded(r, p) \/ StoreAdded(r, p) \/ ApplyModified(r, p)
          <5>1. req[r].pc = "page" /\ req[r] \in PageStage
            BY <1>0, <4>1, StageOf
               DEF SkipAdded, StoreAdded, ApplyModified, AtAdded
          <5>2. req'[r].pc = "page"
            BY <1>0, <4>1, <5>1
               DEF SkipAdded, StoreAdded, ApplyModified, Goto, TypeOK, PageStage
          <5> QED
            BY <5>2
        <4>2. CASE ExchangeDone(r) \/ SyncDone(r)
                   \/ \E p \in 1..MaxUpdates : RejectAdded(r, p)
          BY <1>0, <4>2 DEF ExchangeDone, SyncDone, RejectAdded, Goto, TypeOK,
                            ErrNoRows, ToleratedError, Idle
        <4>3. CASE (\E u \in Users, j \in Items : ExchangePublicToken(r, u, j))
                   \/ \E u \in Users : SyncTransactions(r, u)
          BY <1>0, <4>3 DEF ExchangePublicToken, SyncTransactions, Goto, TypeOK
        <4>4. ASSUME NEW j \in Items, BeginItem(r, j)
              PROVE  req'[r].pc = "fetch"
          BY <1>0, <4>4 DEF BeginItem, Goto, TypeOK
        <4>5. CASE FetchPage(r)
          BY <1>0, <4>5 DEF FetchPage, Goto, TypeOK
        <4>6. CASE SaveCursor(r)
          BY <1>0, <4>6 DEF SaveCursor, PageDone, NextCursor, Goto, TypeOK
        <4> QED
          BY <2>2, <3>4, <4>1, <4>2, <4>3, <4>4, <4>5, <4>6 DEF Proceed
      <3> QED
        BY <3>1, <3>2, <3>3, <3>4
    <2>3. ASSUME NEW r \in Requests,
                 \/ \E u \in Users, j \in Items : ExchangePublicToken(r, u, j)
                 \/ \E u \in Users : SyncTransactions(r, u)
                 \/ Proceed(r)
          PROVE  \A o \in Requests :
                   req'[o].pc \in {"accounts", "account"} => req'[o].item # i
      BY <1>0, <2>2, <2>3, OneSlot DEF Broken
    <2>4. CASE Publish \/ UNCHANGED vars
      BY <1>0, <2>1, <2>4, FeedGrows DEF vars
    <2>5. CASE (\E r \in Requests : Fail(r)) \/ Crash
      BY <1>0, <2>1, <2>5, FailureIdles DEF TypeOK
    <2> QED
      BY <2>3, <2>4, <2>5 DEF Next
  <1> QED
    BY <1>1, <1>2, <1>3 DEF Broken

\* An exchange that failed half way is final: no request and no retry ever
\* adds the accounts it left out.
THEOREM HalfLinkIsFinal == Spec => BrokenIsFinal
  <1>1. OwnerInv /\ [Next]_vars => (\A i \in Items : Broken(i) => Broken(i)')
    BY BrokenStays
  <1>2. OwnerInv /\ [Next]_vars => [\A i \in Items : Broken(i) => Broken(i)']_vars
    BY <1>1
  <1> QED
    BY <1>2, OwnerInit, OwnerStep, PTL DEF Spec, BrokenIsFinal

----------------------------------------------------------------------------
(* What a sync stores is ahead of the saved cursor, also when syncs of one *)
(* item overlap.                                                           *)

\* No cursor in any table or request has reached an update that is not
\* handled yet.
LEMMA UnhandledIsAhead ==
  ASSUME IInv, NEW i \in Items, NEW p \in 1..Len(feed[i]),
         feed[i][p].kind = "added", ~Handled(feed[i][p].tx)
  PROVE  /\ i \in DOMAIN plaid_items => plaid_items[i].cursor < p
         /\ \A o \in Requests :
              /\ Listing(o) /\ i \in DOMAIN req[o].todo => req[o].todo[i] < p
              /\ Importing(o) /\ req[o].item = i => req[o].cursor < p
              /\ req[o].pc = "page" /\ req[o].item = i /\ p <= req[o].next
                   => p \in req[o].added
  <1>0. /\ TypeOK /\ p \in Nat
        /\ \A o \in Requests : req[o] \in Request /\ HoldsCovered(o)
    BY DEF IInv, TypeOK, Cursors
  <1>1. \A c \in Cursors : Covered(i, c) => c < p
    BY <1>0, BoundAssumption DEF Covered, Cursors
  <1>2. i \in DOMAIN plaid_items => plaid_items[i].cursor < p
    BY <1>0, <1>1, ItemRows DEF IInv, CursorCovers
  <1>3. ASSUME NEW o \in Requests, Listing(o), i \in DOMAIN req[o].todo
        PROVE  req[o].todo[i] < p
    <2>1. req[o].todo \in PartialFunctions(Items, Cursors)
      BY <1>0, <1>3, StageOf DEF Listing, ListStage, FetchStage, PageStage
    <2>2. req[o].todo[i] \in Cursors
      BY <1>3, <2>1, TableIsFunction
    <2> QED
      BY <1>0, <1>1, <1>3, <2>2 DEF HoldsCovered
  <1>4. ASSUME NEW o \in Requests, Importing(o), req[o].item = i
        PROVE  req[o].cursor < p
    <2>1. req[o].cursor \in Cursors
      BY <1>0, <1>4, StageOf DEF Importing, FetchStage, PageStage
    <2> QED
      BY <1>0, <1>1, <1>4, <2>1 DEF HoldsCovered
  <1>5. ASSUME NEW o \in Requests, req[o].pc = "page", req[o].item = i,
               p <= req[o].next
        PROVE  p \in req[o].added
    <2>1. req[o] \in PageStage
      BY <1>0, <1>5, StageOf
    <2>2. req[o].cursor \in Nat /\ req[o].next \in Nat
      BY <2>1 DEF PageStage, Cursors
    <2>3. req[o].cursor < p
      BY <1>4, <1>5 DEF Importing
    <2>4. p \in (req[o].cursor + 1)..req[o].next
      BY <1>0, <1>5, <2>2, <2>3
    <2> QED
      BY <1>0, <1>5, <2>4 DEF HoldsCovered, UpdateAt
  <1> QED
    BY <1>2, <1>3, <1>4, <1>5

\* Everything about a position q of item i's feed that keeps other requests
\* and the saved cursor behind it.
Ahead(i, q, r) ==
  /\ plaid_items[i].cursor < q
  /\ \A o \in Requests \ {r} :
       /\ Listing(o) /\ i \in DOMAIN req[o].todo => req[o].todo[i] < q
       /\ Importing(o) /\ req[o].item = i => req[o].cursor < q
       /\ req[o].pc = "page" /\ req[o].item = i /\ q <= req[o].next
            => q \in req[o].added

\* A position counted as stored after a step was, before it, either counted
\* already or not handled by anyone; it was ahead of the others either way.
LEMMA StoredWasAhead ==
  ASSUME IInv, TypeInv, TypeInv', Next, NEW r \in Requests,
         req'[r].pc = "page",
         NEW q \in DoneWith(r)'
  PROVE  /\ req[r].pc = "page"
         /\ req'[r].item = req[r].item
         /\ UpdateAt(r, q)' = UpdateAt(r, q)
         /\ UpdateAt(r, q).kind = "added"
         /\ UpdateAt(r, q).tx \notin skipped'
         /\ req[r].item \in DOMAIN plaid_items
         /\ q \in 1..Len(feed[req[r].item])
         /\ Ahead(req[r].item, q, r)
         /\ req'[r] = req[r] => UpdateAt(r, q).tx \in DOMAIN transactions
  <1>0. /\ TypeOK /\ TypeOK' /\ req[r] \in Request /\ req'[r] \in Request
        /\ PageInFeed(r) /\ PageInFeed(r)' /\ HoldsCovered(r) /\ HoldsOwned(r)
    BY DEF IInv, TypeInv, TypeOK
  <1>1. /\ q \in (req'[r].cursor + 1)..req'[r].next
        /\ UpdateAt(r, q)'.kind = "added"
        /\ q \notin req'[r].added
        /\ UpdateAt(r, q)'.tx \notin skipped'
    BY DEF DoneWith
  <1>2. CASE FetchPage(r)
    <2> DEFINE page == SyncResult(feed[req[r].item], req[r].cursor)
    <2>1. req[r] \in FetchStage
      BY <1>0, <1>2, StageOf DEF FetchPage
    <2>2. req[r].item \in Items /\ req[r].cursor \in Cursors
      BY <2>1 DEF FetchStage
    <2>3. feed[req[r].item] \in Seq(Update) /\ Len(feed[req[r].item]) \in Cursors
      BY <1>0, <2>2 DEF TypeOK
    <2>4. \A p \in (req[r].cursor + 1)..page.next :
            feed[req[r].item][p].kind = "added" => p \in page.added
      BY <2>2, <2>3, PageShape
    <2>5. /\ req'[r].item = req[r].item /\ req'[r].cursor = req[r].cursor
          /\ req'[r].added = page.added /\ req'[r].next = page.next
          /\ feed' = feed
      BY <1>0, <1>2 DEF FetchPage, Goto, TypeOK
    <2> HIDE DEF page
    <2>6. FALSE
      BY <1>1, <2>4, <2>5 DEF UpdateAt
    <2> QED
      BY <2>6
  <1>3. ASSUME ~FetchPage(r)
        PROVE  /\ req[r].pc = "page" /\ req[r] \in PageStage
               /\ req'[r].item = req[r].item
               /\ req'[r].cursor = req[r].cursor /\ req'[r].next = req[r].next
               /\ \/ req'[r].added = req[r].added
                  \/ \E p \in 1..MaxUpdates :
                       /\ SkipAdded(r, p) \/ StoreAdded(r, p)
                       /\ req'[r].added = req[r].added \ {p}
                       /\ req'[r] # req[r]
    <2>1. CASE req'[r] = req[r]
      BY <1>0, <2>1, StageOf
    <2>2. CASE \E p \in 1..MaxUpdates :
                 SkipAdded(r, p) \/ StoreAdded(r, p) \/ ApplyModified(r, p)
      <3>1. req[r].pc = "page" /\ req[r] \in PageStage
        BY <1>0, <2>2, StageOf DEF SkipAdded, StoreAdded, ApplyModified, AtAdded
      <3>2. ASSUME NEW p \in 1..MaxUpdates, ApplyModified(r, p)
            PROVE  /\ req'[r].item = req[r].item
                   /\ req'[r].cursor = req[r].cursor
                   /\ req'[r].next = req[r].next
                   /\ req'[r].added = req[r].added
        BY <1>0, <3>1, <3>2 DEF ApplyModified, Goto, TypeOK, PageStage
      <3>3. ASSUME NEW p \in 1..MaxUpdates, SkipAdded(r, p) \/ StoreAdded(r, p)
            PROVE  /\ req'[r].item = req[r].item
                   /\ req'[r].cursor = req[r].cursor
                   /\ req'[r].next = req[r].next
                   /\ req'[r].added = req[r].added \ {p}
                   /\ p \in req[r].added
        BY <1>0, <3>1, <3>3
           DEF SkipAdded, StoreAdded, AtAdded, First, Goto, TypeOK, PageStage
      <3>4. ASSUME NEW p, req'[r].added = req[r].added \ {p}, p \in req[r].added
            PROVE  req'[r] # req[r]
        BY <3>4
      <3> QED
        BY <2>2, <3>1, <3>2, <3>3, <3>4
    <2>3. ASSUME req'[r] # req[r],
                 ~\E p \in 1..MaxUpdates :
                    SkipAdded(r, p) \/ StoreAdded(r, p) \/ ApplyModified(r, p)
          PROVE  FALSE
      <3>1. CASE Publish
        BY <1>0, <2>3, <3>1, FeedGrows
      <3>2. CASE (\E o \in Requests : Fail(o)) \/ Crash
        BY <1>0, <2>3, <3>2, FailureIdles DEF TypeOK, Idle
      <3>3. ASSUME NEW o \in Requests, o # r,
                   \/ \E u \in Users, j \in Items : ExchangePublicToken(o, u, j)
                   \/ \E u \in Users : SyncTransactions(o, u)
                   \/ Proceed(o)
            PROVE  FALSE
        BY <1>0, <2>3, <3>3, OneSlot
      <3>4. CASE \/ \E u \in Users, j \in Items : ExchangePublicToken(r, u, j)
                 \/ \E u \in Users : SyncTransactions(r, u)
        BY <1>0, <3>4 DEF ExchangePublicToken, SyncTransactions, Goto, TypeOK
      <3>5. CASE StorePlaidItem(r) \/ \E a \in Accounts : StoreAccount(r, a)
        <4>1. req[r] \in ExchangeStage
          BY <1>0, <3>5, StageOf DEF StorePlaidItem, StoreAccount
        <4> QED
          BY <1>0, <3>5, <4>1
             DEF StorePlaidItem, StoreAccount, Goto, TypeOK, Idle, ExchangeStage
      <3>6. CASE GetAccounts(r)
        BY <1>0, <3>6 DEF GetAccounts, Goto, TypeOK
      <3>7. CASE ExchangeDone(r) \/ SyncDone(r)
                 \/ \E p \in 1..MaxUpdates : RejectAdded(r, p)
        BY <1>0, <3>7 DEF ExchangeDone, SyncDone, RejectAdded, Goto, TypeOK,
                          ErrNoRows, ToleratedError, Idle
      <3>8. CASE \E j \in Items : BeginItem(r, j)
        BY <1>0, <3>8 DEF BeginItem, Goto, TypeOK
      <3>9. CASE SaveCursor(r)
        BY <1>0, <3>9 DEF SaveCursor, PageDone, NextCursor, Goto, TypeOK
      <3> QED
        BY <1>3, <2>3, <3>1, <3>2, <3>3, <3>4, <3>5, <3>6, <3>7, <3>8, <3>9
           DEF Next, Proceed
    <2> QED
      BY <2>1, <2>2, <2>3
  <1>4. ASSUME ~FetchPage(r)
        PROVE  /\ req[r].pc = "page"
               /\ req'[r].item = req[r].item
               /\ UpdateAt(r, q)' = UpdateAt(r, q)
               /\ req[r].item \in DOMAIN plaid_items
               /\ q \in 1..Len(feed[req[r].item])
    <2>1. /\ req[r].pc = "page" /\ req[r] \in PageStage
          /\ req'[r].item = req[r].item
          /\ q \in (req[r].cursor + 1)..req[r].next
      BY <1>1, <1>3, <1>4
    <2>2. req[r].item \in Items /\ req[r].cursor \in Nat /\ req[r].next \in Nat
      BY <2>1 DEF PageStage, Cursors
    <2>3. req[r].next <= Len(feed[req[r].item]) /\ Len(feed[req[r].item]) \in Nat
      BY <1>0, <2>1, <2>2 DEF PageInFeed, TypeOK
    <2>4. q \in 1..Len(feed[req[r].item])
      BY <2>1, <2>2, <2>3
    <2>5. UpdateAt(r, q)' = UpdateAt(r, q)
      BY <2>1, <2>2, <2>4, NothingForgotten DEF UpdateAt
    <2>6. req[r].item \in DOMAIN plaid_items
      BY <1>0, <2>1 DEF HoldsOwned, Importing
    <2> QED
      BY <2>1, <2>4, <2>5, <2>6
  <1>5. ASSUME ~FetchPage(r), q \in DoneWith(r)
        PROVE  /\ Ahead(req[r].item, q, r)
               /\ UpdateAt(r, q).tx \in DOMAIN transactions
    <2>1. Ahead(req[r].item, q, r)
      BY <1>4, <1>5 DEF IInv, DoneAhead, Unpassed, NotPast, Ahead
    <2>2. UpdateAt(r, q).tx \in DOMAIN transactions
      BY <1>0, <1>4, <1>5 DEF DoneWith, HoldsCovered, Handled
    <2> QED
      BY <2>1, <2>2
  <1>6. ASSUME ~FetchPage(r), q \notin DoneWith(r)
        PROVE  Ahead(req[r].item, q, r) /\ req'[r] # req[r]
    <2>1. /\ q \in (req[r].cursor + 1)..req[r].next
          /\ UpdateAt(r, q).kind = "added"
          /\ UpdateAt(r, q).tx \notin skipped'
      BY <1>1, <1>3, <1>4, <1>6
    <2>2. UpdateAt(r, q).tx \notin skipped
      BY <2>1, NothingForgotten
    <2>3. q \in req[r].added
      BY <1>6, <2>1, <2>2 DEF DoneWith
    <2>4. PICK p \in 1..MaxUpdates :
            /\ SkipAdded(r, p) \/ StoreAdded(r, p)
            /\ req'[r].added = req[r].added \ {p}
            /\ req'[r] # req[r]
      BY <1>1, <1>3, <1>6, <2>3
    <2>5. p = q
      BY <1>1, <2>3, <2>4
    <2>6. StoreAdded(r, q)
      BY <2>1, <2>4, <2>5 DEF SkipAdded
    <2>7. ~Handled(UpdateAt(r, q).tx)
      BY <2>2, <2>6 DEF StoreAdded, Handled
    <2>8. req[r].item \in Items
      BY <1>3, <1>6 DEF PageStage
    <2>9. Ahead(req[r].item, q, r)
      BY <1>4, <1>6, <2>1, <2>7, <2>8, UnhandledIsAhead DEF Ahead, UpdateAt
    <2> QED
      BY <2>4, <2>9
  <1> QED
    BY <1>1, <1>2, <1>4, <1>5, <1>6

\* No step of another request overtakes such a position.
LEMMA OthersStayBehind ==
  ASSUME IInv, TypeInv, TypeInv', Next, NEW r \in Requests,
         NEW o \in Requests \ {r}, req'[r].pc = "page",
         NEW q \in DoneWith(r)'
  PROVE  LET i == req'[r].item IN
         /\ Listing(o)' /\ i \in DOMAIN req'[o].todo => req'[o].todo[i] < q
         /\ Importing(o)' /\ req'[o].item = i => req'[o].cursor < q
         /\ req'[o].pc = "page" /\ req'[o].item = i /\ q <= req'[o].next
              => q \in req'[o].added
  <1> DEFINE i == req[r].item
             Behind == /\ Listing(o)' /\ i \in DOMAIN req'[o].todo
                            => req'[o].todo[i] < q
                       /\ Importing(o)' /\ req'[o].item = i => req'[o].cursor < q
                       /\ req'[o].pc = "page" /\ req'[o].item = i
                          /\ q <= req'[o].next => q \in req'[o].added
  <1>0. /\ TypeOK /\ TypeOK' /\ req[o] \in Request /\ o \in Requests
        /\ PageInFeed(o) /\ HoldsCovered(o)
    BY DEF IInv, TypeInv, TypeOK
  <1>1. /\ req[r].pc = "page" /\ req'[r].item = i
        /\ UpdateAt(r, q)' = UpdateAt(r, q)
        /\ UpdateAt(r, q).kind = "added"
        /\ UpdateAt(r, q).tx \notin skipped'
        /\ i \in DOMAIN plaid_items
        /\ q \in 1..Len(feed[i])
        /\ Ahead(i, q, r)
        /\ req'[r] = req[r] => UpdateAt(r, q).tx \in DOMAIN transactions
    BY StoredWasAhead
  <1>2. /\ plaid_items[i].cursor < q
        /\ Listing(o) /\ i \in DOMAIN req[o].todo => req[o].todo[i] < q
        /\ Importing(o) /\ req[o].item = i => req[o].cursor < q
        /\ req[o].pc = "page" /\ req[o].item = i /\ q <= req[o].next
             => q \in req[o].added
    BY <1>1 DEF Ahead
  <1> HIDE DEF i
  <1>3. ASSUME req'[o] = req[o] \/ req'[o] = Idle
        PROVE  Behind
    BY <1>2, <1>3 DEF Listing, Importing, Idle
  <1>4. ASSUME NEW u \in Users, SyncTransactions(o, u)
        PROVE  Behind
    <2>1. req'[o] = [pc |-> "next", user |-> u,
                     todo |-> GetPlaidItemsByUserID(plaid_items, u)]
      BY <1>0, <1>4 DEF SyncTransactions, Goto, TypeOK
    <2>2. i \in DOMAIN GetPlaidItemsByUserID(plaid_items, u) =>
            GetPlaidItemsByUserID(plaid_items, u)[i] = plaid_items[i].cursor
      BY <1>0, ListType
    <2> QED
      BY <1>2, <2>1, <2>2 DEF Listing, Importing
  <1>5. ASSUME NEW j \in Items, BeginItem(o, j)
        PROVE  Behind
    <2>1. /\ req'[o].pc = "fetch" /\ req'[o].item = j
          /\ req'[o].cursor = req[o].todo[j]
          /\ req'[o].todo = [k \in DOMAIN req[o].todo \ {j} |-> req[o].todo[k]]
      BY <1>0, <1>5 DEF BeginItem, Goto, TypeOK
    <2>2. Listing(o) /\ j \in DOMAIN req[o].todo
      BY <1>5 DEF BeginItem, Listing
    <2> QED
      BY <1>2, <2>1, <2>2 DEF Listing, Importing
  <1>6. ASSUME FetchPage(o)
        PROVE  Behind
    <2> DEFINE page == SyncResult(feed[req[o].item], req[o].cursor)
    <2>1. req[o].pc = "fetch" /\ req[o] \in FetchStage
      BY <1>0, <1>6, StageOf DEF FetchPage
    <2>2. req[o].item \in Items /\ req[o].cursor \in Cursors
      BY <2>1 DEF FetchStage
    <2>3. feed[req[o].item] \in Seq(Update) /\ Len(feed[req[o].item]) \in Cursors
      BY <1>0, <2>2 DEF TypeOK
    <2>4. /\ page.next \in Cursors
          /\ \A p \in (req[o].cursor + 1)..page.next :
               feed[req[o].item][p].kind = "added" => p \in page.added
      BY <2>2, <2>3, PageShape
    <2>5. /\ req'[o].pc = "page" /\ req'[o].item = req[o].item
          /\ req'[o].cursor = req[o].cursor /\ req'[o].todo = req[o].todo
          /\ req'[o].added = page.added /\ req'[o].next = page.next
      BY <1>0, <1>6 DEF FetchPage, Goto, TypeOK
    <2>6. Listing(o) /\ Importing(o)
      BY <2>1 DEF Listing, Importing
    <2> HIDE DEF page
    <2>7. ASSUME req[o].item = i, q <= page.next
          PROVE  q \in page.added
      <3>1. req[o].cursor < q
        BY <1>2, <2>6, <2>7
      <3>2. q \in (req[o].cursor + 1)..page.next
        BY <1>1, <2>2, <2>4, <2>7, <3>1 DEF Cursors
      <3>3. feed[req[o].item][q].kind = "added"
        BY <1>1, <2>7 DEF UpdateAt, i
      <3> QED
        BY <2>4, <3>2, <3>3
    <2> QED
      BY <1>2, <2>5, <2>6, <2>7
  <1>7. ASSUME NEW p \in 1..MaxUpdates,
               SkipAdded(o, p) \/ StoreAdded(o, p) \/ ApplyModified(o, p)
        PROVE  Behind
    <2>1. req[o].pc = "page" /\ req[o] \in PageStage
      BY <1>0, <1>7, StageOf DEF SkipAdded, StoreAdded, ApplyModified, AtAdded
    <2>2. /\ req'[o].item = req[o].item /\ req'[o].cursor = req[o].cursor
          /\ req'[o].todo = req[o].todo /\ req'[o].next = req[o].next
          /\ req'[o].pc = "page"
      BY <1>0, <1>7, <2>1
         DEF SkipAdded, StoreAdded, ApplyModified, Goto, TypeOK, PageStage
    <2>3. Listing(o) /\ Importing(o)
      BY <2>1 DEF Listing, Importing
    <2>4. ASSUME req[o].item = i, q \in req[o].added
          PROVE  q \in req'[o].added
      <3>1. CASE ApplyModified(o, p)
        BY <1>0, <2>1, <2>4, <3>1 DEF ApplyModified, Goto, TypeOK, PageStage
      <3>2. CASE SkipAdded(o, p) \/ StoreAdded(o, p)
        <4>1. req'[o].added = req[o].added \ {p}
          BY <1>0, <2>1, <3>2 DEF SkipAdded, StoreAdded, Goto, TypeOK, PageStage
        <4>2. UpdateAt(o, q) = UpdateAt(r, q)
          BY <2>4 DEF UpdateAt, i
        <4>3. req'[r] = req[r]
          BY <1>0, <3>2 DEF SkipAdded, StoreAdded, Goto, TypeOK
        <4>4. p # q
          BY <1>1, <3>2, <4>2, <4>3 DEF SkipAdded, StoreAdded
        <4> QED
          BY <2>4, <4>1, <4>4
      <3> QED
        BY <1>7, <3>1, <3>2
    <2> QED
      BY <1>2, <2>1, <2>2, <2>3, <2>4
  <1>8. ASSUME SaveCursor(o)
        PROVE  Behind
    <2>1. /\ req[o].pc = "page" /\ req[o] \in PageStage /\ req[o].added = {}
      BY <1>0, <1>8, StageOf DEF SaveCursor, PageDone, NextCursor
    <2>2. req[o].next \in Nat /\ q \in Nat
      BY <1>1, <2>1 DEF PageStage, Cursors
    <2>3. req[o].item = i => req[o].next < q
      BY <1>2, <2>1, <2>2
    <2>4. /\ req'[o].pc \in {"fetch", "next"} /\ req'[o].todo = req[o].todo
          /\ req'[o].pc = "fetch" => /\ req'[o].item = req[o].item
                                     /\ req'[o].cursor = req[o].next
      BY <1>0, <1>8 DEF SaveCursor, PageDone, NextCursor, Goto, TypeOK
    <2> QED
      BY <1>2, <2>1, <2>3, <2>4 DEF Listing, Importing
  <1>9. ASSUME \/ \E u \in Users, j \in Items : ExchangePublicToken(o, u, j)
               \/ StorePlaidItem(o)
               \/ GetAccounts(o)
               \/ \E a \in Accounts : StoreAccount(o, a)
        PROVE  Behind
    <2>1. req'[o].pc \notin {"next", "fetch", "page"}
      BY <1>0, <1>9, StageOf
         DEF ExchangePublicToken, StorePlaidItem, GetAccounts, StoreAccount,
             Goto, Idle, TypeOK, ExchangeStage
    <2> QED
      BY <2>1 DEF Listing, Importing
  <1>10. ASSUME ExchangeDone(o) \/ SyncDone(o)
                \/ \E p \in 1..MaxUpdates : RejectAdded(o, p)
         PROVE  Behind
    <2>1. req'[o] = Idle
      BY <1>0, <1>10 DEF ExchangeDone, SyncDone, RejectAdded, Goto, TypeOK,
                         ErrNoRows, ToleratedError
    <2> QED
      BY <1>3, <2>1
  <1> HIDE DEF Behind
  <1>11. ASSUME NEW x \in Requests, x # o,
                \/ \E u \in Users, j \in Items : ExchangePublicToken(x, u, j)
                \/ \E u \in Users : SyncTransactions(x, u)
                \/ Proceed(x)
         PROVE  Behind
    <2>1. req'[o] = req[o]
      BY <1>0, <1>11, OneSlot
    <2> QED
      BY <1>3, <2>1
  <1>12. ASSUME Publish \/ (\E x \in Requests : Fail(x)) \/ Crash
         PROVE  Behind
    BY <1>0, <1>3, <1>12, FeedGrows, FailureIdles DEF TypeOK
  <1>13. Behind
    <2>1. CASE \E x \in Requests :
                 \/ \E u \in Users, j \in Items : ExchangePublicToken(x, u, j)
                 \/ \E u \in Users : SyncTransactions(x, u)
                 \/ Proceed(x)
      <3>1. PICK x \in Requests :
              \/ \E u \in Users, j \in Items : ExchangePublicToken(x, u, j)
              \/ \E u \in Users : SyncTransactions(x, u)
              \/ Proceed(x)
        BY <2>1
      <3>2. CASE x # o
        BY <1>11, <3>1, <3>2
      <3>3. CASE x = o
        BY <1>4, <1>5, <1>6, <1>7, <1>8, <1>9, <1>10, <3>1, <3>3 DEF Proceed
      <3> QED
        BY <3>2, <3>3
    <2> QED
      BY <1>12, <2>1 DEF Next
  <1> QED
    BY <1>1, <1>13 DEF Behind

\* Nor does the saved cursor overtake it.
LEMMA SavedStaysBehind ==
  ASSUME IInv, TypeInv, TypeInv', Next, NEW r \in Requests,
         req'[r].pc = "page", NEW q \in DoneWith(r)'
  PROVE  plaid_items'[req'[r].item].cursor < q
  <1> DEFINE i == req[r].item
  <1>0. /\ TypeOK /\ \A o \in Requests : req[o] \in Request
        /\ plaid_items \in PartialFunctions(Items, PlaidItem(Users, Cursors))
    BY DEF TypeInv, TypeOK
  <1>1. /\ req[r].pc = "page" /\ req'[r].item = i
        /\ i \in DOMAIN plaid_items
        /\ q \in 1..Len(feed[i])
        /\ Ahead(i, q, r)
    BY StoredWasAhead
  <1> HIDE DEF i
  <1>2. plaid_items[i].cursor < q
    BY <1>1 DEF Ahead
  <1>3. CASE UNCHANGED plaid_items
    BY <1>1, <1>2, <1>3
  <1>4. ASSUME NEW o \in Requests, StorePlaidItem(o)
        PROVE  plaid_items'[i].cursor < q
    BY <1>1, <1>2, <1>4 DEF StorePlaidItem, ItemTaken, CreatePlaidItem, Insert
  <1>5. ASSUME NEW o \in Requests, SaveCursor(o)
        PROVE  plaid_items'[i].cursor < q
    <2>1. req[o].pc = "page" /\ req[o] \in PageStage /\ req[o].added = {}
      BY <1>0, <1>5, StageOf DEF SaveCursor, PageDone, NextCursor
    <2>2. req[o].next \in Cursors /\ req[o].next \in Nat /\ q \in Nat
      BY <1>1, <2>1 DEF PageStage, Cursors
    <2>3. plaid_items'[i].cursor =
            IF i = req[o].item THEN req[o].next ELSE plaid_items[i].cursor
      BY <1>0, <1>1, <1>5, <2>2, CursorRow DEF SaveCursor, PageDone, NextCursor
    <2>4. o # r
      <3>1. CASE o = r
        BY <1>0, <1>5, <3>1 DEF SaveCursor, PageDone, NextCursor, Goto, TypeOK
      <3> QED
        BY <3>1
    <2>5. req[o].item = i => req[o].next < q
      BY <1>1, <2>1, <2>2, <2>4 DEF Ahead
    <2> QED
      BY <1>2, <2>3, <2>5
  <1> QED
    BY <1>1, <1>3, <1>4, <1>5
       DEF Next, Proceed, tables, Publish, PublishAdded, PublishModified,
           PublishRemoved, Append1, Fail, Crash, ExchangePublicToken,
           GetAccounts, StoreAccount, ExchangeDone, SyncTransactions,
           BeginItem, FetchPage, SkipAdded, StoreAdded, RejectAdded,
           ApplyModified, SyncDone

LEMMA IInvInit == Init => IInv
  <1> SUFFICES ASSUME Init PROVE IInv
    OBVIOUS
  <1>1. \A r \in Requests : req[r].pc = "idle"
    BY DEF Init, Idle
  <1> QED
    BY <1>1, CoverInit, OwnerInit
       DEF IInv, CoverInv, OwnerInv, TypeInv, DoneAhead

LEMMA IInvStep == IInv /\ [Next]_vars => IInv'
  <1> SUFFICES ASSUME IInv, [Next]_vars PROVE IInv'
    OBVIOUS
  <1>1. CoverInv /\ OwnerInv /\ TypeInv
    BY DEF IInv, CoverInv, OwnerInv, TypeInv
  <1>2. CoverInv' /\ OwnerInv' /\ TypeInv'
    BY <1>1, CoverStep, OwnerStep, TypeStep
  <1>3. ASSUME Next
        PROVE  (\A r, o \in Requests : req[r].pc = "page" /\ r # o => Unpassed(r, o))'
    <2>1. ASSUME NEW r \in Requests, NEW o \in Requests, r # o,
                 req'[r].pc = "page", NEW q \in DoneWith(r)'
          PROVE  LET i == req'[r].item IN
                 /\ Listing(o)' /\ i \in DOMAIN req'[o].todo => req'[o].todo[i] < q
                 /\ Importing(o)' /\ req'[o].item = i => req'[o].cursor < q
                 /\ req'[o].pc = "page" /\ req'[o].item = i /\ q <= req'[o].next
                      => q \in req'[o].added
      BY <1>1, <1>2, <1>3, <2>1, OthersStayBehind
    <2> QED
      BY <2>1 DEF Unpassed, NotPast
  <1>4. ASSUME Next
        PROVE  DoneAhead'
    <2>1. ASSUME NEW r \in Requests, req'[r].pc = "page",
                 NEW q \in DoneWith(r)'
          PROVE  plaid_items'[req'[r].item].cursor < q
      BY <1>1, <1>2, <1>4, <2>1, SavedStaysBehind
    <2> QED
      BY <2>1 DEF DoneAhead
  <1>5. CASE UNCHANGED vars
    BY <1>5 DEF IInv, TypeOK, PageInFeed, HoldsCovered, HoldsOwned,
                AccountsLinked, CursorCovers, OwnerConsistent, Unpassed, NotPast,
                DoneAhead, DoneWith, Covered, Handled,
                Listing, Importing, UpdateAt, vars
  <1> QED
    BY <1>2, <1>3, <1>4, <1>5 DEF IInv, CoverInv, OwnerInv, TypeInv

\* Whatever syncs of one item overlap, what a request has stored from its page
\* stays ahead of the saved cursor until it saves its own, unless a request
\* that did not know the account has skipped it.
THEOREM StoredIsAhead == Spec => []CreatorAheadOfCursor
  <1>1. ASSUME NEW r \in Requests, NEW p \in StoredFromPage(r),
               UpdateAt(r, p).tx \notin skipped
        PROVE  p \in DoneWith(r)
    BY <1>1 DEF StoredFromPage, DoneWith
  <1>2. IInv => CreatorAheadOfCursor
    BY <1>1 DEF IInv, DoneAhead, CreatorAheadOfCursor
  <1> QED
    BY <1>2, IInvInit, IInvStep, PTL DEF Spec

----------------------------------------------------------------------------
(* What Plaid publishes.                                                   *)

\* An item's feed is about its own transactions, and begins each of them by
\* adding it, once.
FeedOk(f, i) ==
  /\ \A p \in 1..Len(f) :
       /\ ItemOf(f[p].tx) = i
       /\ \E q \in 1..Len(f) : f[q].kind = "added" /\ f[q].tx = f[p].tx
  /\ \A p, q \in 1..Len(f) :
       f[q].kind = "added" /\ f[p].tx = f[q].tx => q <= p

FeedInv == \A i \in Items : FeedOk(feed[i], i)

LEMMA AppendShape ==
  ASSUME TypeOK, NEW t \in Transactions, NEW k \in {"added", "modified", "removed"},
         NEW b \in BOOLEAN, Append1(t, k, b)
  PROVE  \E n \in Nat :
           /\ ItemOf(t) \in Items
           /\ n = Len(feed[ItemOf(t)]) + 1 /\ Len(feed'[ItemOf(t)]) = n
           /\ feed'[ItemOf(t)][n] = [kind |-> k, tx |-> t, pending |-> b]
           /\ \A p \in 1..(n - 1) : feed'[ItemOf(t)][p] = feed[ItemOf(t)][p]
           /\ \A i \in Items : i # ItemOf(t) => feed'[i] = feed[i]
  <1> DEFINE i == ItemOf(t)
             e == [kind |-> k, tx |-> t, pending |-> b]
  <1>1. i \in Items /\ e \in Update
    BY LinkAssumption DEF ItemOf, Update
  <1>2. feed[i] \in Seq(Update) /\ feed \in [Items -> Seq(Update)]
    BY <1>1 DEF TypeOK
  <1>3. feed' = [feed EXCEPT ![i] = Append(@, e)]
    BY DEF Append1
  <1>4. /\ Len(feed[i]) \in Nat
        /\ Len(Append(feed[i], e)) = Len(feed[i]) + 1
        /\ Append(feed[i], e)[Len(feed[i]) + 1] = e
        /\ \A p \in 1..Len(feed[i]) : Append(feed[i], e)[p] = feed[i][p]
    BY <1>1, <1>2
  <1> HIDE DEF i, e
  <1>5. feed'[i] = Append(feed[i], e) /\ \A j \in Items : j # i => feed'[j] = feed[j]
    BY <1>1, <1>2, <1>3
  <1>6. Len(feed[i]) + 1 \in Nat /\ (Len(feed[i]) + 1) - 1 = Len(feed[i])
    BY <1>4
  <1>7. WITNESS Len(feed[i]) + 1 \in Nat
  <1> QED
    BY <1>1, <1>4, <1>5, <1>6 DEF i, e

LEMMA FeedStep ==
  ASSUME TypeOK, FeedInv, [Next]_vars
  PROVE  FeedInv'
  <1>1. ASSUME NEW t \in Transactions, NEW k \in {"added", "modified", "removed"},
               NEW b \in BOOLEAN, Append1(t, k, b),
               k = "added" <=> ~Mentions(t, "added")
        PROVE  FeedInv'
    <2>1. PICK n \in Nat :
           /\ ItemOf(t) \in Items
           /\ n = Len(feed[ItemOf(t)]) + 1 /\ Len(feed'[ItemOf(t)]) = n
           /\ feed'[ItemOf(t)][n] = [kind |-> k, tx |-> t, pending |-> b]
           /\ \A p \in 1..(n - 1) : feed'[ItemOf(t)][p] = feed[ItemOf(t)][p]
           /\ \A i \in Items : i # ItemOf(t) => feed'[i] = feed[i]
      BY <1>1, AppendShape
    <2>2. PICK i \in Items : i = ItemOf(t)
      BY <2>1
    <2>3. PICK f : f = feed[i]
      OBVIOUS
    <2>4. PICK g : g = feed'[i]
      OBVIOUS
    <2>5. /\ n \in Nat /\ Len(f) = n - 1 /\ Len(g) = n /\ n >= 1
          /\ g[n].kind = k /\ g[n].tx = t
          /\ \A p \in 1..(n - 1) : g[p] = f[p]
      <3>1. Len(f) \in Nat
        BY <2>3 DEF TypeOK
      <3> QED
        BY <2>1, <2>2, <2>3, <2>4, <3>1
    <2>6. /\ \A p \in 1..(n - 1) :
               /\ ItemOf(f[p].tx) = i
               /\ \E q \in 1..(n - 1) : f[q].kind = "added" /\ f[q].tx = f[p].tx
          /\ \A p, q \in 1..(n - 1) :
               f[q].kind = "added" /\ f[p].tx = f[q].tx => q <= p
      <3>1. /\ \A p \in 1..Len(f) :
                 /\ ItemOf(f[p].tx) = i
                 /\ \E q \in 1..Len(f) : f[q].kind = "added" /\ f[q].tx = f[p].tx
            /\ \A p, q \in 1..Len(f) :
                 f[q].kind = "added" /\ f[p].tx = f[q].tx => q <= p
        BY <2>3 DEF FeedInv, FeedOk
      <3>2. Len(f) = n - 1
        BY <2>5
      <3> QED
        BY <3>1, <3>2
    <2>7. k = "added" <=> ~\E p \in 1..(n - 1) : f[p].tx = t /\ f[p].kind = "added"
      BY <1>1, <2>2, <2>3, <2>5 DEF Mentions
    <2>8. \A p \in 1..n : p \in 1..(n - 1) \/ p = n
      BY <2>5
    <2>9. ASSUME NEW p \in 1..n
          PROVE  /\ ItemOf(g[p].tx) = i
                 /\ \E q \in 1..n : g[q].kind = "added" /\ g[q].tx = g[p].tx
      <3>1. \A q \in 1..(n - 1) : q \in 1..n
        OBVIOUS
      <3>2. CASE p \in 1..(n - 1)
        BY <2>5, <2>6, <3>1, <3>2
      <3>3. CASE p = n
        BY <2>2, <2>5, <2>7, <3>1, <3>3
      <3> QED
        BY <2>8, <3>2, <3>3
    <2>10. ASSUME NEW p \in 1..n, NEW q \in 1..n,
                  g[q].kind = "added", g[p].tx = g[q].tx
           PROVE  q <= p
      <3>1. CASE p \in 1..(n - 1) /\ q \in 1..(n - 1)
        BY <2>5, <2>6, <2>10, <3>1
      <3>2. CASE p = n
        BY <3>2
      <3>3. CASE p \in 1..(n - 1) /\ q = n
        BY <2>5, <2>6, <2>7, <2>10, <3>3
      <3> QED
        BY <2>8, <3>1, <3>2, <3>3
    <2>11. \A j \in Items : j # i => feed'[j] = feed[j]
      BY <2>1, <2>2
    <2>12. FeedOk(g, i)
      BY <2>5, <2>9, <2>10 DEF FeedOk
    <2>13. ASSUME NEW j \in Items
           PROVE  FeedOk(feed'[j], j)
      <3>1. PICK h : h = feed'[j]
        OBVIOUS
      <3>2. FeedOk(h, j)
        BY <2>4, <2>11, <2>12, <3>1 DEF FeedInv
      <3> QED
        BY <3>1, <3>2
    <2> QED
      BY <2>13 DEF FeedInv, FeedOk, ItemOf
  <1>2. CASE Publish
    BY <1>1, <1>2 DEF Publish, PublishAdded, PublishModified, PublishRemoved
  <1>3. CASE UNCHANGED feed
    BY <1>3 DEF FeedInv, FeedOk, ItemOf
  <1> QED
    BY <1>2, <1>3
       DEF Next, Proceed, vars, Fail, Crash, ExchangePublicToken, StorePlaidItem,
           GetAccounts, StoreAccount, ExchangeDone, SyncTransactions, BeginItem,
           FetchPage, SkipAdded, StoreAdded, RejectAdded, ApplyModified,
           SaveCursor, SyncDone

----------------------------------------------------------------------------
(* A page cut off half way stays so.                                       *)

\* Only the request at a page of an item moves the item's cursor.
LEMMA CursorsElsewhere ==
  ASSUME TypeOK, NEW r \in Requests,
         \/ \E u \in Users, i \in Items : ExchangePublicToken(r, u, i)
         \/ \E u \in Users : SyncTransactions(r, u)
         \/ Proceed(r),
         NEW i \in DOMAIN plaid_items, ~(req[r].pc = "page" /\ req[r].item = i)
  PROVE  plaid_items'[i].cursor = plaid_items[i].cursor
  <1>1. CASE SaveCursor(r)
    <2>1. req[r].pc = "page" /\ req[r] \in PageStage
      BY <1>1, StageOf DEF SaveCursor, TypeOK
    <2>2. req[r].item \in Items /\ req[r].next \in Cursors
      BY <2>1 DEF PageStage
    <2> QED
      BY <1>1, <2>1, <2>2, CursorRow DEF SaveCursor, NextCursor, TypeOK
  <1>2. CASE StorePlaidItem(r)
    BY <1>2 DEF StorePlaidItem, ItemTaken, CreatePlaidItem, Insert
  <1>3. CASE UNCHANGED plaid_items
    BY <1>3
  <1> QED
    BY <1>1, <1>2, <1>3
       DEF Proceed, tables, ExchangePublicToken, GetAccounts, StoreAccount,
           ExchangeDone, SyncTransactions, BeginItem, FetchPage, SkipAdded,
           StoreAdded, RejectAdded, ApplyModified, SyncDone

HalfInv == OwnerInv /\ FeedInv

\* The account of what a feed adds belongs to the feed's item.
LEMMA AccountOfAdded ==
  ASSUME HalfInv, NEW i \in Items, NEW p \in 1..MaxUpdates, HalfImported(i, p)
  PROVE  /\ p \in 1..Len(feed[i])
         /\ TxAccount[feed[i][p].tx] \in
              GetPlaidAccountsByItemID(plaid_accounts, AccountItem, i)
  <1>1. /\ p \in 1..Len(feed[i]) /\ FeedOk(feed[i], i)
        /\ feed[i][p].tx \in DOMAIN transactions
    BY DEF HalfInv, FeedInv, HalfImported, OwnerInv, TypeInv, TypeOK
  <1>2. ItemOf(feed[i][p].tx) = i /\ TxAccount[feed[i][p].tx] \in plaid_accounts
    BY <1>1 DEF FeedOk, HalfInv, OwnerInv, OwnerConsistent
  <1> QED
    BY <1>1, <1>2 DEF ItemOf, GetPlaidAccountsByItemID

\* A request that acts still comes to the stored transaction, or ends.
LEMMA ActorNotPast ==
  ASSUME HalfInv, NEW r \in Requests, NEW i \in Items, NEW p \in 1..MaxUpdates,
         HalfImported(i, p), NEW a, a = TxAccount[feed[i][p].tx],
         \/ \E u \in Users, j \in Items : ExchangePublicToken(r, u, j)
         \/ \E u \in Users : SyncTransactions(r, u)
         \/ Proceed(r)
  PROVE  /\ NotPast(r, i, p)'
         /\ Importing(r)' /\ req'[r].item = i => a \in req'[r].accounts
  <1> DEFINE Reaches == /\ NotPast(r, i, p)'
                        /\ Importing(r)' /\ req'[r].item = i
                             => a \in req'[r].accounts
  <1>0. /\ TypeInv /\ TypeOK /\ req \in [Requests -> Request] /\ req[r] \in Request
        /\ NotPast(r, i, p)
        /\ Importing(r) /\ req[r].item = i => a \in req[r].accounts
        /\ plaid_items[i].cursor < p /\ feed[i][p].kind = "added"
        /\ feed[i][p].tx \in DOMAIN transactions
    BY DEF HalfInv, OwnerInv, TypeInv, TypeOK, HalfImported
  <1>1. ASSUME \/ \E u \in Users, j \in Items : ExchangePublicToken(r, u, j)
               \/ StorePlaidItem(r)
               \/ GetAccounts(r)
               \/ \E b \in Accounts : StoreAccount(r, b)
               \/ ExchangeDone(r)
               \/ SyncDone(r)
        PROVE  Reaches
    <2>1. req'[r].pc \in {"idle", "item", "accounts", "account"}
      BY <1>0, <1>1, StageOf
         DEF ExchangePublicToken, StorePlaidItem, GetAccounts, StoreAccount,
             ExchangeDone, SyncDone, Goto, Idle, ExchangeStage
    <2> QED
      BY <2>1 DEF NotPast, Listing, Importing
  <1>2. ASSUME NEW u \in Users, SyncTransactions(r, u)
        PROVE  Reaches
    <2> DEFINE todo == GetPlaidItemsByUserID(plaid_items, u)
    <2>1. req'[r] = [pc |-> "next", user |-> u, todo |-> todo]
      BY <1>0, <1>2 DEF SyncTransactions, Goto
    <2>2. i \in DOMAIN todo => todo[i] = plaid_items[i].cursor
      BY <1>0, ListType
    <2> HIDE DEF todo
    <2> QED
      BY <1>0, <2>1, <2>2 DEF NotPast, Listing, Importing
  <1>3. ASSUME NEW j \in Items, BeginItem(r, j)
        PROVE  Reaches
    <2> DEFINE Own == GetPlaidAccountsByItemID(plaid_accounts, AccountItem, j)
    <2>1. /\ req'[r].pc = "fetch" /\ req'[r].item = j
          /\ req'[r].cursor = req[r].todo[j] /\ req'[r].accounts = Own
          /\ req'[r].todo = [k \in DOMAIN req[r].todo \ {j} |-> req[r].todo[k]]
      BY <1>0, <1>3 DEF BeginItem, Goto
    <2>2. j \in DOMAIN req[r].todo /\ Listing(r)
      BY <1>3 DEF BeginItem, Listing
    <2>3. i = j => a \in Own
      BY AccountOfAdded
    <2> HIDE DEF Own
    <2> QED
      BY <1>0, <2>1, <2>2, <2>3 DEF NotPast, Listing, Importing
  <1>4. ASSUME FetchPage(r)
        PROVE  Reaches
    <2> DEFINE q == req[r]
               page == SyncResult(feed[q.item], q.cursor)
    <2>1. /\ req'[r].pc = "page" /\ req'[r].item = q.item
          /\ req'[r].cursor = q.cursor /\ req'[r].todo = q.todo
          /\ req'[r].accounts = q.accounts
          /\ req'[r].added = page.added /\ req'[r].next = page.next
      BY <1>0, <1>4 DEF FetchPage, Goto
    <2>2. q.pc = "fetch" /\ q.cursor \in Nat
      BY <1>0, <1>4, StageOf DEF FetchPage, FetchStage, Cursors
    <2>3. page.added = Positions(feed[q.item], q.cursor, page.next, "added")
      BY DEF SyncResult
    <2>4. page.next \in Nat \/ page.next = Len(feed[q.item])
      BY <2>2, BoundAssumption DEF SyncResult, PageEnd
    <2>5. q.item = i => Len(feed[i]) \in Nat
      BY <1>0 DEF TypeOK, Cursors
    <2> HIDE DEF page
    <2>6. q.item = i /\ q.cursor < p /\ p <= page.next => p \in page.added
      BY <1>0, <2>2, <2>3, <2>4, <2>5 DEF Positions
    <2> QED
      BY <1>0, <2>1, <2>2, <2>6 DEF NotPast, Listing, Importing
  <1>5. ASSUME NEW b \in 1..MaxUpdates,
               SkipAdded(r, b) \/ StoreAdded(r, b) \/ ApplyModified(r, b)
        PROVE  Reaches
    <2>1. req[r].pc = "page" /\ req[r] \in PageStage
      BY <1>0, <1>5, StageOf DEF SkipAdded, StoreAdded, ApplyModified, AtAdded
    <2>2. /\ req'[r].pc = "page" /\ req'[r].item = req[r].item
          /\ req'[r].cursor = req[r].cursor /\ req'[r].todo = req[r].todo
          /\ req'[r].accounts = req[r].accounts /\ req'[r].next = req[r].next
          /\ req'[r].added \in {req[r].added, req[r].added \ {b}}
      BY <1>0, <1>5, <2>1
         DEF SkipAdded, StoreAdded, ApplyModified, Goto, PageStage
    <2>3. req[r].item = i /\ p \in req[r].added => p \in req'[r].added
      <3>1. CASE SkipAdded(r, b)
        BY <1>0, <2>1, <2>2, <3>1
           DEF SkipAdded, AccountKnown, UpdateAt, Importing
      <3>2. CASE StoreAdded(r, b)
        BY <1>0, <2>2, <3>2 DEF StoreAdded, UpdateAt
      <3>3. CASE ApplyModified(r, b)
        BY <3>3 DEF ApplyModified
      <3> QED
        BY <1>5, <3>1, <3>2, <3>3
    <2> QED
      BY <1>0, <2>1, <2>2, <2>3 DEF NotPast, Listing, Importing
  <1>6. ASSUME NEW b \in 1..MaxUpdates, RejectAdded(r, b)
        PROVE  Reaches
    <2>1. req'[r] = Idle
      BY <1>0, <1>6 DEF RejectAdded, ErrNoRows, ToleratedError, Goto
    <2> QED
      BY <2>1 DEF NotPast, Listing, Importing, Idle
  <1>7. ASSUME SaveCursor(r)
        PROVE  Reaches
    <2>1. /\ req[r].pc = "page" /\ req[r].added = {}
          /\ req'[r].pc \in {"fetch", "next"} /\ req'[r].todo = req[r].todo
          /\ req'[r].pc = "fetch" => /\ req'[r].item = req[r].item
                                     /\ req'[r].cursor = req[r].next
                                     /\ req'[r].accounts = req[r].accounts
      BY <1>0, <1>7 DEF SaveCursor, PageDone, NextCursor, Goto
    <2>2. req[r].next \in Nat
      BY <1>0, <2>1, StageOf DEF PageStage, Cursors
    <2>3. req[r].item = i => req[r].next < p
      BY <1>0, <2>1, <2>2 DEF NotPast
    <2> QED
      BY <1>0, <2>1, <2>3 DEF NotPast, Listing, Importing
  <1> QED
    BY <1>1, <1>2, <1>3, <1>4, <1>5, <1>6, <1>7 DEF Proceed

LEMMA HalfStays ==
  ASSUME HalfInv, [Next]_vars, NEW i \in Items, NEW p \in 1..MaxUpdates,
         HalfImported(i, p)
  PROVE  HalfImported(i, p)'
  <1>0. /\ TypeInv /\ TypeOK /\ req \in [Requests -> Request]
        /\ \A r \in Requests : req[r] \in Request
        /\ i \in DOMAIN plaid_items /\ plaid_items[i].cursor < p
        /\ p \in 1..Len(feed[i])
        /\ feed[i][p].kind = "added" /\ feed[i][p].tx \in DOMAIN transactions
    BY AccountOfAdded DEF HalfInv, OwnerInv, TypeInv, TypeOK, HalfImported
  <1>1. /\ i \in DOMAIN plaid_items' /\ p <= Len(feed'[i])
        /\ feed'[i][p] = feed[i][p]
        /\ DOMAIN transactions \subseteq DOMAIN transactions'
    <2>1. /\ Len(feed[i]) <= Len(feed'[i]) /\ feed'[i][p] = feed[i][p]
          /\ DOMAIN plaid_items \subseteq DOMAIN plaid_items'
          /\ DOMAIN transactions \subseteq DOMAIN transactions'
      BY <1>0, NothingForgotten
    <2>2. Len(feed[i]) \in Nat /\ Len(feed'[i]) \in Nat
      BY <1>0, TypeStep DEF TypeInv, TypeOK, Cursors
    <2> QED
      BY <1>0, <2>1, <2>2
  <1>2. PICK a : a = TxAccount[feed[i][p].tx]
    OBVIOUS
  <1>3. \A r \in Requests :
          /\ NotPast(r, i, p)
          /\ Importing(r) /\ req[r].item = i => a \in req[r].accounts
    BY <1>2 DEF HalfImported
  <1>4. ASSUME \A r \in Requests : req'[r] = req[r] \/ req'[r] = Idle,
               UNCHANGED plaid_items
        PROVE  HalfImported(i, p)'
    <2>1. \A r \in Requests :
            /\ NotPast(r, i, p)'
            /\ Importing(r)' /\ req'[r].item = i => a \in req'[r].accounts
      BY <1>3, <1>4 DEF NotPast, Listing, Importing, Idle
    <2> QED
      BY <1>0, <1>1, <1>2, <1>4, <2>1 DEF HalfImported
  <1>5. CASE \/ Publish \/ UNCHANGED vars
             \/ \E r \in Requests : Fail(r)
             \/ Crash
    BY <1>0, <1>4, <1>5, FeedGrows, FailureIdles DEF vars, tables
  <1>6. ASSUME NEW r \in Requests,
               \/ \E u \in Users, j \in Items : ExchangePublicToken(r, u, j)
               \/ \E u \in Users : SyncTransactions(r, u)
               \/ Proceed(r)
        PROVE  HalfImported(i, p)'
    <2>1. /\ NotPast(r, i, p)'
          /\ Importing(r)' /\ req'[r].item = i => a \in req'[r].accounts
      BY <1>2, <1>6, ActorNotPast
    <2>2. \A o \in Requests : o # r => req'[o] = req[o]
      BY <1>0, <1>6, OneSlot
    <2>3. \A o \in Requests :
            /\ NotPast(o, i, p)'
            /\ Importing(o)' /\ req'[o].item = i => a \in req'[o].accounts
      BY <1>3, <2>1, <2>2 DEF NotPast, Listing, Importing
    <2>4. plaid_items'[i].cursor < p
      <3>1. CASE req[r].pc = "page" /\ req[r].item = i /\ SaveCursor(r)
        <4>1. req[r].next \in Cursors /\ req[r].added = {}
          BY <1>0, <3>1, StageOf DEF PageStage, SaveCursor, PageDone
        <4>2. req[r].next < p
          BY <1>3, <3>1, <4>1 DEF NotPast, Cursors
        <4> QED
          BY <1>0, <3>1, <4>1, <4>2, CursorRow DEF SaveCursor, NextCursor, TypeOK
      <3>2. CASE ~(req[r].pc = "page" /\ req[r].item = i)
        BY <1>0, <1>6, <3>2, CursorsElsewhere
      <3>3. CASE req[r].pc = "page" /\ ~SaveCursor(r)
        BY <1>0, <1>6, <3>3
           DEF Proceed, tables, ExchangePublicToken, StorePlaidItem, GetAccounts,
               StoreAccount, ExchangeDone, SyncTransactions, BeginItem,
               FetchPage, SkipAdded, StoreAdded, RejectAdded, ApplyModified,
               SyncDone
      <3> QED
        BY <3>1, <3>2, <3>3
    <2> QED
      BY <1>0, <1>1, <1>2, <2>3, <2>4 DEF HalfImported
  <1> QED
    BY <1>5, <1>6 DEF Next

LEMMA HalfInit == Init => HalfInv
  BY OwnerInit DEF Init, HalfInv, FeedInv, FeedOk

LEMMA HalfInvStep == HalfInv /\ [Next]_vars => HalfInv'
  BY OwnerStep, FeedStep DEF HalfInv, OwnerInv, TypeInv

\* However many syncs try, of whatever age, an item cut off in the middle of
\* a page stays where it is.
THEOREM HalfImportStays == Spec => HalfImportIsFinal
  <1>1. HalfInv /\ [Next]_vars
          => [\A i \in Items, p \in 1..MaxUpdates :
                HalfImported(i, p) => HalfImported(i, p)']_vars
    BY HalfStays
  <1> QED
    BY <1>1, HalfInit, HalfInvStep, PTL DEF Spec, HalfImportIsFinal

----------------------------------------------------------------------------
(* An item whose accounts all have rows.                                   *)

AccountsOf(i) == {a \in Accounts : AccountItem[a] = i}

\* What a request has read of i's accounts is all of them: it has read them
\* now, or it is one of those that had before.
KnowsAll(r, i) ==
  Importing(r) /\ req[r].item = i => AccountsOf(i) \subseteq req[r].accounts

LEMMA ActorKnowsAll ==
  ASSUME TypeOK, NEW r \in Requests, NEW i \in Items,
         AccountsOf(i) \subseteq plaid_accounts, KnowsAll(r, i),
         \/ \E u \in Users, j \in Items : ExchangePublicToken(r, u, j)
         \/ \E u \in Users : SyncTransactions(r, u)
         \/ Proceed(r)
  PROVE  KnowsAll(r, i)'
  <1>0. req \in [Requests -> Request] /\ req[r] \in Request
    BY DEF TypeOK
  <1>1. ASSUME req'[r].pc \notin {"fetch", "page"}
        PROVE  KnowsAll(r, i)'
    BY <1>1 DEF KnowsAll, Importing
  <1>2. ASSUME Importing(r), req'[r].item = req[r].item,
               req'[r].accounts = req[r].accounts
        PROVE  KnowsAll(r, i)'
    BY <1>2 DEF KnowsAll, AccountsOf
  <1>3. CASE \/ \E u \in Users, j \in Items : ExchangePublicToken(r, u, j)
             \/ \E u \in Users : SyncTransactions(r, u)
             \/ StorePlaidItem(r)
             \/ GetAccounts(r)
             \/ \E a \in Accounts : StoreAccount(r, a)
             \/ ExchangeDone(r)
             \/ SyncDone(r)
             \/ \E p \in 1..MaxUpdates : RejectAdded(r, p)
    <2>1. req'[r].pc \notin {"fetch", "page"}
      BY <1>0, <1>3, StageOf
         DEF ExchangePublicToken, SyncTransactions, StorePlaidItem, GetAccounts,
             StoreAccount, ExchangeDone, SyncDone, RejectAdded, ErrNoRows,
             ToleratedError, Goto, Idle, ExchangeStage
    <2> QED
      BY <1>1, <2>1
  <1>4. CASE \E j \in Items : BeginItem(r, j)
    <2>1. PICK j \in Items :
            /\ req'[r].item = j
            /\ req'[r].accounts =
                 GetPlaidAccountsByItemID(plaid_accounts, AccountItem, j)
      BY <1>0, <1>4 DEF BeginItem, Goto
    <2>2. AccountsOf(i) \subseteq
            GetPlaidAccountsByItemID(plaid_accounts, AccountItem, i)
      BY DEF AccountsOf, GetPlaidAccountsByItemID
    <2> QED
      BY <2>1, <2>2 DEF KnowsAll, AccountsOf
  <1>5. CASE FetchPage(r)
    <2>1. /\ Importing(r) /\ req'[r].item = req[r].item
          /\ req'[r].accounts = req[r].accounts
      BY <1>0, <1>5 DEF FetchPage, Importing, Goto
    <2> QED
      BY <1>2, <2>1
  <1>6. CASE \E p \in 1..MaxUpdates :
               SkipAdded(r, p) \/ StoreAdded(r, p) \/ ApplyModified(r, p)
    <2>1. req[r].pc = "page" /\ req[r] \in PageStage
      BY <1>0, <1>6, StageOf DEF SkipAdded, StoreAdded, ApplyModified, AtAdded
    <2>2. /\ req'[r].item = req[r].item
          /\ req'[r].accounts = req[r].accounts
      BY <1>0, <1>6, <2>1
         DEF SkipAdded, StoreAdded, ApplyModified, Goto, PageStage
    <2> QED
      BY <1>2, <2>1, <2>2 DEF Importing
  <1>7. CASE SaveCursor(r)
    <2>1. /\ Importing(r)
          /\ \/ req'[r].pc = "next"
             \/ /\ req'[r].item = req[r].item
                /\ req'[r].accounts = req[r].accounts
      BY <1>0, <1>7 DEF SaveCursor, Importing, Goto
    <2> QED
      BY <1>1, <1>2, <2>1
  <1> QED
    BY <1>3, <1>4, <1>5, <1>6, <1>7 DEF Proceed

\* Such a request skips nothing of i: a feed tells of its own accounts only.
LEMMA SkipsNothing ==
  ASSUME TypeInv, FeedInv, NEW i \in Items, NEW r \in Requests,
         NEW p \in 1..MaxUpdates, KnowsAll(r, i), SkipAdded(r, p)
  PROVE  ItemOf(UpdateAt(r, p).tx) # i
  <1>1. req[r].pc = "page" /\ p \in req[r].added /\ TypeOK /\ PageInFeed(r)
    BY DEF SkipAdded, AtAdded, First, TypeInv
  <1>2. /\ req[r] \in PageStage /\ p \in 1..Len(feed[req[r].item])
        /\ UpdateAt(r, p).tx \in Transactions
    BY <1>1, AtUpdate
  <1>3. req[r].item \in Items
    BY <1>2 DEF PageStage
  <1>4. ItemOf(UpdateAt(r, p).tx) = req[r].item
    BY <1>2, <1>3 DEF FeedInv, FeedOk, UpdateAt
  <1>5. TxAccount[UpdateAt(r, p).tx] \in Accounts
    BY <1>2, LinkAssumption
  <1>6. CASE req[r].item = i
    <2>1. TxAccount[UpdateAt(r, p).tx] \in req[r].accounts
      BY <1>1, <1>4, <1>5, <1>6 DEF KnowsAll, Importing, AccountsOf, ItemOf
    <2> QED
      BY <2>1 DEF SkipAdded, AccountKnown
  <1> QED
    BY <1>4, <1>6

LEMMA CompleteStays ==
  ASSUME TypeInv, FeedInv, [Next]_vars, NEW i \in Items, Complete(i)
  PROVE  /\ Complete(i)'
         /\ \A t \in skipped' \ skipped : ItemOf(t) # i
  <1>0. /\ TypeOK /\ req \in [Requests -> Request]
        /\ i \in DOMAIN plaid_items /\ AccountsOf(i) \subseteq plaid_accounts
        /\ \A r \in Requests : KnowsAll(r, i)
    BY DEF TypeInv, TypeOK, Complete, AccountsOf, KnowsAll
  <1>1. /\ i \in DOMAIN plaid_items' /\ AccountsOf(i) \subseteq plaid_accounts'
    BY <1>0, NothingForgotten
  <1>2. ASSUME \A r \in Requests : KnowsAll(r, i)'
        PROVE  Complete(i)'
    BY <1>1, <1>2 DEF Complete, AccountsOf, KnowsAll
  <1>3. CASE \/ Publish \/ UNCHANGED vars
             \/ \E r \in Requests : Fail(r)
             \/ Crash
    <2>1. /\ \A r \in Requests : req'[r] = req[r] \/ req'[r] = Idle
          /\ UNCHANGED skipped
      BY <1>0, <1>3, FeedGrows, FailureIdles DEF vars
    <2>2. \A r \in Requests : KnowsAll(r, i)'
      BY <1>0, <2>1 DEF KnowsAll, Importing, AccountsOf, Idle
    <2> QED
      BY <1>2, <2>1, <2>2
  <1>4. ASSUME NEW r \in Requests,
               \/ \E u \in Users, j \in Items : ExchangePublicToken(r, u, j)
               \/ \E u \in Users : SyncTransactions(r, u)
               \/ Proceed(r)
        PROVE  /\ Complete(i)'
               /\ \A t \in skipped' \ skipped : ItemOf(t) # i
    <2>1. KnowsAll(r, i)'
      BY <1>0, <1>4, ActorKnowsAll
    <2>2. \A o \in Requests : o # r => req'[o] = req[o]
      BY <1>0, <1>4, OneSlot
    <2>3. \A o \in Requests : KnowsAll(o, i)'
      BY <1>0, <2>1, <2>2 DEF KnowsAll, Importing, AccountsOf
    <2>4. \A t \in skipped' \ skipped : ItemOf(t) # i
      <3>1. CASE \E p \in 1..MaxUpdates : SkipAdded(r, p)
        <4>1. PICK p \in 1..MaxUpdates : SkipAdded(r, p)
          BY <3>1
        <4>2. skipped' = skipped \cup {UpdateAt(r, p).tx}
          BY <4>1 DEF SkipAdded
        <4> QED
          BY <1>0, <4>1, <4>2, SkipsNothing
      <3>2. CASE UNCHANGED skipped
        BY <3>2
      <3> QED
        BY <1>4, <3>1, <3>2
           DEF Proceed, ExchangePublicToken, StorePlaidItem, GetAccounts,
               StoreAccount, ExchangeDone, SyncTransactions, BeginItem,
               FetchPage, StoreAdded, RejectAdded, ApplyModified, SaveCursor,
               SyncDone
    <2> QED
      BY <1>2, <2>3, <2>4
  <1> QED
    BY <1>3, <1>4 DEF Next

\* Once an item's accounts are all in and every sync that read them earlier
\* is over, no sync ever passes over a transaction of the item again.
THEOREM CompleteLosesNothing == Spec => CompleteIsFinal
  <1>1. HalfInv /\ [Next]_vars
          => [\A i \in Items : Complete(i) =>
                /\ Complete(i)'
                /\ \A t \in skipped' \ skipped : ItemOf(t) # i]_vars
    BY CompleteStays DEF HalfInv, OwnerInv
  <1> QED
    BY <1>1, HalfInit, HalfInvStep, PTL DEF Spec, CompleteIsFinal

----------------------------------------------------------------------------
(* What is left of a page's added list is what the feed has added.         *)

AddedFromFeed(r) ==
  req[r].pc = "page" =>
    \A p \in req[r].added : UpdateAt(r, p).kind = "added"

ImportInv ==
  /\ CoverInv
  /\ OwnerInv
  /\ \A r \in Requests : AddedFromFeed(r)

LEMMA ImportInit == Init => ImportInv
  BY CoverInit, OwnerInit DEF Init, Idle, ImportInv, AddedFromFeed

\* A page only shrinks, and the feed it came from keeps what it has.
LEMMA ImportStep == ImportInv /\ [Next]_vars => ImportInv'
  <1> SUFFICES ASSUME ImportInv, [Next]_vars PROVE ImportInv'
    OBVIOUS
  <1>0. /\ TypeInv /\ TypeOK /\ req \in [Requests -> Request]
        /\ \A r \in Requests : PageInFeed(r) /\ AddedFromFeed(r)
    BY DEF ImportInv, OwnerInv, TypeInv, TypeOK
  <1>1. CoverInv' /\ OwnerInv'
    BY CoverStep, OwnerStep DEF ImportInv
  <1>2. \A i \in Items : /\ Len(feed[i]) <= Len(feed'[i])
                         /\ \A p \in 1..Len(feed[i]) : feed'[i][p] = feed[i][p]
    BY <1>0, NothingForgotten
  <1>3. ASSUME NEW r \in Requests, req[r].pc = "page", req'[r].pc = "page",
               req'[r].item = req[r].item, req'[r].added \subseteq req[r].added
        PROVE  AddedFromFeed(r)'
    <2>1. ASSUME NEW p \in req'[r].added
          PROVE  feed'[req'[r].item][p].kind = "added"
      <3>1. p \in 1..Len(feed[req[r].item]) /\ req[r].item \in Items
        BY <1>0, <1>3, AtUpdate DEF PageStage
      <3> QED
        BY <1>0, <1>2, <1>3, <3>1 DEF AddedFromFeed, UpdateAt
    <2> QED
      BY <2>1 DEF AddedFromFeed, UpdateAt
  <1>4. ASSUME NEW r \in Requests, req'[r] = req[r]
        PROVE  AddedFromFeed(r)'
    <2>1. CASE req[r].pc = "page"
      BY <1>3, <1>4, <2>1
    <2>2. CASE req[r].pc # "page"
      BY <1>4, <2>2 DEF AddedFromFeed
    <2> QED
      BY <2>1, <2>2
  <1>5. ASSUME NEW r \in Requests, FetchPage(r)
        PROVE  AddedFromFeed(r)'
    <2>1. /\ req[r].item \in Items /\ feed' = feed
          /\ req'[r].item = req[r].item
          /\ req'[r].added = SyncResult(feed[req[r].item], req[r].cursor).added
      BY <1>0, <1>5, StageOf DEF FetchPage, Goto, FetchStage, tables
    <2> QED
      BY <2>1 DEF AddedFromFeed, UpdateAt, SyncResult, Positions
  <1>6. ASSUME NEW r \in Requests, NEW p \in 1..MaxUpdates,
               \/ SkipAdded(r, p) \/ StoreAdded(r, p)
               \/ RejectAdded(r, p) \/ ApplyModified(r, p)
        PROVE  AddedFromFeed(r)'
    <2>1. req[r] \in PageStage
      BY <1>0, <1>6, StageOf
         DEF SkipAdded, StoreAdded, RejectAdded, ApplyModified, AtAdded
    <2>2. \/ req'[r].pc # "page"
          \/ /\ req'[r].pc = "page" /\ req'[r].item = req[r].item
             /\ req'[r].added \subseteq req[r].added
      BY <1>0, <1>6, <2>1
         DEF SkipAdded, StoreAdded, RejectAdded, ApplyModified, Goto,
             PageStage, Idle
    <2>3. CASE req'[r].pc # "page"
      BY <2>3 DEF AddedFromFeed
    <2> QED
      BY <1>3, <2>1, <2>2, <2>3 DEF PageStage
  <1>7. ASSUME NEW r \in Requests,
               \/ \E u \in Users, i \in Items : ExchangePublicToken(r, u, i)
               \/ StorePlaidItem(r) \/ GetAccounts(r) \/ ExchangeDone(r)
               \/ \E a \in Accounts : StoreAccount(r, a)
               \/ \E u \in Users : SyncTransactions(r, u)
               \/ \E i \in Items : BeginItem(r, i)
               \/ SaveCursor(r) \/ SyncDone(r)
        PROVE  AddedFromFeed(r)'
    <2>1. req[r] \in Request
      BY <1>0
    <2>2. CASE StorePlaidItem(r) \/ \E a \in Accounts : StoreAccount(r, a)
      <3>1. req[r] \in ExchangeStage
        BY <2>1, <2>2, StageOf DEF StorePlaidItem, StoreAccount
      <3>2. req'[r].pc # "page"
        BY <1>0, <2>2, <3>1
           DEF StorePlaidItem, StoreAccount, Goto, Idle, ExchangeStage
      <3> QED
        BY <3>2 DEF AddedFromFeed
    <2>3. CASE SaveCursor(r)
      <3>1. req'[r].pc # "page"
        BY <1>0, <2>3 DEF SaveCursor, Goto
      <3> QED
        BY <3>1 DEF AddedFromFeed
    <2>4. CASE \/ \E u \in Users, i \in Items : ExchangePublicToken(r, u, i)
               \/ GetAccounts(r) \/ ExchangeDone(r)
               \/ \E u \in Users : SyncTransactions(r, u)
               \/ \E i \in Items : BeginItem(r, i)
               \/ SyncDone(r)
      <3>1. CASE GetAccounts(r) \/ ExchangeDone(r) \/ SyncDone(r)
        BY <1>0, <3>1 DEF GetAccounts, ExchangeDone, SyncDone, Goto, Idle,
                          AddedFromFeed
      <3>2. ASSUME NEW u \in Users, NEW i \in Items, ExchangePublicToken(r, u, i)
            PROVE  AddedFromFeed(r)'
        BY <1>0, <3>2 DEF ExchangePublicToken, Goto, AddedFromFeed
      <3>3. ASSUME NEW u \in Users, SyncTransactions(r, u)
            PROVE  AddedFromFeed(r)'
        BY <1>0, <3>3 DEF SyncTransactions, Goto, AddedFromFeed
      <3>4. ASSUME NEW i \in Items, BeginItem(r, i)
            PROVE  AddedFromFeed(r)'
        BY <1>0, <3>4 DEF BeginItem, Goto, AddedFromFeed
      <3> QED
        BY <2>4, <3>1, <3>2, <3>3, <3>4
    <2> QED
      BY <1>7, <2>2, <2>3, <2>4
  <1>8. ASSUME NEW r \in Requests,
               \/ \E u \in Users, i \in Items : ExchangePublicToken(r, u, i)
               \/ \E u \in Users : SyncTransactions(r, u)
               \/ Proceed(r)
        PROVE  \A o \in Requests : AddedFromFeed(o)'
    <2>1. \A o \in Requests : o # r => req'[o] = req[o]
      BY <1>0, <1>8, OneSlot
    <2>2. AddedFromFeed(r)'
      BY <1>5, <1>6, <1>7, <1>8 DEF Proceed
    <2> QED
      BY <1>4, <2>1, <2>2
  <1>9. CASE (\E r \in Requests : Fail(r)) \/ Crash
    <2>1. \A r \in Requests : req'[r] = req[r] \/ req'[r] = Idle
      BY <1>0, <1>9, FailureIdles
    <2>2. ASSUME NEW r \in Requests, req'[r] = Idle
          PROVE  AddedFromFeed(r)'
      BY <2>2 DEF AddedFromFeed, Idle
    <2> QED
      BY <1>1, <1>4, <2>1, <2>2 DEF ImportInv
  <1>10. CASE Publish \/ UNCHANGED vars
    <2>1. UNCHANGED req
      BY <1>0, <1>10, FeedGrows DEF vars
    <2> QED
      BY <1>1, <1>4, <2>1 DEF ImportInv
  <1> QED
    BY <1>1, <1>8, <1>9, <1>10 DEF Next, ImportInv

----------------------------------------------------------------------------
(* The abstract variables, as PlaidSync maps them.                         *)

Feeds == [i \in Items |-> Announced(i, Len(feed[i]))]
Owners == [i \in DOMAIN plaid_items |-> plaid_items[i].user]
Acked == [i \in DOMAIN plaid_items |-> Announced(i, plaid_items[i].cursor)]
Stored == [t \in DOMAIN transactions |-> transactions[t].user]

mapped == <<Feeds, Owners, Acked, Stored, skipped>>

\* What a feed has announced up to a position is settled once it is there.
LEMMA AnnouncedStays ==
  ASSUME ImportInv, [Next]_vars, NEW i \in Items, NEW c \in Nat, c <= Len(feed[i])
  PROVE  /\ Announced(i, c)' = Announced(i, c)
         /\ Announced(i, c) \subseteq Announced(i, Len(feed[i]))
         /\ Announced(i, c) \subseteq Transactions
  <1>1. TypeInv /\ TypeOK /\ Len(feed[i]) \in Nat
    BY DEF ImportInv, OwnerInv, TypeInv, TypeOK, Cursors
  <1>2. \A p \in 1..c : feed'[i][p] = feed[i][p] /\ p \in 1..Len(feed[i])
    BY <1>1, NothingForgotten
  <1>3. \A p \in 1..c : feed[i][p].tx \in Transactions
    BY <1>1, <1>2, UpdateType
  <1> QED
    BY <1>1, <1>2, <1>3 DEF Announced

\* A step that leaves the feed, the rows and the skips is a stutter.
LEMMA SameRows ==
  ASSUME ImportInv, UNCHANGED <<feed, plaid_items, skipped>>,
         DOMAIN transactions' = DOMAIN transactions,
         \A t \in DOMAIN transactions : transactions'[t].user = transactions[t].user
  PROVE  UNCHANGED mapped
  BY DEF mapped, Feeds, Owners, Acked, Stored, Announced

\* A saved cursor lies within its feed.
LEMMA CursorInFeed ==
  ASSUME ImportInv
  PROVE  \A i \in DOMAIN plaid_items :
           /\ i \in Items /\ plaid_items[i].user \in Users
           /\ plaid_items[i].cursor \in Nat
           /\ plaid_items[i].cursor <= Len(feed[i])
  BY ItemRows DEF ImportInv, CoverInv, TypeInv, CursorCovers, Covered, Cursors

LEMMA PublishMaps ==
  ASSUME ImportInv, Publish
  PROVE  [I!INext]_mapped
  <1>0. TypeOK
    BY DEF ImportInv, OwnerInv, TypeInv
  <1>1. PICK t \in Transactions, kind \in {"added", "modified", "removed"},
             pending \in BOOLEAN : Append1(t, kind, pending)
    BY DEF Publish, PublishAdded, PublishModified, PublishRemoved
  <1> DEFINE i == ItemOf(t)
             n == Len(feed[i])
             update == [kind |-> kind, tx |-> t, pending |-> pending]
  <1>2. i \in Items /\ feed[i] \in Seq(Update) /\ n \in Nat
    BY <1>0, LinkAssumption DEF TypeOK, ItemOf
  <1>3. /\ feed' = [feed EXCEPT ![i] = Append(@, update)]
        /\ UNCHANGED <<tables, skipped>>
    BY <1>1 DEF Append1
  <1>4. /\ Len(feed'[i]) = n + 1 /\ feed'[i][n + 1] = update
        /\ \A p \in 1..n : feed'[i][p] = feed[i][p]
        /\ \A j \in Items : j # i => feed'[j] = feed[j]
    BY <1>0, <1>2, <1>3 DEF TypeOK
  <1>5. update.kind = kind /\ update.tx = t
    OBVIOUS
  <1> HIDE DEF i, n, update
  <1>6. Announced(i, Len(feed[i]))' =
          Announced(i, n) \cup (IF kind = "added" THEN {t} ELSE {})
    <2>1. {q \in 1..(n + 1) : feed'[i][q].kind = "added"}
            = {q \in 1..n : feed[i][q].kind = "added"}
                \cup (IF kind = "added" THEN {n + 1} ELSE {})
      BY <1>2, <1>4, <1>5
    <2>2. Announced(i, Len(feed[i]))'
            = {feed'[i][q].tx :
                 q \in {q \in 1..(n + 1) : feed'[i][q].kind = "added"}}
      BY <1>4 DEF Announced
    <2>3. \A q \in 1..n : feed'[i][q].tx = feed[i][q].tx
      BY <1>4
    <2> QED
      BY <1>4, <1>5, <2>1, <2>2, <2>3 DEF Announced
  <1>7. \A j \in Items : j # i =>
          Announced(j, Len(feed[j]))' = Announced(j, Len(feed[j]))
    BY <1>4 DEF Announced
  <1>8. UNCHANGED <<Owners, Stored, skipped>>
    BY <1>3 DEF Owners, Stored, tables
  <1>9. UNCHANGED Acked
    <2>1. \A j \in DOMAIN plaid_items :
            Announced(j, plaid_items[j].cursor)'
              = Announced(j, plaid_items[j].cursor)
      BY <1>3, <1>2, <1>4, CursorInFeed DEF Announced, tables
    <2> QED
      BY <1>3, <2>1 DEF Acked, tables
  <1>10. CASE kind = "added"
    <2>1. Feeds' = [Feeds EXCEPT ![i] = @ \cup {t}]
      BY <1>2, <1>6, <1>7, <1>10 DEF Feeds, n
    <2>2. I!Announce(i, t)
      BY <1>8, <1>9, <2>1 DEF I!Announce, Feeds, Owners, Acked, Stored
    <2> QED
      BY <1>2, <2>2 DEF I!INext
  <1>11. CASE kind # "added"
    BY <1>6, <1>7, <1>8, <1>9, <1>11 DEF Feeds, mapped, n
  <1> QED
    BY <1>10, <1>11

LEMMA LinkMaps ==
  ASSUME ImportInv, NEW r \in Requests, StorePlaidItem(r)
  PROVE  [I!INext]_mapped
  <1>0. TypeOK /\ req[r] \in Request
    BY DEF ImportInv, OwnerInv, TypeInv, TypeOK
  <1>1. PICK i \in Items, u \in Users : i = req[r].item /\ u = req[r].user
    BY <1>0, StageOf DEF StorePlaidItem, ExchangeStage
  <1>2. CASE ItemTaken(r)
    BY <1>2, SameRows DEF StorePlaidItem
  <1>3. CASE ~ItemTaken(r)
    <2>1. /\ plaid_items' = Insert(plaid_items, i, [user |-> u, cursor |-> 0])
          /\ i \notin DOMAIN plaid_items
          /\ UNCHANGED <<feed, transactions, skipped>>
      BY <1>1, <1>3 DEF StorePlaidItem, ItemTaken, CreatePlaidItem
    <2>2. /\ DOMAIN plaid_items' = DOMAIN plaid_items \cup {i}
          /\ plaid_items'[i].user = u /\ plaid_items'[i].cursor = 0
          /\ \A j \in DOMAIN plaid_items : plaid_items'[j] = plaid_items[j]
      BY <2>1 DEF Insert
    <2>3. Owners' = I!Insert(Owners, i, u)
      BY <2>1, <2>2 DEF Owners, I!Insert
    <2>4. Announced(i, 0)' = {}
      BY DEF Announced
    <2>5. Acked' = I!Insert(Acked, i, {})
      BY <2>1, <2>2, <2>4 DEF Acked, Announced, I!Insert
    <2>6. UNCHANGED <<Feeds, Stored, skipped>>
      BY <2>1 DEF Feeds, Stored, Announced
    <2>7. I!Link(i, u)
      BY <2>1, <2>3, <2>5, <2>6 DEF I!Link, Feeds, Owners, Acked, Stored
    <2> QED
      BY <2>7 DEF I!INext
  <1> QED
    BY <1>2, <1>3

\* What request r has come to was announced for its item, which its user owns.
LEMMA AtAnnounced ==
  ASSUME ImportInv, NEW r \in Requests, NEW p, AtAdded(r, p)
  PROVE  /\ req[r].item \in Items /\ req[r].item \in DOMAIN plaid_items
         /\ plaid_items[req[r].item].user = req[r].user
         /\ UpdateAt(r, p).tx \in Transactions
         /\ UpdateAt(r, p).tx
              \in Announced(req[r].item, Len(feed[req[r].item]))
  <1>1. /\ TypeOK /\ PageInFeed(r) /\ HoldsOwned(r) /\ AddedFromFeed(r)
        /\ req[r].pc = "page" /\ p \in req[r].added
    BY DEF ImportInv, OwnerInv, TypeInv, AtAdded, First
  <1>2. /\ req[r] \in PageStage /\ p \in 1..Len(feed[req[r].item])
        /\ UpdateAt(r, p).tx \in Transactions
    BY <1>1, AtUpdate
  <1>3. UpdateAt(r, p).kind = "added"
    BY <1>1 DEF AddedFromFeed
  <1> QED
    BY <1>1, <1>2, <1>3
       DEF UpdateAt, Announced, HoldsOwned, Importing, PageStage

LEMMA StoreMaps ==
  ASSUME ImportInv, NEW r \in Requests, NEW p, StoreAdded(r, p)
  PROVE  [I!INext]_mapped
  <1>1. PICK i \in Items, t \in Transactions :
          /\ i = req[r].item /\ t = UpdateAt(r, p).tx
          /\ i \in DOMAIN plaid_items /\ plaid_items[i].user = req[r].user
          /\ t \in Announced(i, Len(feed[i]))
    BY AtAnnounced DEF StoreAdded
  <1>2. /\ t \notin DOMAIN transactions
        /\ UNCHANGED <<feed, plaid_items, skipped>>
        /\ transactions' = Insert(transactions, t,
             [user |-> req[r].user, pending |-> UpdateAt(r, p).pending])
    BY <1>1 DEF StoreAdded, CreateTransaction
  <1>3. Stored' = I!Insert(Stored, t, Owners[i])
    BY <1>1, <1>2 DEF Stored, Owners, Insert, I!Insert
  <1>4. UNCHANGED <<Feeds, Owners, Acked, skipped>>
    BY <1>2 DEF Feeds, Owners, Acked, Announced
  <1>5. I!Store(i, t)
    BY <1>1, <1>2, <1>3, <1>4 DEF I!Store, Feeds, Owners, Acked, Stored
  <1> QED
    BY <1>5 DEF I!INext

LEMMA SkipMaps ==
  ASSUME ImportInv, NEW r \in Requests, NEW p, SkipAdded(r, p)
  PROVE  [I!INext]_mapped
  <1>1. PICK i \in Items, t \in Transactions :
          /\ i = req[r].item /\ t = UpdateAt(r, p).tx
          /\ i \in DOMAIN plaid_items
          /\ t \in Announced(i, Len(feed[i]))
    BY AtAnnounced DEF SkipAdded
  <1>2. UNCHANGED <<feed, plaid_items, transactions>> /\ skipped' = skipped \cup {t}
    BY <1>1 DEF SkipAdded, tables
  <1>3. UNCHANGED <<Feeds, Owners, Acked, Stored>>
    BY <1>2 DEF Feeds, Owners, Acked, Stored, Announced
  <1>4. I!PassOver(i, t)
    BY <1>1, <1>2, <1>3 DEF I!PassOver, Feeds, Owners, Acked, Stored
  <1> QED
    BY <1>4 DEF I!INext

LEMMA SaveMaps ==
  ASSUME ImportInv, NEW r \in Requests, SaveCursor(r)
  PROVE  [I!INext]_mapped
  <1> DEFINE i == req[r].item
             c == req[r].next
  <1>0. /\ TypeInv /\ TypeOK /\ req[r] \in Request
        /\ HoldsCovered(r) /\ HoldsOwned(r)
    BY DEF ImportInv, OwnerInv, CoverInv, TypeInv, TypeOK
  <1>1. Covered(i, c) /\ req[r] \in PageStage
    BY <1>0, PageDoneCovered, StageOf DEF SaveCursor
  <1>2. i \in Items /\ i \in DOMAIN plaid_items /\ c \in Cursors /\ c \in Nat
    BY <1>0, <1>1 DEF SaveCursor, HoldsOwned, Importing, PageStage, Cursors
  <1>3. /\ plaid_items' = UpdatePlaidItemCursor(plaid_items, i, c)
        /\ UNCHANGED <<feed, transactions, skipped>>
    BY DEF SaveCursor, NextCursor
  <1>4. /\ Announced(i, c) \subseteq Announced(i, Len(feed[i]))
        /\ Announced(i, c) \subseteq Transactions
    <2>1. c <= Len(feed[i])
      BY <1>1 DEF Covered
    <2>2. [Next]_vars
      BY DEF Next, Proceed
    <2> QED
      BY <1>2, <2>1, <2>2, AnnouncedStays
  <1>5. Announced(i, c) \subseteq DOMAIN transactions \cup skipped
    BY <1>1 DEF Covered, Handled, Announced
  <1> HIDE DEF i, c
  <1>6. /\ DOMAIN plaid_items' = DOMAIN plaid_items
        /\ \A j \in DOMAIN plaid_items :
             /\ plaid_items'[j].user = plaid_items[j].user
             /\ plaid_items'[j].cursor = IF j = i THEN c ELSE plaid_items[j].cursor
    BY <1>0, <1>2, <1>3, CursorRow DEF TypeOK
  <1>7. UNCHANGED <<Feeds, Owners, Stored, skipped>>
    BY <1>3, <1>6 DEF Feeds, Owners, Stored, Announced
  <1>8. Acked' = [Acked EXCEPT ![i] = Announced(i, c)]
    <2>1. \A j \in DOMAIN plaid_items :
            Announced(j, plaid_items[j].cursor)'
              = Announced(j, plaid_items'[j].cursor)
      BY <1>3 DEF Announced
    <2>2. \A j \in DOMAIN plaid_items :
            Announced(j, plaid_items[j].cursor)'
              = IF j = i THEN Announced(i, c)
                         ELSE Announced(j, plaid_items[j].cursor)
      BY <1>6, <2>1
    <2> QED
      BY <1>2, <1>6, <2>2 DEF Acked
  <1>9. I!Acknowledge(i, Announced(i, c))
    BY <1>2, <1>4, <1>5, <1>7, <1>8
       DEF I!Acknowledge, Feeds, Owners, Acked, Stored
  <1> QED
    BY <1>2, <1>4, <1>9 DEF I!INext

\* The handlers implement the abstract import: what is stored was announced,
\* once, for the item's own user, and a cursor stands past nothing that is
\* neither stored nor passed over.
THEOREM SyncImplementsImport == Spec => ISpec
  <1>1. Init => I!IInit
    <2> SUFFICES ASSUME Init PROVE I!IInit
      OBVIOUS
    <2>1. DOMAIN plaid_items = {} /\ DOMAIN transactions = {} /\ skipped = {}
      BY EmptyTableType DEF Init
    <2>2. \A i \in Items : Announced(i, Len(feed[i])) = {}
      BY DEF Init, Announced
    <2> QED
      BY <2>1, <2>2 DEF I!IInit, I!EmptyTable
  <1>2. ImportInv /\ [Next]_vars => [I!INext]_(I!ivars)
    <2> SUFFICES ASSUME ImportInv, [Next]_vars PROVE [I!INext]_mapped
      BY DEF I!ivars, mapped, Feeds, Owners, Acked, Stored
    <2>1. ASSUME NEW r \in Requests, NEW p \in 1..MaxUpdates, ApplyModified(r, p)
          PROVE  UNCHANGED mapped
      <3>0. /\ TypeOK /\ PageInFeed(r)
            /\ req[r].pc = "page" /\ p \in req[r].modified
        BY <2>1 DEF ImportInv, OwnerInv, TypeInv, ApplyModified, First
      <3>1. UpdateAt(r, p).pending \in BOOLEAN
        BY <3>0, AtUpdate, UpdateType DEF UpdateAt, PageStage
      <3>2. /\ DOMAIN transactions' = DOMAIN transactions
            /\ \A t \in DOMAIN transactions :
                 transactions'[t].user = transactions[t].user
        BY <2>1, <3>0, <3>1, PendingRow DEF ApplyModified, TypeOK
      <3> QED
        BY <2>1, <3>2, SameRows DEF ApplyModified
    <2>2. CASE UNCHANGED <<feed, plaid_items, transactions, skipped>>
      BY <2>2, SameRows
    <2>3. ASSUME NEW r \in Requests,
                 \/ \E u \in Users, i \in Items : ExchangePublicToken(r, u, i)
                 \/ \E u \in Users : SyncTransactions(r, u)
                 \/ Proceed(r)
          PROVE  [I!INext]_mapped
      <3>1. CASE StorePlaidItem(r) \/ SaveCursor(r)
        BY <3>1, LinkMaps, SaveMaps
      <3>2. CASE \E p \in 1..MaxUpdates : \/ SkipAdded(r, p) \/ StoreAdded(r, p)
                                         \/ ApplyModified(r, p)
        BY <2>1, <3>2, SkipMaps, StoreMaps
      <3>3. CASE \/ \E u \in Users, i \in Items : ExchangePublicToken(r, u, i)
                 \/ \E u \in Users : SyncTransactions(r, u)
                 \/ GetAccounts(r) \/ \E a \in Accounts : StoreAccount(r, a)
                 \/ ExchangeDone(r) \/ \E i \in Items : BeginItem(r, i)
                 \/ FetchPage(r) \/ SyncDone(r)
                 \/ \E p \in 1..MaxUpdates : RejectAdded(r, p)
        BY <2>2, <3>3
           DEF ExchangePublicToken, SyncTransactions, GetAccounts, StoreAccount,
               ExchangeDone, BeginItem, FetchPage, SyncDone, RejectAdded, tables
      <3> QED
        BY <2>3, <3>1, <3>2, <3>3 DEF Proceed
    <2>4. CASE (\E r \in Requests : Fail(r)) \/ Crash \/ UNCHANGED vars
      BY <2>2, <2>4 DEF Fail, Crash, vars, tables
    <2> QED
      BY <2>3, <2>4, PublishMaps DEF Next
  <1> QED
    BY <1>1, <1>2, ImportInit, ImportStep, PTL DEF Spec, ISpec, I!ISpec

=============================================================================
