-------------------------- MODULE SyncSerialProofs --------------------------
(***************************************************************************)
(* Theorems about PlaidSync when no user asks again before an answer, for  *)
(* any number of requests at once, which may fail anywhere, every set of   *)
(* users, items, accounts and transactions and every page size.  The       *)
(* hypotheses are SyncsApart and, for exchanges as well, RequestsApart;    *)
(* they are enough because a request holds items of its own user only.     *)
(***************************************************************************)
EXTENDS PlaidSyncProofs

----------------------------------------------------------------------------
(* A user's syncs apart.                                                   *)

\* A request acts on the cursors that are saved; its pages do not move back.
HoldsSaved(r) ==
  /\ Listing(r) => \A i \in DOMAIN req[r].todo :
       req[r].todo[i] = plaid_items[i].cursor
  /\ Importing(r) =>
       /\ req[r].cursor = plaid_items[req[r].item].cursor
       /\ req[r].item \notin DOMAIN req[r].todo
  /\ req[r].pc = "page" => req[r].cursor <= req[r].next

SerialInv ==
  /\ CoverInv
  /\ OwnerInv
  /\ \A r \in Requests : HoldsSaved(r)

LEMMA SerialInit == Init => SerialInv
  BY CoverInit, OwnerInit
     DEF Init, Idle, SerialInv, HoldsSaved, Listing, Importing

\* What a step of the request does to what it holds.
LEMMA ActorSaved ==
  ASSUME SerialInv, NEW r \in Requests,
         \/ \E u \in Users, i \in Items : ExchangePublicToken(r, u, i)
         \/ \E u \in Users : SyncTransactions(r, u)
         \/ Proceed(r)
  PROVE  HoldsSaved(r)'
  <1>0. /\ TypeInv /\ TypeOK /\ req \in [Requests -> Request]
        /\ req[r] \in Request /\ PageInFeed(r)
        /\ HoldsSaved(r) /\ HoldsOwned(r) /\ HoldsCovered(r)
    BY DEF SerialInv, CoverInv, OwnerInv, TypeInv, TypeOK
  <1>1. ASSUME \/ \E u \in Users, i \in Items : ExchangePublicToken(r, u, i)
               \/ StorePlaidItem(r)
               \/ GetAccounts(r)
               \/ \E a \in Accounts : StoreAccount(r, a)
               \/ ExchangeDone(r)
               \/ SyncDone(r)
        PROVE  HoldsSaved(r)'
    <2>1. req'[r].pc \in {"idle", "item", "accounts", "account"}
      BY <1>0, <1>1, StageOf
         DEF ExchangePublicToken, StorePlaidItem, GetAccounts, StoreAccount,
             ExchangeDone, SyncDone, Goto, Idle, ExchangeStage
    <2> QED
      BY <2>1 DEF HoldsSaved, Listing, Importing
  <1>2. ASSUME NEW u \in Users, SyncTransactions(r, u)
        PROVE  HoldsSaved(r)'
    <2> DEFINE todo == GetPlaidItemsByUserID(plaid_items, u)
    <2>1. /\ req'[r] = [pc |-> "next", user |-> u, todo |-> todo]
          /\ UNCHANGED plaid_items
      BY <1>0, <1>2 DEF SyncTransactions, Goto, tables
    <2>2. \A i \in DOMAIN todo : todo[i] = plaid_items[i].cursor
      BY <1>0, ListType
    <2> HIDE DEF todo
    <2> QED
      BY <2>1, <2>2 DEF HoldsSaved, Listing, Importing
  <1>3. ASSUME NEW i \in Items, BeginItem(r, i)
        PROVE  HoldsSaved(r)'
    <2>1. /\ req'[r].pc = "fetch" /\ req'[r].item = i
          /\ req'[r].cursor = req[r].todo[i]
          /\ req'[r].todo = [j \in DOMAIN req[r].todo \ {i} |-> req[r].todo[j]]
          /\ UNCHANGED plaid_items
      BY <1>0, <1>3 DEF BeginItem, Goto, tables
    <2>2. /\ i \in DOMAIN req[r].todo
          /\ \A j \in DOMAIN req[r].todo : req[r].todo[j] = plaid_items[j].cursor
      BY <1>0, <1>3 DEF BeginItem, HoldsSaved, Listing
    <2> QED
      BY <2>1, <2>2 DEF HoldsSaved, Listing, Importing
  <1>4. ASSUME FetchPage(r)
        PROVE  HoldsSaved(r)'
    <2> DEFINE q == req[r]
               page == SyncResult(feed[q.item], q.cursor)
    <2>1. /\ req'[r].pc = "page" /\ req'[r].item = q.item
          /\ req'[r].cursor = q.cursor /\ req'[r].todo = q.todo
          /\ req'[r].next = page.next /\ UNCHANGED plaid_items
      BY <1>0, <1>4 DEF FetchPage, Goto, tables
    <2>2. q.pc = "fetch" /\ q.item \in Items /\ q.cursor \in Cursors
      BY <1>0, <1>4, StageOf DEF FetchPage, FetchStage
    <2>3. q.cursor <= Len(feed[q.item]) /\ Len(feed[q.item]) \in Cursors
      BY <1>0, <2>2 DEF HoldsCovered, Importing, Covered, TypeOK
    <2>4. q.cursor <= page.next
      BY <2>2, <2>3, BoundAssumption DEF SyncResult, PageEnd, Cursors
    <2> HIDE DEF page
    <2> QED
      BY <1>0, <2>1, <2>2, <2>4 DEF HoldsSaved, Listing, Importing
  <1>5. ASSUME NEW p \in 1..MaxUpdates,
               SkipAdded(r, p) \/ StoreAdded(r, p) \/ ApplyModified(r, p)
        PROVE  HoldsSaved(r)'
    <2>1. req[r].pc = "page" /\ req[r] \in PageStage
      BY <1>0, <1>5, StageOf DEF SkipAdded, StoreAdded, ApplyModified, AtAdded
    <2>2. /\ req'[r].pc = "page" /\ req'[r].item = req[r].item
          /\ req'[r].cursor = req[r].cursor /\ req'[r].todo = req[r].todo
          /\ req'[r].next = req[r].next /\ UNCHANGED plaid_items
      BY <1>0, <1>5, <2>1
         DEF SkipAdded, StoreAdded, ApplyModified, Goto, PageStage, tables
    <2> QED
      BY <1>0, <2>1, <2>2 DEF HoldsSaved, Listing, Importing
  <1>6. ASSUME NEW p \in 1..MaxUpdates, RejectAdded(r, p)
        PROVE  HoldsSaved(r)'
    <2>1. req'[r] = Idle
      BY <1>0, <1>6 DEF RejectAdded, ErrNoRows, ToleratedError, Goto
    <2> QED
      BY <2>1 DEF HoldsSaved, Listing, Importing, Idle
  <1>7. ASSUME SaveCursor(r)
        PROVE  HoldsSaved(r)'
    <2>1. req[r].pc = "page" /\ req[r] \in PageStage
      BY <1>0, <1>7, StageOf DEF SaveCursor
    <2>2. req[r].item \in Items /\ req[r].next \in Cursors
      BY <2>1 DEF PageStage
    <2>3. \A i \in DOMAIN plaid_items :
            plaid_items'[i].cursor =
              IF i = req[r].item THEN req[r].next ELSE plaid_items[i].cursor
      BY <1>0, <1>7, <2>2, CursorRow DEF SaveCursor, NextCursor, TypeOK
    <2>4. /\ req[r].item \in DOMAIN plaid_items
          /\ req[r].item \notin DOMAIN req[r].todo
          /\ \A i \in DOMAIN req[r].todo :
               i \in DOMAIN plaid_items /\ req[r].todo[i] = plaid_items[i].cursor
      BY <1>0, <2>1 DEF HoldsSaved, HoldsOwned, Listing, Importing
    <2>5. /\ req'[r].pc \in {"fetch", "next"} /\ req'[r].todo = req[r].todo
          /\ req'[r].pc = "fetch" => /\ req'[r].item = req[r].item
                                     /\ req'[r].cursor = req[r].next
      BY <1>0, <1>7 DEF SaveCursor, NextCursor, Goto
    <2> QED
      BY <2>3, <2>4, <2>5 DEF HoldsSaved, Listing, Importing
  <1> QED
    BY <1>1, <1>2, <1>3, <1>4, <1>5, <1>6, <1>7 DEF Proceed

\* What another request holds, of its own user's items, stays as saved.
LEMMA OtherSaved ==
  ASSUME SerialInv, SyncsApart, NEW r \in Requests, NEW o \in Requests, o # r,
         \/ \E u \in Users, i \in Items : ExchangePublicToken(r, u, i)
         \/ \E u \in Users : SyncTransactions(r, u)
         \/ Proceed(r)
  PROVE  HoldsSaved(o)'
  <1>1. /\ TypeOK /\ HoldsSaved(o) /\ HoldsOwned(o) /\ HoldsOwned(r)
        /\ req'[o] = req[o]
    BY OneSlot DEF SerialInv, CoverInv, OwnerInv, TypeInv
  <1>2. ASSUME NEW i \in DOMAIN plaid_items, Listing(o),
               plaid_items[i].user = req[o].user
        PROVE  plaid_items'[i].cursor = plaid_items[i].cursor
    <2>1. ~(req[r].pc = "page" /\ req[r].item = i)
      BY <1>1, <1>2 DEF HoldsOwned, Listing, Importing, SyncsApart
    <2> QED
      BY <1>1, <2>1, CursorsElsewhere
  <1>3. /\ Listing(o) => \A i \in DOMAIN req[o].todo :
             i \in DOMAIN plaid_items /\ plaid_items[i].user = req[o].user
        /\ Importing(o) => /\ req[o].item \in DOMAIN plaid_items
                           /\ plaid_items[req[o].item].user = req[o].user
        /\ Importing(o) => Listing(o)
    BY <1>1 DEF HoldsOwned, Listing, Importing
  <1> QED
    BY <1>1, <1>2, <1>3 DEF HoldsSaved, Listing, Importing

LEMMA SerialStep ==
  ASSUME SerialInv, SyncsApart, [Next]_vars
  PROVE  SerialInv'
  <1>0. /\ CoverInv' /\ OwnerInv' /\ TypeOK /\ req \in [Requests -> Request]
        /\ \A r \in Requests : HoldsSaved(r)
    BY CoverStep, OwnerStep DEF SerialInv, CoverInv, TypeInv, TypeOK
  <1>1. CASE Publish \/ UNCHANGED vars
    <2>1. UNCHANGED <<tables, req>>
      BY <1>0, <1>1, FeedGrows DEF vars, tables
    <2> QED
      BY <1>0, <2>1 DEF SerialInv, HoldsSaved, Listing, Importing, tables
  <1>2. CASE (\E r \in Requests : Fail(r)) \/ Crash
    <2>1. /\ \A r \in Requests : req'[r] = req[r] \/ req'[r] = Idle
          /\ UNCHANGED tables
      BY <1>0, <1>2, FailureIdles
    <2> QED
      BY <1>0, <2>1 DEF SerialInv, HoldsSaved, Listing, Importing, tables, Idle
  <1>3. ASSUME NEW r \in Requests,
               \/ \E u \in Users, i \in Items : ExchangePublicToken(r, u, i)
               \/ \E u \in Users : SyncTransactions(r, u)
               \/ Proceed(r)
        PROVE  SerialInv'
    <2>1. HoldsSaved(r)'
      BY <1>3, ActorSaved
    <2>2. \A o \in Requests : o # r => HoldsSaved(o)'
      BY <1>3, OtherSaved
    <2> QED
      BY <1>0, <2>1, <2>2 DEF SerialInv
  <1> QED
    BY <1>1, <1>2, <1>3 DEF Next

\* As long as no user's syncs overlap, no saved cursor moves back, whatever
\* fails and however many users sync at once.
THEOREM CursorsAdvance == Spec /\ []SyncsApart => CursorMonotone
  <1>1. SerialInv /\ [Next]_vars
          => [\A i \in DOMAIN plaid_items :
                plaid_items[i].cursor <= plaid_items'[i].cursor]_vars
    <2> SUFFICES ASSUME SerialInv, Next, NEW i \in DOMAIN plaid_items
                 PROVE  plaid_items[i].cursor <= plaid_items'[i].cursor
      OBVIOUS
    <2>0. /\ TypeOK /\ plaid_items[i].cursor \in Nat
          /\ \A r \in Requests : HoldsSaved(r) /\ req[r] \in Request
      BY ItemRows DEF SerialInv, CoverInv, TypeInv, TypeOK, Cursors
    <2>1. ASSUME NEW r \in Requests, SaveCursor(r)
          PROVE  plaid_items[i].cursor <= plaid_items'[i].cursor
      <3>1. req[r].pc = "page" /\ req[r] \in PageStage
        BY <2>0, <2>1, StageOf DEF SaveCursor
      <3>2. req[r].item \in Items /\ req[r].next \in Cursors
        BY <3>1 DEF PageStage
      <3>3. plaid_items'[i].cursor =
              IF i = req[r].item THEN req[r].next ELSE plaid_items[i].cursor
        BY <2>0, <2>1, <3>2, CursorRow DEF SaveCursor, NextCursor, TypeOK
      <3> QED
        BY <2>0, <3>1, <3>3 DEF HoldsSaved, Importing
    <2>2. ASSUME NEW r \in Requests, StorePlaidItem(r)
          PROVE  plaid_items[i].cursor <= plaid_items'[i].cursor
      <3>1. plaid_items'[i] = plaid_items[i]
        BY <2>2 DEF StorePlaidItem, ItemTaken, CreatePlaidItem, Insert
      <3> QED
        BY <2>0, <3>1
    <2>3. CASE UNCHANGED plaid_items
      BY <2>0, <2>3
    <2> QED
      BY <2>1, <2>2, <2>3
         DEF Next, Proceed, tables, Publish, PublishAdded, PublishModified,
             PublishRemoved, Append1, Fail, Crash, ExchangePublicToken,
             GetAccounts, StoreAccount, ExchangeDone, SyncTransactions,
             BeginItem, FetchPage, SkipAdded, StoreAdded, RejectAdded,
             ApplyModified, SyncDone
  <1>2. SerialInv /\ SyncsApart /\ [Next]_vars => SerialInv'
    BY SerialStep
  <1> QED
    BY <1>1, <1>2, SerialInit, PTL DEF Spec, CursorMonotone

----------------------------------------------------------------------------
(* Skipped transactions are those of half-linked items.                    *)

\* A request that imports an item knows all of the item's accounts.
HoldsAccounts(r) ==
  Importing(r) =>
    req[r].accounts =
      GetPlaidAccountsByItemID(plaid_accounts, AccountItem, req[r].item)

SkipInv ==
  /\ OwnerInv
  /\ FeedInv
  /\ \A r \in Requests : HoldsAccounts(r)
  /\ SkippedOnlyIfBroken

LEMMA ActorAccounts ==
  ASSUME OwnerInv, NEW r \in Requests, HoldsAccounts(r),
         \/ \E u \in Users, i \in Items : ExchangePublicToken(r, u, i)
         \/ \E u \in Users : SyncTransactions(r, u)
         \/ Proceed(r)
  PROVE  HoldsAccounts(r)'
  <1>0. req \in [Requests -> Request] /\ req[r] \in Request
    BY DEF OwnerInv, TypeInv, TypeOK
  <1>1. ASSUME \/ \E u \in Users, i \in Items : ExchangePublicToken(r, u, i)
               \/ StorePlaidItem(r)
               \/ GetAccounts(r)
               \/ \E a \in Accounts : StoreAccount(r, a)
               \/ ExchangeDone(r)
               \/ \E u \in Users : SyncTransactions(r, u)
               \/ SyncDone(r)
        PROVE  HoldsAccounts(r)'
    <2>1. req'[r].pc \in {"idle", "item", "accounts", "account", "next"}
      BY <1>0, <1>1, StageOf
         DEF ExchangePublicToken, StorePlaidItem, GetAccounts, StoreAccount,
             ExchangeDone, SyncTransactions, SyncDone, Goto, Idle, ExchangeStage
    <2> QED
      BY <2>1 DEF HoldsAccounts, Importing
  <1>2. ASSUME NEW i \in Items, BeginItem(r, i)
        PROVE  HoldsAccounts(r)'
    <2>1. /\ req'[r].item = i /\ UNCHANGED plaid_accounts
          /\ req'[r].accounts =
               GetPlaidAccountsByItemID(plaid_accounts, AccountItem, i)
      BY <1>0, <1>2 DEF BeginItem, Goto, tables
    <2> QED
      BY <2>1 DEF HoldsAccounts
  <1>3. ASSUME \/ FetchPage(r)
               \/ \E p \in 1..MaxUpdates : \/ SkipAdded(r, p)
                                           \/ StoreAdded(r, p)
                                           \/ ApplyModified(r, p)
               \/ SaveCursor(r)
        PROVE  HoldsAccounts(r)'
    <2>1. Importing(r) /\ UNCHANGED plaid_accounts
      BY <1>3 DEF FetchPage, SkipAdded, StoreAdded, ApplyModified, AtAdded,
                  SaveCursor, Importing, tables
    <2>2. req'[r].pc # "next" => /\ req'[r].item = req[r].item
                                 /\ req'[r].accounts = req[r].accounts
      <3>1. CASE FetchPage(r) \/ SaveCursor(r)
        BY <1>0, <3>1 DEF FetchPage, SaveCursor, Goto
      <3>2. ASSUME NEW p \in 1..MaxUpdates,
                   SkipAdded(r, p) \/ StoreAdded(r, p) \/ ApplyModified(r, p)
            PROVE  /\ req'[r].item = req[r].item
                   /\ req'[r].accounts = req[r].accounts
        <4>1. req[r] \in PageStage
          BY <1>0, <3>2, StageOf DEF SkipAdded, StoreAdded, ApplyModified, AtAdded
        <4> QED
          BY <1>0, <3>2, <4>1
             DEF SkipAdded, StoreAdded, ApplyModified, Goto, PageStage
      <3> QED
        BY <1>3, <3>1, <3>2
    <2> QED
      BY <2>1, <2>2 DEF HoldsAccounts, Importing
  <1>4. ASSUME NEW p \in 1..MaxUpdates, RejectAdded(r, p)
        PROVE  HoldsAccounts(r)'
    <2>1. req'[r] = Idle
      BY <1>0, <1>4 DEF RejectAdded, ErrNoRows, ToleratedError, Goto
    <2> QED
      BY <2>1 DEF HoldsAccounts, Importing, Idle
  <1> QED
    BY <1>1, <1>2, <1>3, <1>4 DEF Proceed

\* An exchange of another user adds no account to the item o imports.
LEMMA OtherAccounts ==
  ASSUME OwnerInv, RequestsApart, NEW r \in Requests, NEW o \in Requests, o # r,
         HoldsAccounts(o),
         \/ \E u \in Users, i \in Items : ExchangePublicToken(r, u, i)
         \/ \E u \in Users : SyncTransactions(r, u)
         \/ Proceed(r)
  PROVE  HoldsAccounts(o)'
  <1>1. req'[o] = req[o] /\ HoldsOwned(o) /\ HoldsOwned(r)
    BY OneSlot DEF OwnerInv, TypeInv
  <1>2. ASSUME NEW a \in Accounts, StoreAccount(r, a), Importing(o)
        PROVE  AccountItem[a] # req[o].item
    <2>1. req[r].pc = "account" /\ AccountItem[a] = req[r].item
      BY <1>1, <1>2 DEF StoreAccount, HoldsOwned
    <2>2. req[r].user # req[o].user
      BY <1>2, <2>1 DEF RequestsApart, Importing
    <2> QED
      BY <1>1, <1>2, <2>1, <2>2 DEF HoldsOwned
  <1>3. CASE \E a \in Accounts : StoreAccount(r, a)
    BY <1>1, <1>2, <1>3
       DEF StoreAccount, CreatePlaidAccount, HoldsAccounts, Importing,
           GetPlaidAccountsByItemID
  <1>4. CASE UNCHANGED plaid_accounts
    BY <1>1, <1>4 DEF HoldsAccounts, Importing
  <1> QED
    BY <1>3, <1>4
       DEF Proceed, tables, ExchangePublicToken, StorePlaidItem, GetAccounts,
           ExchangeDone, SyncTransactions, BeginItem, FetchPage, SkipAdded,
           StoreAdded, RejectAdded, ApplyModified, SaveCursor, SyncDone

LEMMA AccountsStep ==
  ASSUME OwnerInv, RequestsApart, [Next]_vars, \A r \in Requests : HoldsAccounts(r)
  PROVE  \A r \in Requests : HoldsAccounts(r)'
  <1>0. TypeOK /\ req \in [Requests -> Request]
    BY DEF OwnerInv, TypeInv, TypeOK
  <1>1. CASE \/ Publish \/ UNCHANGED vars
             \/ \E r \in Requests : Fail(r)
             \/ Crash
    <2>1. /\ \A r \in Requests : req'[r] = req[r] \/ req'[r] = Idle
          /\ UNCHANGED plaid_accounts
      BY <1>0, <1>1, FeedGrows, FailureIdles DEF vars, tables
    <2> QED
      BY <2>1 DEF HoldsAccounts, Importing, Idle
  <1>2. ASSUME NEW r \in Requests,
               \/ \E u \in Users, i \in Items : ExchangePublicToken(r, u, i)
               \/ \E u \in Users : SyncTransactions(r, u)
               \/ Proceed(r)
        PROVE  \A o \in Requests : HoldsAccounts(o)'
    BY <1>2, ActorAccounts, OtherAccounts
  <1> QED
    BY <1>1, <1>2 DEF Next

LEMMA SkipStep ==
  ASSUME SkipInv, RequestsApart, [Next]_vars
  PROVE  SkipInv'
  <1>0. /\ OwnerInv' /\ FeedInv' /\ TypeOK /\ OwnerInv
        /\ \A r \in Requests : /\ HoldsAccounts(r)' /\ HoldsAccounts(r)
                               /\ HoldsOwned(r) /\ PageInFeed(r)
                               /\ req[r] \in Request
    BY OwnerStep, AccountsStep, FeedStep DEF SkipInv, OwnerInv, TypeInv, TypeOK
  <1>1. \A i \in Items : Broken(i) => Broken(i)'
    BY <1>0, BrokenStays
  <1>2. \A t \in Transactions : ItemOf(t) \in Items
    BY LinkAssumption DEF ItemOf
  <1>3. skipped \in SUBSET Transactions
    BY <1>0 DEF TypeOK
  <1>4. CASE UNCHANGED skipped
    BY <1>0, <1>1, <1>2, <1>3, <1>4 DEF SkipInv, SkippedOnlyIfBroken
  <1>5. ASSUME NEW r \in Requests, NEW p \in 1..MaxUpdates, SkipAdded(r, p)
        PROVE  SkippedOnlyIfBroken'
    <2>1. req[r].pc = "page" /\ p \in req[r].added
      BY <1>5 DEF SkipAdded, AtAdded, First
    <2>2. PICK t \in Transactions : t = UpdateAt(r, p).tx
      BY <1>0, <2>1, AtUpdate
    <2>3. PICK i \in Items : i = req[r].item
      BY <1>0, <2>1, AtUpdate DEF PageStage
    <2>4. p \in 1..Len(feed[i])
      BY <1>0, <2>1, <2>3, AtUpdate
    <2>5. ItemOf(t) = i
      BY <2>2, <2>3, <2>4 DEF SkipInv, FeedInv, FeedOk, UpdateAt
    <2>6. i \in DOMAIN plaid_items /\ TxAccount[t] \notin req[r].accounts
      BY <1>0, <1>5, <2>1, <2>2, <2>3
         DEF HoldsOwned, Importing, SkipAdded, AccountKnown
    <2>7. TxAccount[t] \in Accounts /\ AccountItem[TxAccount[t]] = i
      BY <2>5, LinkAssumption DEF ItemOf
    <2>8. TxAccount[t] \notin plaid_accounts
      BY <1>0, <2>1, <2>3, <2>6, <2>7
         DEF HoldsAccounts, Importing, GetPlaidAccountsByItemID
    <2>9. ASSUME NEW o \in Requests, req[o].pc \in {"accounts", "account"}
          PROVE  req[o].item # i
      <3>1. req[o].user # req[r].user
        BY <2>1, <2>9 DEF RequestsApart
      <3> QED
        BY <1>0, <2>1, <2>3, <2>9, <3>1 DEF HoldsOwned, Importing
    <2>10. Broken(i)
      BY <2>6, <2>7, <2>8, <2>9 DEF Broken
    <2>11. skipped' = skipped \cup {t}
      BY <1>5, <2>2 DEF SkipAdded
    <2>12. ASSUME NEW u \in skipped'
           PROVE  Broken(ItemOf(u))'
      <3>1. Broken(ItemOf(u)) /\ ItemOf(u) \in Items
        BY <1>2, <1>3, <2>5, <2>10, <2>11 DEF SkipInv, SkippedOnlyIfBroken
      <3>2. PICK j \in Items : j = ItemOf(u)
        BY <3>1
      <3>3. Broken(j)'
        BY <1>1, <3>1, <3>2
      <3> QED
        BY <3>2, <3>3 DEF ItemOf
    <2> QED
      BY <2>12 DEF SkippedOnlyIfBroken
  <1> QED
    BY <1>0, <1>4, <1>5
       DEF SkipInv, Next, Proceed, vars, tables, Publish, PublishAdded,
           PublishModified, PublishRemoved, Append1, Fail, Crash,
           ExchangePublicToken, StorePlaidItem, GetAccounts, StoreAccount,
           ExchangeDone, SyncTransactions, BeginItem, FetchPage, StoreAdded,
           RejectAdded, ApplyModified, SaveCursor, SyncDone

LEMMA SkipInit == Init => SkipInv
  BY OwnerInit
     DEF Init, Idle, SkipInv, FeedInv, FeedOk, HoldsAccounts, Importing,
         SkippedOnlyIfBroken

\* As long as no user's requests overlap, a transaction is passed over only
\* if the exchange that made its item was cut off, and then for good.
THEOREM SkipsAreOfBrokenItems ==
    Spec /\ []RequestsApart => []SkippedOnlyIfBroken
  <1>1. SkipInv /\ RequestsApart /\ [Next]_vars => SkipInv'
    BY SkipStep
  <1>2. SkipInv => SkippedOnlyIfBroken
    BY DEF SkipInv
  <1> QED
    BY <1>1, <1>2, SkipInit, PTL DEF Spec

----------------------------------------------------------------------------
(* Stored flags are not behind the cursor.                                 *)

\* PendingAfter, of a feed f.
After(f, t, n, flag) ==
  \E p \in 1..n :
    /\ f[p].tx = t
    /\ f[p].pending = flag
    /\ f[p].kind # "removed"
    /\ \A q \in (p + 1)..n : f[q].tx = t => f[q].kind = "removed"

\* The rows of i's transactions are those of f's first lo updates, or later.
Settled(f, i, rows, lo) ==
  \A t \in DOMAIN rows : ItemOf(t) = i =>
    \E n \in lo..Len(f) : After(f, t, n, rows[t].pending)

\* The page q has been applied up to position k of the feed.
Progress(f, q, rows, k) ==
  /\ q.added \subseteq Positions(f, q.cursor, q.next, "added")
  /\ q.modified = Positions(f, k, q.next, "modified")
  /\ q.added # {} => k = q.cursor
  /\ Settled(f, q.item, rows, k)

HoldsPending(r) ==
  req[r].pc = "page" =>
    \E k \in req[r].cursor..req[r].next :
      Progress(feed[req[r].item], req[r], transactions, k)

RowsUpToDate ==
  \A i \in DOMAIN plaid_items :
    Settled(feed[i], i, transactions, plaid_items[i].cursor)

PendingInv ==
  /\ SerialInv
  /\ FeedInv
  /\ RowsUpToDate
  /\ \A r \in Requests : HoldsPending(r)

\* A flag stays the feed's until the next "modified": "added" comes first.
LEMMA StillAfter ==
  ASSUME NEW f \in Seq(Update), NEW i, FeedOk(f, i),
         NEW t, NEW flag, NEW n \in Nat, NEW m \in Nat, n <= m, m <= Len(f),
         After(f, t, n, flag),
         \A q \in (n + 1)..m : f[q].tx = t => f[q].kind # "modified"
  PROVE  After(f, t, m, flag)
  <1>1. PICK p \in 1..n :
          /\ f[p].tx = t
          /\ f[p].pending = flag
          /\ f[p].kind # "removed"
          /\ \A q \in (p + 1)..n : f[q].tx = t => f[q].kind = "removed"
    BY DEF After
  <1>2. Len(f) \in Nat /\ p \in 1..m /\ p \in 1..Len(f)
    BY <1>1
  <1>3. ASSUME NEW q \in (p + 1)..m, f[q].tx = t
        PROVE  f[q].kind = "removed"
    <2>1. CASE q <= n
      BY <1>1, <1>3, <2>1
    <2>2. CASE ~(q <= n)
      <3>1. q \in 1..Len(f) /\ q \in (n + 1)..m /\ ~(q <= p)
        BY <1>2, <2>2
      <3>2. f[q] \in Update
        BY <3>1
      <3>3. f[q].kind \in {"added", "modified", "removed"}
        BY <3>2 DEF Update
      <3>4. f[q].kind # "added"
        BY <1>1, <1>2, <1>3, <3>1 DEF FeedOk
      <3>5. f[q].kind # "modified"
        BY <1>3, <3>1
      <3> QED
        BY <3>3, <3>4, <3>5
    <2> QED
      BY <2>1, <2>2
  <1> QED
    BY <1>1, <1>2, <1>3 DEF After

\* Rows remain settled while nothing modified is passed.
LEMMA StillSettled ==
  ASSUME NEW f \in Seq(Update), NEW i, FeedOk(f, i), NEW rows,
         NEW lo \in Nat, NEW hi \in Nat, lo <= hi, hi <= Len(f),
         Settled(f, i, rows, lo), Positions(f, lo, hi, "modified") = {}
  PROVE  Settled(f, i, rows, hi)
  <1> SUFFICES ASSUME NEW t \in DOMAIN rows, ItemOf(t) = i
               PROVE  \E n \in hi..Len(f) : After(f, t, n, rows[t].pending)
    BY DEF Settled
  <1>1. PICK n \in lo..Len(f) : After(f, t, n, rows[t].pending)
    BY DEF Settled
  <1>2. Len(f) \in Nat /\ n \in Nat
    BY <1>1
  <1>3. CASE hi <= n
    BY <1>1, <1>2, <1>3
  <1>4. CASE n < hi
    <2>1. \A q \in (n + 1)..hi : f[q].kind # "modified"
      BY <1>2 DEF Positions
    <2>2. After(f, t, hi, rows[t].pending)
      BY <1>1, <1>2, <1>4, <2>1, StillAfter
    <2> QED
      BY <1>2, <2>2
  <1> QED
    BY <1>2, <1>3, <1>4

\* What was settled further on is settled here.
LEMMA SettledBelow ==
  ASSUME NEW f \in Seq(Update), NEW i, NEW rows, NEW lo \in Nat, NEW hi \in Nat,
         lo <= hi, Settled(f, i, rows, hi)
  PROVE  Settled(f, i, rows, lo)
  <1>1. Len(f) \in Nat
    OBVIOUS
  <1> QED
    BY <1>1 DEF Settled

\* Only i's own rows count.
LEMMA SettledRows ==
  ASSUME NEW f, NEW i, NEW rows, NEW new, NEW lo, Settled(f, i, rows, lo),
         \A t \in DOMAIN new :
           ItemOf(t) = i =>
             \/ t \in DOMAIN rows /\ new[t].pending = rows[t].pending
             \/ \E n \in lo..Len(f) : After(f, t, n, new[t].pending)
  PROVE  Settled(f, i, new, lo)
  BY DEF Settled

\* What Plaid publishes comes after what it has published.
LEMMA SettledGrows ==
  ASSUME NEW f \in Seq(Update), NEW g \in Seq(Update), Len(f) <= Len(g),
         \A p \in 1..Len(f) : g[p] = f[p],
         NEW i, NEW rows, NEW lo \in Nat, Settled(f, i, rows, lo)
  PROVE  Settled(g, i, rows, lo)
  <1>1. Len(f) \in Nat /\ Len(g) \in Nat
    OBVIOUS
  <1> SUFFICES ASSUME NEW t \in DOMAIN rows, ItemOf(t) = i
               PROVE  \E n \in lo..Len(g) : After(g, t, n, rows[t].pending)
    BY DEF Settled
  <1>2. PICK n \in lo..Len(f) : After(f, t, n, rows[t].pending)
    BY DEF Settled
  <1>3. PICK p \in 1..n :
          /\ f[p].tx = t
          /\ f[p].pending = rows[t].pending
          /\ f[p].kind # "removed"
          /\ \A q \in (p + 1)..n : f[q].tx = t => f[q].kind = "removed"
    BY <1>2 DEF After
  <1>4. \A q \in 1..n : g[q] = f[q]
    BY <1>1, <1>2
  <1>5. \A q \in (p + 1)..n : q \in 1..n
    BY <1>3
  <1>6. After(g, t, n, rows[t].pending)
    BY <1>3, <1>4, <1>5 DEF After
  <1>7. n \in lo..Len(g)
    BY <1>1, <1>2
  <1> QED
    BY <1>6, <1>7

\* Update p, not a removal, gives its transaction the flag it bears.
LEMMA AfterItself ==
  ASSUME NEW f, NEW p \in Nat \ {0}, f[p].kind # "removed"
  PROVE  After(f, f[p].tx, p, f[p].pending)
  <1>1. p \in 1..p /\ (p + 1)..p = {}
    OBVIOUS
  <1> QED
    BY <1>1 DEF After

\* What is known of a request in the middle of a page.
LEMMA OnPage ==
  ASSUME PendingInv, NEW r \in Requests, req[r].pc = "page"
  PROVE  /\ req[r] \in PageStage
         /\ req[r].item \in Items /\ req[r].item \in DOMAIN plaid_items
         /\ plaid_items[req[r].item].cursor = req[r].cursor
         /\ feed[req[r].item] \in Seq(Update)
         /\ FeedOk(feed[req[r].item], req[r].item)
         /\ req[r].cursor \in Nat /\ req[r].next \in Nat
         /\ req[r].next <= Len(feed[req[r].item])
         /\ \E k \in Nat : /\ req[r].cursor <= k /\ k <= req[r].next
                           /\ Progress(feed[req[r].item], req[r], transactions, k)
  <1>1. /\ TypeOK /\ PageInFeed(r) /\ HoldsSaved(r) /\ HoldsOwned(r)
        /\ HoldsPending(r) /\ req[r] \in Request
    BY DEF PendingInv, SerialInv, CoverInv, OwnerInv, TypeInv, TypeOK
  <1>2. req[r] \in PageStage
    BY <1>1, StageOf
  <1>3. /\ req[r].item \in Items /\ req[r].cursor \in Cursors
        /\ req[r].next \in Cursors
    BY <1>2 DEF PageStage
  <1>4. req[r].cursor \in Nat /\ req[r].next \in Nat
    BY <1>3 DEF Cursors
  <1>5. /\ req[r].item \in DOMAIN plaid_items
        /\ plaid_items[req[r].item].cursor = req[r].cursor
    BY <1>1 DEF HoldsSaved, HoldsOwned, Importing
  <1>6. /\ feed[req[r].item] \in Seq(Update)
        /\ FeedOk(feed[req[r].item], req[r].item)
    BY <1>1, <1>3 DEF PendingInv, FeedInv, TypeOK
  <1>7. PICK k \in req[r].cursor..req[r].next :
          Progress(feed[req[r].item], req[r], transactions, k)
    BY <1>1 DEF HoldsPending
  <1>8. k \in Nat /\ req[r].cursor <= k /\ k <= req[r].next
    BY <1>4, <1>7
  <1> QED
    BY <1>1, <1>2, <1>3, <1>4, <1>5, <1>6, <1>7, <1>8 DEF PageInFeed

LEMMA FetchPending ==
  ASSUME PendingInv, NEW r \in Requests, FetchPage(r)
  PROVE  RowsUpToDate' /\ HoldsPending(r)'
  <1>1. /\ TypeOK /\ HoldsSaved(r) /\ HoldsOwned(r) /\ HoldsCovered(r)
        /\ req[r] \in Request /\ req[r].pc = "fetch" /\ RowsUpToDate
    BY DEF PendingInv, SerialInv, CoverInv, OwnerInv, TypeInv, TypeOK, FetchPage
  <1>2. PICK i \in Items : i = req[r].item
    BY <1>1, StageOf DEF FetchStage
  <1>3. PICK c \in Cursors : c = req[r].cursor
    BY <1>1, StageOf DEF FetchStage
  <1>4. PICK f \in Seq(Update) : f = feed[i]
    BY <1>1 DEF TypeOK
  <1>5. /\ i \in DOMAIN plaid_items /\ c = plaid_items[i].cursor
        /\ c \in Nat /\ c <= Len(f) /\ Len(f) \in Nat
    BY <1>1, <1>2, <1>3, <1>4
       DEF HoldsSaved, HoldsOwned, HoldsCovered, Importing, Covered, Cursors
  <1>6. Settled(f, i, transactions, c)
    BY <1>1, <1>4, <1>5 DEF RowsUpToDate
  <1>7. PICK n \in Nat : n = PageEnd(f, c) /\ c <= n
    BY <1>5, BoundAssumption DEF PageEnd
  <1>8. PICK q : /\ q = req'[r]
                 /\ q.item = i /\ q.cursor = c /\ q.next = n
                 /\ q.added = Positions(f, c, n, "added")
                 /\ q.modified = Positions(f, c, n, "modified")
    BY <1>1, <1>2, <1>3, <1>4, <1>7 DEF FetchPage, Goto, SyncResult, TypeOK
  <1>9. UNCHANGED <<feed, plaid_items, transactions>>
    BY DEF FetchPage, tables
  <1>10. Progress(f, q, transactions, c) /\ c \in c..n
    BY <1>5, <1>6, <1>7, <1>8 DEF Progress
  <1>11. RowsUpToDate'
    BY <1>1, <1>9 DEF RowsUpToDate
  <1> QED
    BY <1>4, <1>8, <1>9, <1>10, <1>11 DEF HoldsPending

\* What a step of r in its page has to show: its progress, for its item; the
\* rows of the others' stay.
LEMMA PageStep ==
  ASSUME PendingInv, NEW r \in Requests, req[r].pc = "page",
         UNCHANGED <<feed, plaid_items>>,
         NEW q, q = req'[r], q.item = req[r].item,
         q.cursor = req[r].cursor, q.next = req[r].next,
         NEW k \in Nat, req[r].cursor <= k, k <= req[r].next,
         NEW rows, rows = transactions',
         Progress(feed[req[r].item], q, rows, k),
         \A t \in DOMAIN rows : ItemOf(t) # req[r].item =>
           t \in DOMAIN transactions /\ rows[t].pending = transactions[t].pending
  PROVE  RowsUpToDate' /\ HoldsPending(r)'
  <1>1. PICK i \in Items : i = req[r].item
    BY OnPage
  <1>2. PICK f \in Seq(Update) : f = feed[i]
    BY <1>1, OnPage
  <1>3. PICK c \in Nat : c = req[r].cursor /\ c = plaid_items[i].cursor
    BY <1>1, OnPage
  <1>4. Settled(f, i, rows, k)
    BY <1>1, <1>2 DEF Progress
  <1>5. Settled(f, i, rows, c)
    BY <1>3, <1>4, SettledBelow
  <1>6. ASSUME NEW j \in DOMAIN plaid_items
        PROVE  Settled(feed[j], j, rows, plaid_items[j].cursor)
    <2>1. CASE j = i
      BY <1>2, <1>3, <1>5, <2>1
    <2>2. CASE j # i
      <3>1. Settled(feed[j], j, transactions, plaid_items[j].cursor)
        BY DEF PendingInv, RowsUpToDate
      <3>2. \A t \in DOMAIN rows : ItemOf(t) = j =>
              t \in DOMAIN transactions /\ rows[t].pending = transactions[t].pending
        BY <1>1, <2>2
      <3> QED
        BY <3>1, <3>2, SettledRows
    <2> QED
      BY <2>1, <2>2
  <1>7. RowsUpToDate'
    BY <1>6 DEF RowsUpToDate
  <1>8. k \in q.cursor..q.next
    BY OnPage
  <1> QED
    BY <1>7, <1>8 DEF HoldsPending

LEMMA UpdateOf ==
  ASSUME NEW f \in Seq(Update), NEW p \in 1..Len(f)
  PROVE  f[p].tx \in Transactions /\ f[p].pending \in BOOLEAN
  <1>1. f[p] \in Update
    OBVIOUS
  <1> QED
    BY <1>1 DEF Update

LEMMA SkipPending ==
  ASSUME PendingInv, NEW r \in Requests, NEW p \in 1..MaxUpdates, SkipAdded(r, p)
  PROVE  RowsUpToDate' /\ HoldsPending(r)'
  <1>1. req[r].pc = "page" /\ p \in req[r].added /\ req \in [Requests -> Request]
    BY DEF SkipAdded, AtAdded, First, PendingInv, SerialInv, CoverInv, TypeInv, TypeOK
  <1>2. PICK k \in Nat : /\ req[r].cursor <= k /\ k <= req[r].next
                         /\ Progress(feed[req[r].item], req[r], transactions, k)
    BY <1>1, OnPage
  <1>3. PICK q : q = req'[r]
    OBVIOUS
  <1>4. /\ q.item = req[r].item /\ q.cursor = req[r].cursor
        /\ q.next = req[r].next /\ q.modified = req[r].modified
        /\ q.added = req[r].added \ {p}
    BY <1>1, <1>3, OnPage DEF SkipAdded, Goto, PageStage
  <1>5. UNCHANGED <<feed, plaid_items, transactions>>
    BY DEF SkipAdded, tables
  <1>6. Progress(feed[req[r].item], q, transactions, k)
    BY <1>1, <1>2, <1>4 DEF Progress
  <1> QED
    BY <1>1, <1>2, <1>3, <1>4, <1>5, <1>6, PageStep

LEMMA StorePending ==
  ASSUME PendingInv, NEW r \in Requests, NEW p \in 1..MaxUpdates, StoreAdded(r, p)
  PROVE  RowsUpToDate' /\ HoldsPending(r)'
  <1>1. req[r].pc = "page" /\ p \in req[r].added /\ req \in [Requests -> Request]
    BY DEF StoreAdded, AtAdded, First, PendingInv, SerialInv, CoverInv, TypeInv, TypeOK
  <1>2. PICK k \in Nat : /\ req[r].cursor <= k /\ k <= req[r].next
                         /\ Progress(feed[req[r].item], req[r], transactions, k)
    BY <1>1, OnPage
  <1>3. PICK f \in Seq(Update) : f = feed[req[r].item]
    BY <1>1, OnPage
  <1>4. /\ k = req[r].cursor /\ p \in Nat \ {0} /\ k <= p /\ p <= Len(f)
        /\ p \in 1..Len(f) /\ Len(f) \in Nat /\ f[p].kind = "added"
    <2>1. p \in Positions(f, req[r].cursor, req[r].next, "added")
      BY <1>1, <1>2, <1>3 DEF Progress
    <2>2. k = req[r].cursor
      BY <1>1, <1>2 DEF Progress
    <2>3. req[r].cursor \in Nat /\ req[r].next \in Nat /\ req[r].next <= Len(f)
      BY <1>1, <1>3, OnPage
    <2> QED
      BY <2>1, <2>2, <2>3 DEF Positions
  <1>5. PICK t \in Transactions : t = f[p].tx
    BY <1>4, UpdateOf
  <1>6. f[p].pending \in BOOLEAN
    BY <1>4, UpdateOf
  <1>7. ItemOf(t) = req[r].item
    BY <1>1, <1>3, <1>4, <1>5, OnPage DEF FeedOk
  <1>8. PICK rows : rows = transactions'
    OBVIOUS
  <1>9. /\ DOMAIN rows = DOMAIN transactions \cup {t}
        /\ rows[t].pending = f[p].pending
        /\ \A x \in DOMAIN transactions : rows[x] = transactions[x]
    <2>1. /\ t \notin DOMAIN transactions
          /\ rows = CreateTransaction(transactions, t, req[r].user, f[p].pending)
      BY <1>3, <1>5, <1>8 DEF StoreAdded, UpdateAt
    <2> QED
      BY <2>1 DEF CreateTransaction, Insert
  <1>10. PICK q : q = req'[r]
    OBVIOUS
  <1>11. /\ q.item = req[r].item /\ q.cursor = req[r].cursor
         /\ q.next = req[r].next /\ q.modified = req[r].modified
         /\ q.added = req[r].added \ {p}
    BY <1>1, <1>10, OnPage DEF StoreAdded, Goto, PageStage
  <1>12. UNCHANGED <<feed, plaid_items>>
    BY DEF StoreAdded
  <1>13. After(f, t, p, f[p].pending) /\ p \in k..Len(f)
    BY <1>4, <1>5, AfterItself
  <1>14. Settled(f, req[r].item, rows, k)
    <2>1. Settled(f, req[r].item, transactions, k)
      BY <1>2, <1>3 DEF Progress
    <2>2. \A x \in DOMAIN rows :
            \/ x \in DOMAIN transactions /\ rows[x].pending = transactions[x].pending
            \/ \E n \in k..Len(f) : After(f, x, n, rows[x].pending)
      BY <1>9, <1>13
    <2> QED
      BY <2>1, <2>2, SettledRows
  <1>15. Progress(feed[req[r].item], q, rows, k)
    BY <1>1, <1>2, <1>3, <1>11, <1>14 DEF Progress
  <1>16. \A x \in DOMAIN rows : ItemOf(x) # req[r].item =>
           x \in DOMAIN transactions /\ rows[x].pending = transactions[x].pending
    BY <1>7, <1>9
  <1> QED
    BY <1>1, <1>2, <1>8, <1>10, <1>11, <1>12, <1>15, <1>16, PageStep

LEMMA ModifyPending ==
  ASSUME PendingInv, NEW r \in Requests, NEW p \in 1..MaxUpdates,
         ApplyModified(r, p)
  PROVE  RowsUpToDate' /\ HoldsPending(r)'
  <1>1. /\ req[r].pc = "page" /\ req[r].added = {} /\ First(req[r].modified, p)
        /\ req \in [Requests -> Request]
        /\ transactions \in PartialFunctions(Transactions, Transaction(Users))
    BY DEF ApplyModified, PendingInv, SerialInv, CoverInv, TypeInv, TypeOK
  <1>2. PICK k \in Nat : /\ req[r].cursor <= k /\ k <= req[r].next
                         /\ Progress(feed[req[r].item], req[r], transactions, k)
    BY <1>1, OnPage
  <1>3. PICK f \in Seq(Update) : f = feed[req[r].item]
    BY <1>1, OnPage
  <1>4. PICK h \in Nat : h = req[r].next /\ h <= Len(f) /\ Len(f) \in Nat
    BY <1>1, <1>3, OnPage
  <1>5. /\ p \in Positions(f, k, h, "modified")
        /\ \A x \in Positions(f, k, h, "modified") : p <= x
        /\ req[r].modified = Positions(f, k, h, "modified")
        /\ Settled(f, req[r].item, transactions, k)
    BY <1>1, <1>2, <1>3, <1>4 DEF Progress, First
  <1>6. /\ p \in Nat \ {0} /\ k < p /\ p <= h /\ f[p].kind = "modified"
        /\ p \in 1..Len(f)
    BY <1>4, <1>5 DEF Positions
  <1>7. PICK t \in Transactions : t = f[p].tx
    BY <1>6, UpdateOf
  <1>8. PICK b \in BOOLEAN : b = f[p].pending
    BY <1>6, UpdateOf
  <1>9. ItemOf(t) = req[r].item
    BY <1>1, <1>3, <1>6, <1>7, OnPage DEF FeedOk
  <1>10. PICK rows : rows = transactions'
    OBVIOUS
  <1>11. /\ DOMAIN rows = DOMAIN transactions
         /\ t \in DOMAIN rows => rows[t].pending = b
         /\ \A x \in DOMAIN transactions : x # t => rows[x] = transactions[x]
    <2>1. rows = UpdateTransactionPendingStatus(transactions, t, b)
      BY <1>3, <1>7, <1>8, <1>10 DEF ApplyModified, UpdateAt
    <2>2. \A x \in DOMAIN transactions : transactions[x] \in Transaction(Users)
      BY <1>1, TableIsFunction
    <2>3. \A x \in DOMAIN transactions :
            rows[x] = IF x = t THEN [transactions[x] EXCEPT !.pending = b]
                               ELSE transactions[x]
      BY <2>1 DEF UpdateTransactionPendingStatus
    <2>4. DOMAIN rows = DOMAIN transactions
      BY <2>1 DEF UpdateTransactionPendingStatus
    <2> QED
      BY <2>2, <2>3, <2>4 DEF Transaction
  <1>12. PICK q : q = req'[r]
    OBVIOUS
  <1>13. /\ q.item = req[r].item /\ q.cursor = req[r].cursor
         /\ q.next = req[r].next /\ q.added = req[r].added
         /\ q.modified = req[r].modified \ {p}
    BY <1>1, <1>12, OnPage DEF ApplyModified, Goto, PageStage
  <1>14. UNCHANGED <<feed, plaid_items>>
    BY DEF ApplyModified
  <1>15. After(f, t, p, b) /\ p \in p..Len(f)
    BY <1>6, <1>7, <1>8, AfterItself
  <1>16. ASSUME NEW x \in DOMAIN transactions, ItemOf(x) = req[r].item, x # t
         PROVE  \E n \in p..Len(f) : After(f, x, n, transactions[x].pending)
    <2>1. PICK n \in k..Len(f) : After(f, x, n, transactions[x].pending)
      BY <1>5, <1>16 DEF Settled
    <2>2. n \in Nat /\ k <= n /\ n <= Len(f)
      BY <1>4, <2>1
    <2>3. CASE p <= n
      BY <1>4, <2>1, <2>2, <2>3
    <2>4. CASE n < p
      <3>1. ASSUME NEW y \in (n + 1)..p, f[y].tx = x
            PROVE  f[y].kind # "modified"
        <4>1. y \in (k + 1)..h /\ y <= p /\ y # p
          BY <1>6, <1>7, <1>16, <2>2, <3>1
        <4>2. y \notin Positions(f, k, h, "modified")
          BY <1>5, <1>6, <4>1
        <4> QED
          BY <4>1, <4>2 DEF Positions
      <3>2. FeedOk(f, req[r].item)
        BY <1>1, <1>3, OnPage
      <3>3. After(f, x, p, transactions[x].pending)
        BY <1>4, <1>6, <2>1, <2>2, <2>4, <3>1, <3>2, StillAfter
      <3> QED
        BY <1>15, <3>3
    <2> QED
      BY <1>6, <2>2, <2>3, <2>4
  <1>17. Settled(f, req[r].item, rows, p)
    BY <1>11, <1>15, <1>16 DEF Settled
  <1>18. Positions(f, k, h, "modified") \ {p} = Positions(f, p, h, "modified")
    <2>1. \A y \in Positions(f, k, h, "modified") : y # p => y \in (p + 1)..h
      BY <1>5, <1>6 DEF Positions
    <2>2. \A y \in (p + 1)..h : y \in (k + 1)..h /\ y # p
      BY <1>6
    <2> QED
      BY <2>1, <2>2 DEF Positions
  <1>19. Progress(feed[req[r].item], q, rows, p)
    BY <1>1, <1>3, <1>4, <1>5, <1>13, <1>17, <1>18 DEF Progress
  <1>20. \A x \in DOMAIN rows : ItemOf(x) # req[r].item =>
           x \in DOMAIN transactions /\ rows[x].pending = transactions[x].pending
    BY <1>9, <1>11
  <1>21. req[r].cursor <= p /\ p <= req[r].next /\ p \in Nat
    BY <1>1, <1>2, <1>4, <1>6, OnPage
  <1> QED
    BY <1>1, <1>10, <1>12, <1>13, <1>14, <1>19, <1>20, <1>21, PageStep

LEMMA SavePending ==
  ASSUME PendingInv, NEW r \in Requests, SaveCursor(r)
  PROVE  RowsUpToDate' /\ HoldsPending(r)'
  <1>1. /\ req[r].pc = "page" /\ req[r].added = {} /\ req[r].modified = {}
        /\ req \in [Requests -> Request] /\ RowsUpToDate
        /\ plaid_items \in PartialFunctions(Items, PlaidItem(Users, Cursors))
    BY DEF SaveCursor, PageDone, PendingInv, SerialInv, CoverInv, TypeInv, TypeOK
  <1>2. PICK k \in Nat : /\ req[r].cursor <= k /\ k <= req[r].next
                         /\ Progress(feed[req[r].item], req[r], transactions, k)
    BY <1>1, OnPage
  <1>3. PICK f \in Seq(Update) : f = feed[req[r].item]
    BY <1>1, OnPage
  <1>4. PICK h \in Nat : h = req[r].next /\ h <= Len(f) /\ k <= h /\ h \in Cursors
    BY <1>1, <1>2, <1>3, OnPage DEF PageStage
  <1>5. PICK i \in Items : i = req[r].item
    BY <1>1, OnPage
  <1>6. /\ Settled(f, i, transactions, k) /\ FeedOk(f, i)
        /\ Positions(f, k, h, "modified") = {}
    BY <1>1, <1>2, <1>3, <1>4, <1>5, OnPage DEF Progress
  <1>7. Settled(f, i, transactions, h)
    BY <1>4, <1>6, StillSettled
  <1>8. PICK items : items = plaid_items'
    OBVIOUS
  <1>9. /\ DOMAIN items = DOMAIN plaid_items
        /\ \A j \in DOMAIN plaid_items :
             items[j].cursor = IF j = i THEN h ELSE plaid_items[j].cursor
    BY <1>1, <1>4, <1>5, <1>8, CursorRow DEF SaveCursor, NextCursor
  <1>10. UNCHANGED <<feed, transactions>>
    BY DEF SaveCursor
  <1>11. \A j \in DOMAIN items : Settled(feed[j], j, transactions, items[j].cursor)
    BY <1>1, <1>3, <1>5, <1>7, <1>9 DEF RowsUpToDate
  <1>12. RowsUpToDate'
    BY <1>8, <1>10, <1>11 DEF RowsUpToDate
  <1>13. req'[r].pc # "page"
    BY <1>1 DEF SaveCursor, Goto
  <1> QED
    BY <1>12, <1>13 DEF HoldsPending

\* No transaction of an item is stored before the item.
LEMMA LinkPending ==
  ASSUME PendingInv, NEW r \in Requests, StorePlaidItem(r)
  PROVE  RowsUpToDate' /\ HoldsPending(r)'
  <1>1. /\ req[r].pc = "item" /\ req \in [Requests -> Request]
        /\ OwnerConsistent /\ RowsUpToDate /\ TypeOK
    BY DEF StorePlaidItem, PendingInv, SerialInv, CoverInv, OwnerInv, TypeInv, TypeOK
  <1>2. UNCHANGED <<feed, transactions>>
    BY DEF StorePlaidItem
  <1>3. PICK items : items = plaid_items'
    OBVIOUS
  <1>4. PICK i : i = req[r].item
    OBVIOUS
  <1>5. \/ items = plaid_items
        \/ /\ i \notin DOMAIN plaid_items
           /\ DOMAIN items = DOMAIN plaid_items \cup {i}
           /\ \A j \in DOMAIN plaid_items : items[j] = plaid_items[j]
    BY <1>3, <1>4 DEF StorePlaidItem, ItemTaken, CreatePlaidItem, Insert
  <1>6. ASSUME NEW j \in DOMAIN items
        PROVE  Settled(feed[j], j, transactions, items[j].cursor)
    <2>1. CASE j \in DOMAIN plaid_items
      BY <1>1, <1>5, <2>1 DEF RowsUpToDate
    <2>2. CASE j \notin DOMAIN plaid_items
      BY <1>1, <2>2 DEF OwnerConsistent, Settled
    <2> QED
      BY <2>1, <2>2
  <1>7. RowsUpToDate'
    BY <1>2, <1>3, <1>6 DEF RowsUpToDate
  <1>8. req'[r].pc # "page"
    <2>1. req[r] \in ExchangeStage
      BY <1>1, StageOf
    <2> QED
      BY <1>1, <2>1 DEF StorePlaidItem, Goto, Idle, ExchangeStage
  <1> QED
    BY <1>7, <1>8 DEF HoldsPending

LEMMA PublishPending ==
  ASSUME PendingInv, Publish
  PROVE  RowsUpToDate' /\ \A r \in Requests : HoldsPending(r)'
  <1>1. TypeOK /\ feed \in [Items -> Seq(Update)] /\ RowsUpToDate
    BY DEF PendingInv, SerialInv, CoverInv, TypeInv, TypeOK
  <1>2. PICK new : new = feed'
    OBVIOUS
  <1>3. /\ new \in [Items -> Seq(Update)]
        /\ \A i \in Items : /\ Len(feed[i]) <= Len(new[i])
                            /\ \A p \in 1..Len(feed[i]) : new[i][p] = feed[i][p]
        /\ UNCHANGED <<plaid_items, transactions, req>>
    BY <1>1, <1>2, FeedGrows DEF tables
  <1>4. ASSUME NEW i \in Items, NEW lo \in Nat, Settled(feed[i], i, transactions, lo)
        PROVE  Settled(new[i], i, transactions, lo)
    BY <1>1, <1>3, <1>4, SettledGrows
  <1>5. \A i \in DOMAIN plaid_items : i \in Items /\ plaid_items[i].cursor \in Nat
    BY <1>1, ItemRows DEF Cursors
  <1>6. \A i \in DOMAIN plaid_items :
          Settled(new[i], i, transactions, plaid_items[i].cursor)
    BY <1>1, <1>4, <1>5 DEF RowsUpToDate
  <1>7. RowsUpToDate'
    BY <1>2, <1>3, <1>6 DEF RowsUpToDate
  <1>8. ASSUME NEW r \in Requests, req[r].pc = "page"
        PROVE  \E k \in req[r].cursor..req[r].next :
                 Progress(new[req[r].item], req[r], transactions, k)
    <2>1. PICK k \in Nat : /\ req[r].cursor <= k /\ k <= req[r].next
                           /\ Progress(feed[req[r].item], req[r], transactions, k)
      BY <1>8, OnPage
    <2>2. PICK i \in Items : i = req[r].item
      BY <1>8, OnPage
    <2>3. PICK c \in Nat : c = req[r].cursor
      BY <1>8, OnPage
    <2>4. PICK h \in Nat : h = req[r].next /\ h <= Len(feed[i])
      BY <1>8, <2>2, OnPage
    <2>5. Len(feed[i]) \in Nat
      BY <1>1, <2>2
    <2>6. ASSUME NEW lo \in Nat, NEW kind
          PROVE  Positions(new[i], lo, h, kind) = Positions(feed[i], lo, h, kind)
      <3>1. \A p \in (lo + 1)..h : p \in 1..Len(feed[i])
        BY <2>4, <2>5
      <3> QED
        BY <1>3, <2>2, <3>1 DEF Positions
    <2>7. Settled(new[i], i, transactions, k)
      BY <1>4, <2>1, <2>2 DEF Progress
    <2>8. Progress(new[i], req[r], transactions, k)
      BY <2>1, <2>2, <2>3, <2>4, <2>6, <2>7 DEF Progress
    <2>9. k \in c..h
      BY <2>1, <2>3, <2>4
    <2> QED
      BY <2>2, <2>3, <2>4, <2>8, <2>9
  <1>9. \A r \in Requests : HoldsPending(r)'
    BY <1>2, <1>3, <1>8 DEF HoldsPending
  <1> QED
    BY <1>7, <1>9

\* The steps that leave the feed, the rows and the cursors alone, and r
\* outside a page.
LEMMA RestPending ==
  ASSUME PendingInv, NEW r \in Requests,
         \/ \E u \in Users, i \in Items : ExchangePublicToken(r, u, i)
         \/ \E u \in Users : SyncTransactions(r, u)
         \/ GetAccounts(r)
         \/ \E a \in Accounts : StoreAccount(r, a)
         \/ ExchangeDone(r)
         \/ \E i \in Items : BeginItem(r, i)
         \/ \E p \in 1..MaxUpdates : RejectAdded(r, p)
         \/ SyncDone(r)
  PROVE  RowsUpToDate' /\ HoldsPending(r)'
  <1>1. req \in [Requests -> Request] /\ req[r] \in Request /\ RowsUpToDate
    BY DEF PendingInv, SerialInv, CoverInv, TypeInv, TypeOK
  <1>2. UNCHANGED <<feed, plaid_items, transactions>>
    BY DEF ExchangePublicToken, SyncTransactions, GetAccounts, StoreAccount,
           ExchangeDone, BeginItem, RejectAdded, SyncDone, tables
  <1>3. ASSUME NEW a \in Accounts, StoreAccount(r, a)
        PROVE  req'[r].pc # "page"
    <2>1. req[r] \in ExchangeStage
      BY <1>1, <1>3, StageOf DEF StoreAccount
    <2> QED
      BY <1>1, <1>3, <2>1 DEF StoreAccount, Goto, Idle, ExchangeStage
  <1>4. ASSUME NEW p \in 1..MaxUpdates, RejectAdded(r, p)
        PROVE  req'[r].pc # "page"
    BY <1>1, <1>4 DEF RejectAdded, ErrNoRows, ToleratedError, Goto, Idle
  <1>5. ASSUME NEW u \in Users, NEW i \in Items, ExchangePublicToken(r, u, i)
        PROVE  req'[r].pc # "page"
    BY <1>1, <1>5 DEF ExchangePublicToken, Goto
  <1>6. ASSUME NEW u \in Users, SyncTransactions(r, u)
        PROVE  req'[r].pc # "page"
    BY <1>1, <1>6 DEF SyncTransactions, Goto
  <1>7. ASSUME NEW i \in Items, BeginItem(r, i)
        PROVE  req'[r].pc # "page"
    BY <1>1, <1>7 DEF BeginItem, Goto
  <1>8. ASSUME GetAccounts(r) \/ ExchangeDone(r) \/ SyncDone(r)
        PROVE  req'[r].pc # "page"
    BY <1>1, <1>8 DEF GetAccounts, ExchangeDone, SyncDone, Goto, Idle
  <1>9. req'[r].pc # "page"
    BY <1>3, <1>4, <1>5, <1>6, <1>7, <1>8
  <1>10. RowsUpToDate'
    BY <1>1, <1>2 DEF RowsUpToDate
  <1> QED
    BY <1>9, <1>10 DEF HoldsPending

\* A step of r changes no row of another item than the one it imports.
LEMMA RowsElsewhere ==
  ASSUME PendingInv, NEW r \in Requests,
         \/ \E u \in Users, i \in Items : ExchangePublicToken(r, u, i)
         \/ \E u \in Users : SyncTransactions(r, u)
         \/ Proceed(r),
         NEW t \in DOMAIN transactions',
         ~(req[r].pc = "page" /\ req[r].item = ItemOf(t))
  PROVE  t \in DOMAIN transactions /\ transactions'[t].pending = transactions[t].pending
  <1>1. /\ TypeInv /\ req[r] \in Request
        /\ transactions \in PartialFunctions(Transactions, Transaction(Users))
    BY DEF PendingInv, SerialInv, CoverInv, TypeInv, TypeOK
  <1>2. ASSUME NEW p, req[r].pc = "page", p \in req[r].added \cup req[r].modified
        PROVE  UpdateAt(r, p).tx # t
    <2>1. /\ p \in 1..Len(feed[req[r].item]) /\ req[r].item \in Items
      BY <1>1, <1>2, AtUpdate DEF TypeInv, PageStage
    <2>2. ItemOf(UpdateAt(r, p).tx) = req[r].item
      BY <2>1 DEF PendingInv, FeedInv, FeedOk, UpdateAt
    <2> QED
      BY <1>2, <2>2
  <1>3. ASSUME NEW p \in 1..MaxUpdates, StoreAdded(r, p)
        PROVE  t \in DOMAIN transactions /\ transactions'[t] = transactions[t]
    <2>1. UpdateAt(r, p).tx # t
      BY <1>2, <1>3 DEF StoreAdded, AtAdded, First
    <2> QED
      BY <1>3, <2>1 DEF StoreAdded, CreateTransaction, Insert
  <1>4. ASSUME NEW p \in 1..MaxUpdates, ApplyModified(r, p)
        PROVE  t \in DOMAIN transactions /\ transactions'[t] = transactions[t]
    <2>1. UpdateAt(r, p).tx # t
      BY <1>2, <1>4 DEF ApplyModified, First
    <2> QED
      BY <1>4, <2>1 DEF ApplyModified, UpdateTransactionPendingStatus
  <1>5. CASE UNCHANGED transactions
    BY <1>5
  <1> QED
    BY <1>3, <1>4, <1>5
       DEF Proceed, tables, ExchangePublicToken, StorePlaidItem, GetAccounts,
           StoreAccount, ExchangeDone, SyncTransactions, BeginItem, FetchPage,
           SkipAdded, RejectAdded, SaveCursor, SyncDone

\* The page another request is in the middle of is of another item.
LEMMA OtherPending ==
  ASSUME PendingInv, SyncsApart, NEW r \in Requests, NEW o \in Requests, o # r,
         \/ \E u \in Users, i \in Items : ExchangePublicToken(r, u, i)
         \/ \E u \in Users : SyncTransactions(r, u)
         \/ Proceed(r)
  PROVE  HoldsPending(o)'
  <1>1. /\ req'[o] = req[o] /\ HoldsOwned(o) /\ HoldsOwned(r)
        /\ UNCHANGED feed
    BY OneSlot
       DEF PendingInv, SerialInv, CoverInv, OwnerInv, TypeInv, Proceed,
           ExchangePublicToken, StorePlaidItem, GetAccounts, StoreAccount,
           ExchangeDone, SyncTransactions, BeginItem, FetchPage, SkipAdded,
           StoreAdded, RejectAdded, ApplyModified, SaveCursor, SyncDone
  <1>2. CASE req[o].pc # "page"
    BY <1>1, <1>2 DEF HoldsPending
  <1>3. CASE req[o].pc = "page"
    <2>1. PICK q : q = req[o] /\ q = req'[o]
      BY <1>1
    <2>2. PICK f : f = feed[q.item] /\ f = feed'[q.item]
      BY <1>1
    <2>3. PICK rows : rows = transactions'
      OBVIOUS
    <2>4. PICK k \in q.cursor..q.next : Progress(f, q, transactions, k)
      BY <1>3, <2>1, <2>2 DEF PendingInv, HoldsPending
    <2>5. ~(req[r].pc = "page" /\ req[r].item = q.item)
      BY <1>1, <1>3, <2>1 DEF HoldsOwned, Listing, Importing, SyncsApart
    <2>6. \A t \in DOMAIN rows : ItemOf(t) = q.item =>
            t \in DOMAIN transactions /\ rows[t].pending = transactions[t].pending
      BY <2>3, <2>5, RowsElsewhere
    <2>7. Settled(f, q.item, rows, k)
      BY <2>4, <2>6, SettledRows DEF Progress
    <2>8. Progress(f, q, rows, k)
      BY <2>4, <2>7 DEF Progress
    <2> QED
      BY <2>1, <2>2, <2>3, <2>4, <2>8 DEF HoldsPending
  <1> QED
    BY <1>2, <1>3

LEMMA PendingStep ==
  ASSUME PendingInv, SyncsApart, [Next]_vars
  PROVE  PendingInv'
  <1>0. /\ SerialInv' /\ FeedInv' /\ RowsUpToDate
        /\ req \in [Requests -> Request]
        /\ \A r \in Requests : HoldsPending(r)
    BY SerialStep, FeedStep DEF PendingInv, SerialInv, CoverInv, TypeInv, TypeOK
  <1>1. CASE Publish
    BY <1>0, <1>1, PublishPending DEF PendingInv
  <1>2. CASE UNCHANGED vars
    <2>1. RowsUpToDate' /\ \A r \in Requests : HoldsPending(r)'
      BY <1>0, <1>2 DEF vars, RowsUpToDate, HoldsPending
    <2> QED
      BY <1>0, <2>1 DEF PendingInv
  <1>3. CASE (\E r \in Requests : Fail(r)) \/ Crash
    <2>1. /\ \A r \in Requests : req'[r] = req[r] \/ req'[r] = Idle
          /\ UNCHANGED <<feed, plaid_items, transactions>>
      BY <1>0, <1>3, FailureIdles DEF tables
    <2>2. RowsUpToDate'
      BY <1>0, <2>1 DEF RowsUpToDate
    <2>3. \A r \in Requests : HoldsPending(r)'
      BY <1>0, <2>1 DEF HoldsPending, Idle
    <2> QED
      BY <1>0, <2>2, <2>3 DEF PendingInv
  <1>4. ASSUME NEW r \in Requests,
               \/ \E u \in Users, i \in Items : ExchangePublicToken(r, u, i)
               \/ \E u \in Users : SyncTransactions(r, u)
               \/ Proceed(r)
        PROVE  PendingInv'
    <2>1. RowsUpToDate' /\ HoldsPending(r)'
      BY <1>4, LinkPending, FetchPending, SkipPending, StorePending,
         ModifyPending, SavePending, RestPending DEF Proceed
    <2>2. \A o \in Requests : o # r => HoldsPending(o)'
      BY <1>4, OtherPending
    <2> QED
      BY <1>0, <2>1, <2>2 DEF PendingInv
  <1> QED
    BY <1>1, <1>2, <1>3, <1>4 DEF Next

LEMMA PendingInit == Init => PendingInv
  <1> SUFFICES ASSUME Init PROVE PendingInv
    OBVIOUS
  <1>1. DOMAIN plaid_items = {} /\ \A r \in Requests : req[r].pc = "idle"
    BY EmptyTableType DEF Init, Idle
  <1> QED
    BY <1>1, SerialInit, SkipInit DEF PendingInv, SkipInv, RowsUpToDate, HoldsPending

\* As long as no user's syncs overlap, no row is left behind the saved cursor,
\* whatever fails and is read again and however many users sync at once.
THEOREM FlagsKeepUp ==
    Spec /\ []SyncsApart => []PendingNotBehindCursor
  <1>1. PendingInv /\ SyncsApart /\ [Next]_vars => PendingInv'
    BY PendingStep
  <1>2. PendingInv => PendingNotBehindCursor
    <2> SUFFICES ASSUME PendingInv, NEW t \in DOMAIN transactions
                 PROVE  \E n \in plaid_items[ItemOf(t)].cursor..Len(feed[ItemOf(t)]) :
                          PendingAfter(t, n, transactions[t].pending)
      BY DEF PendingNotBehindCursor
    <2>1. ItemOf(t) \in DOMAIN plaid_items
      BY DEF PendingInv, SerialInv, OwnerInv, OwnerConsistent
    <2>2. Settled(feed[ItemOf(t)], ItemOf(t), transactions, plaid_items[ItemOf(t)].cursor)
      BY <2>1 DEF PendingInv, RowsUpToDate
    <2> QED
      BY <2>2 DEF Settled, After, PendingAfter
  <1> QED
    BY <1>1, <1>2, PendingInit, PTL DEF Spec

=============================================================================
