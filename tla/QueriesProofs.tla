--------------------------- MODULE QueriesProofs ---------------------------
(***************************************************************************)
(* What the statements of Queries do to the domains and types of tables.   *)
(***************************************************************************)
EXTENDS Queries, TLAPS

\* A partial function is a function on its own domain, inside S.
LEMMA TableIsFunction ==
  ASSUME NEW S, NEW T, NEW f
  PROVE  f \in PartialFunctions(S, T)
           <=> DOMAIN f \subseteq S /\ f \in [DOMAIN f -> T]
  BY DEF PartialFunctions

\* INSERT adds its key, gives it its row and leaves every other row alone.
LEMMA InsertRow ==
  ASSUME NEW S, NEW T, NEW f \in PartialFunctions(S, T), NEW k \in S, NEW v \in T
  PROVE  /\ Insert(f, k, v) \in PartialFunctions(S, T)
         /\ DOMAIN Insert(f, k, v) = DOMAIN f \cup {k}
         /\ Insert(f, k, v)[k] = v
         /\ \A j \in DOMAIN f : j # k => Insert(f, k, v)[j] = f[j]
  <1>1. DOMAIN f \subseteq S /\ f \in [DOMAIN f -> T]
    BY TableIsFunction
  <1>2. DOMAIN Insert(f, k, v) = DOMAIN f \cup {k}
    BY DEF Insert
  <1>3. Insert(f, k, v) \in [DOMAIN f \cup {k} -> T]
    BY <1>1 DEF Insert
  <1>4. Insert(f, k, v) \in PartialFunctions(S, T)
    BY <1>1, <1>2, <1>3, TableIsFunction
  <1> QED
    BY <1>2, <1>4 DEF Insert

\* A registration, refused or not, leaves a table of users.
LEMMA UserTable ==
  ASSUME NEW S, NEW T, NEW accounts \in PartialFunctions(S, T),
         NEW e \in S, NEW p \in T
  PROVE  CreateUser(accounts, e, p) \in PartialFunctions(S, T)
  BY InsertRow DEF CreateUser

\* The empty table is a table of any shape.
LEMMA EmptyTableType ==
  ASSUME NEW S, NEW T
  PROVE  EmptyTable \in PartialFunctions(S, T) /\ DOMAIN EmptyTable = {}
  <1>1. DOMAIN EmptyTable = {}
    BY DEF EmptyTable
  <1>2. EmptyTable \in [{} -> T]
    BY DEF EmptyTable
  <1> QED
    BY <1>1, <1>2, TableIsFunction

\* Saving a cursor adds and drops no item and changes no owner.
LEMMA CursorRow ==
  ASSUME NEW S, NEW U, NEW C, NEW items \in PartialFunctions(S, PlaidItem(U, C)),
         NEW item, NEW c \in C
  PROVE  /\ UpdatePlaidItemCursor(items, item, c)
              \in PartialFunctions(S, PlaidItem(U, C))
         /\ DOMAIN UpdatePlaidItemCursor(items, item, c) = DOMAIN items
         /\ \A i \in DOMAIN items :
              /\ UpdatePlaidItemCursor(items, item, c)[i].user = items[i].user
              /\ UpdatePlaidItemCursor(items, item, c)[i].cursor
                   = IF i = item THEN c ELSE items[i].cursor
  <1> DEFINE new == UpdatePlaidItemCursor(items, item, c)
  <1>1. DOMAIN items \subseteq S /\ items \in [DOMAIN items -> PlaidItem(U, C)]
    BY TableIsFunction
  <1>2. DOMAIN new = DOMAIN items
    BY <1>1 DEF UpdatePlaidItemCursor
  <1>3. ASSUME NEW i \in DOMAIN items
        PROVE  /\ new[i] \in PlaidItem(U, C)
               /\ new[i].user = items[i].user
               /\ new[i].cursor = IF i = item THEN c ELSE items[i].cursor
    <2>1. items[i] \in PlaidItem(U, C)
      BY <1>1
    <2>2. new[i] = IF i = item THEN [items[i] EXCEPT !.cursor = c] ELSE items[i]
      BY <1>1 DEF UpdatePlaidItemCursor
    <2> QED
      BY <2>1, <2>2 DEF PlaidItem
  <1>4. new \in [DOMAIN items -> PlaidItem(U, C)]
    BY <1>1, <1>2, <1>3 DEF UpdatePlaidItemCursor
  <1>5. new \in PartialFunctions(S, PlaidItem(U, C))
    BY <1>1, <1>2, <1>4, TableIsFunction
  <1> QED
    BY <1>2, <1>3, <1>5

\* A new transaction gets its row, an old one keeps the row it has.
LEMMA TransactionRow ==
  ASSUME NEW S, NEW U, NEW txs \in PartialFunctions(S, Transaction(U)),
         NEW t \in S, t \notin DOMAIN txs, NEW u \in U, NEW b \in BOOLEAN
  PROVE  /\ CreateTransaction(txs, t, u, b) \in PartialFunctions(S, Transaction(U))
         /\ DOMAIN CreateTransaction(txs, t, u, b) = DOMAIN txs \cup {t}
         /\ CreateTransaction(txs, t, u, b)[t].user = u
         /\ \A k \in DOMAIN txs : CreateTransaction(txs, t, u, b)[k] = txs[k]
  <1> DEFINE row == [user |-> u, pending |-> b]
  <1>1. row \in Transaction(U) /\ row.user = u
    BY DEF Transaction
  <1>2. CreateTransaction(txs, t, u, b) = Insert(txs, t, row)
    BY DEF CreateTransaction
  <1> HIDE DEF row
  <1>3. /\ Insert(txs, t, row) \in PartialFunctions(S, Transaction(U))
        /\ DOMAIN Insert(txs, t, row) = DOMAIN txs \cup {t}
        /\ Insert(txs, t, row)[t] = row
        /\ \A k \in DOMAIN txs : k # t => Insert(txs, t, row)[k] = txs[k]
    BY <1>1, InsertRow
  <1> QED
    BY <1>1, <1>2, <1>3

\* The pending flag is all that an update of it changes.
LEMMA PendingRow ==
  ASSUME NEW S, NEW U, NEW txs \in PartialFunctions(S, Transaction(U)),
         NEW t, NEW b \in BOOLEAN
  PROVE  /\ UpdateTransactionPendingStatus(txs, t, b)
              \in PartialFunctions(S, Transaction(U))
         /\ DOMAIN UpdateTransactionPendingStatus(txs, t, b) = DOMAIN txs
         /\ \A k \in DOMAIN txs :
              UpdateTransactionPendingStatus(txs, t, b)[k].user = txs[k].user
  <1> DEFINE new == UpdateTransactionPendingStatus(txs, t, b)
  <1>1. DOMAIN txs \subseteq S /\ txs \in [DOMAIN txs -> Transaction(U)]
    BY TableIsFunction
  <1>2. DOMAIN new = DOMAIN txs
    BY DEF UpdateTransactionPendingStatus
  <1>3. ASSUME NEW k \in DOMAIN txs
        PROVE  new[k] \in Transaction(U) /\ new[k].user = txs[k].user
    <2>1. txs[k] \in Transaction(U)
      BY <1>1
    <2>2. new[k] = IF k = t THEN [txs[k] EXCEPT !.pending = b] ELSE txs[k]
      BY DEF UpdateTransactionPendingStatus
    <2> QED
      BY <2>1, <2>2 DEF Transaction
  <1>4. new \in [DOMAIN txs -> Transaction(U)]
    BY <1>2, <1>3 DEF UpdateTransactionPendingStatus
  <1>5. new \in PartialFunctions(S, Transaction(U))
    BY <1>1, <1>2, <1>4, TableIsFunction
  <1> QED
    BY <1>2, <1>3, <1>5

=============================================================================
