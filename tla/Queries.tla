------------------------------ MODULE Queries ------------------------------
(***************************************************************************)
(* The SQL statements of internal/database/sqlc, as operators on tables.   *)
(*                                                                         *)
(* A table is a function from its unique key to the rest of the row; a key *)
(* outside the DOMAIN has no row.  Every statement runs on the connection  *)
(* pool itself (Queries.WithTx is never called), so it commits on its own: *)
(* one statement is one atomic step of a handler, and no two are.          *)
(* Columns no handler decides anything on (names, dates, JSON blobs,       *)
(* timestamps) are left out.                                               *)
(***************************************************************************)
EXTENDS Naturals

\* A partial function from S to T: the tables, and maps built by a handler.
PartialFunctions(S, T) == UNION {[D -> T] : D \in SUBSET S}

\* The table with one more row; the caller's guard says that key is free.
Insert(table, key, row) ==
  [k \in DOMAIN table \cup {key} |-> IF k = key THEN row ELSE table[k]]

EmptyTable == [k \in {} |-> 0]

----------------------------------------------------------------------------
(* plaid_items: item_id -> [user, cursor].  A cursor is the number of      *)
(* updates of the item's feed it stands behind; 0 is a NULL cursor.        *)

PlaidItem(Users, Cursors) == [user : Users, cursor : Cursors]

CreatePlaidItem(items, item, user) ==
  Insert(items, item, [user |-> user, cursor |-> 0])

\* The rows of one user, down to the columns syncItemTransactions reads.
GetPlaidItemsByUserID(items, user) ==
  [i \in {j \in DOMAIN items : items[j].user = user} |-> items[i].cursor]

UpdatePlaidItemCursor(items, item, cursor) ==
  [items EXCEPT ![item].cursor = cursor]

----------------------------------------------------------------------------
(* plaid_accounts: the set of account_ids with a row; itemOf gives         *)
(* the plaid_item_id column.                                               *)

CreatePlaidAccount(accounts, account) == accounts \cup {account}

GetPlaidAccountsByItemID(accounts, itemOf, item) ==
  {a \in accounts : itemOf[a] = item}

----------------------------------------------------------------------------
(* transactions: transaction_id -> [user, pending].                        *)

Transaction(Users) == [user : Users, pending : BOOLEAN]

\* Mutant: the parameters bound in another order than the columns.
CreateTransactionSwapped(transactions, id, user, pending) ==
  IF id \in DOMAIN transactions
    THEN transactions
    ELSE Insert(transactions, id, [user |-> id, pending |-> pending])

\* INSERT ... ON CONFLICT (transaction_id) DO NOTHING.
CreateTransaction(transactions, id, user, pending) ==
  IF id \in DOMAIN transactions
    THEN transactions
    ELSE Insert(transactions, id, [user |-> user, pending |-> pending])

\* UPDATE ... WHERE transaction_id = id: no row, no effect and no error.
UpdateTransactionPendingStatus(transactions, id, pending) ==
  [k \in DOMAIN transactions |->
     IF k = id THEN [transactions[k] EXCEPT !.pending = pending]
               ELSE transactions[k]]

----------------------------------------------------------------------------
(* wallet_members: pairs <<wallet, user>>, both columns being the key.     *)

\* JOIN ... LIMIT 1 without ORDER BY: any one wallet of the user may come.
GetWalletByUserID(members, Wallets, user) ==
  {w \in Wallets : <<w, user>> \in members}

GetWalletMembersByWalletID(members, Users, wallet) ==
  {u \in Users : <<wallet, u>> \in members}

AddWalletMember(members, wallet, user) == members \cup {<<wallet, user>>}

\* DELETE: no row, no effect and no error.
RemoveWalletMember(members, wallet, user) == members \ {<<wallet, user>>}

----------------------------------------------------------------------------
(* transaction_categorizations: <<transaction, wallet>> -> [type, by].     *)

CategoryTypes == {"shared", "individual"}

Categorization(Users) == [type : CategoryTypes, by : Users]

\* Mutant: the parameters bound in another order than the columns.
CreateCategorizationSwapped(categorizations, id, wallet, type, user) ==
  Insert(categorizations, <<id, wallet>>, [type |-> user, by |-> type])

CreateTransactionCategorization(categorizations, id, wallet, type, user) ==
  Insert(categorizations, <<id, wallet>>, [type |-> type, by |-> user])

\* Mutant: the statement's wallet_id condition lost.
DeleteCategorizationsAnywhere(categorizations, id, wallet) ==
  [k \in {c \in DOMAIN categorizations : c[1] # id} |-> categorizations[k]]

\* DELETE: no row, no effect and no error.
DeleteTransactionCategorization(categorizations, id, wallet) ==
  [k \in DOMAIN categorizations \ {<<id, wallet>>} |-> categorizations[k]]

\* Mutant: the join's wallet_id condition lost.
UncategorizedAnywhere(transactions, decisions, user, wallet) ==
  {t \in DOMAIN transactions :
     transactions[t].user = user /\ \A k \in DOMAIN decisions : k[1] # t}

GetUncategorizedTransactionsByUserID(transactions, decisions, user, wallet) ==
  {t \in DOMAIN transactions :
     transactions[t].user = user /\ <<t, wallet>> \notin DOMAIN decisions}

----------------------------------------------------------------------------
(* users: email -> the password its hash was made from.  The serial id is  *)
(* one per row, so the e-mail address stands for it.                       *)

\* Mutants: the parameters bound in another order than the columns, and
\* ON CONFLICT (email) DO UPDATE.
CreateUserSwapped(users, email, password) ==
  IF email \in DOMAIN users THEN users ELSE Insert(users, password, email)

CreateUserUpserting(users, email, password) == Insert(users, email, password)

\* idx_users_email is unique: a second row for an address is refused.
CreateUser(users, email, password) ==
  IF email \in DOMAIN users THEN users ELSE Insert(users, email, password)

\* No row, or one.
GetUserByEmail(users, email) == {u \in DOMAIN users : u = email}

=============================================================================
