----------------------------- MODULE Pagination -----------------------------
(***************************************************************************)
(* A user's transactions page by page: handlers/dashboard.go with the      *)
(* links of dashboard.templ, and GetTransactions of                        *)
(* handlers/transactions.go.                                               *)
(*                                                                         *)
(* Both count the rows in one statement and list a page of them in         *)
(* another, while syncs store more.  Rows of one date come in any order,   *)
(* another one each time.  No statement deletes a transaction.             *)
(***************************************************************************)
EXTENDS Integers, FiniteSets, Queries

CONSTANTS
  Transactions,  \* transaction ids of one user
  Dates,         \* dates, as numbers
  PageSize,      \* the dashboard's 10 rows
  DefaultLimit,  \* GetTransactions: 20 rows
  MaxLimit,      \* GetTransactions: 100 rows at most
  Half,          \* 2^31: the first number that an int32 is too small for
  Parameters     \* bound: the numbers given for page and limit

ASSUME DateAssumption == Dates \subseteq Int
ASSUME LimitAssumption ==
  /\ PageSize \in Nat \ {0}
  /\ MaxLimit \in Nat \ {0} /\ DefaultLimit \in 1..MaxLimit
  /\ Parameters \subseteq Int

\* The key of a transaction is a serial, an int32 too.
ASSUME RowAssumption ==
  /\ Half \in Nat
  /\ IsFiniteSet(Transactions) /\ Cardinality(Transactions) < Half

VARIABLES
  date,  \* table: transaction -> its date
  view,  \* the request under way, or what the client was answered
  walk   \* history: following the dashboard's links from page 1

vars == <<date, view, walk>>

----------------------------------------------------------------------------
(* Numbers.                                                                *)

\* int32(n): the low 32 bits.  What the product overflowed is cut as well.
Int32(n) == ((n + Half) % (2 * Half)) - Half

\* Mutant: pages counted from 0.
OffsetFromZero(page, limit) == Int32(page * limit)

Offset(page, limit) == Int32((page - 1) * limit)

\* Mutant: a last page that is not full does not count.
FullPages(count, limit) == count \div limit

TotalPages(count, limit) == (count + limit - 1) \div limit

PageOf(parameter) == IF parameter > 0 THEN parameter ELSE 1

\* Mutant: no limit of the limit.
LimitUncapped(parameter) == IF parameter > 0 THEN parameter ELSE DefaultLimit

LimitOf(parameter) ==
  IF parameter > 0 /\ parameter <= MaxLimit THEN parameter ELSE DefaultLimit

----------------------------------------------------------------------------
(* Statements.                                                             *)

CountTransactionsByUserID == Cardinality(DOMAIN date)

Of(d) == {t \in DOMAIN date : date[t] = d}

Later(d) == {t \in DOMAIN date : date[t] > d}

\* Where ORDER BY date DESC puts the rows of a date.
Ranks(d) ==
  Cardinality(Later(d)) + 1 .. Cardinality(Later(d)) + Cardinality(Of(d))

\* LIMIT and OFFSET: of every date as many rows as have a rank between the
\* two, whichever they are.
GetTransactionsByUserIDPaginated(offset, limit) ==
  {S \in SUBSET DOMAIN date :
     \A d \in Dates :
       Cardinality(S \cap Of(d))
         = Cardinality(Ranks(d) \cap (offset + 1 .. offset + limit))}

----------------------------------------------------------------------------

Handlers == {"dashboard", "api"}

Blank == [pc |-> "blank"]

\* grew: rows were stored between count and list.
View ==
  {Blank}
    \cup [pc : {"count"}, by : Handlers, page : Nat \ {0}, limit : Nat \ {0}]
    \cup [pc : {"list"}, by : Handlers, page : Nat \ {0}, limit : Nat \ {0},
          count : Nat]
    \cup [pc : {"shown"}, by : Handlers, page : Nat \ {0}, limit : Nat \ {0},
          count : Nat, rows : SUBSET Transactions, grew : BOOLEAN]

\* whole: from page 1 on by links, and no statement failed.
Walk == [from : SUBSET Transactions, seen : SUBSET Transactions,
         whole : BOOLEAN]

Init ==
  /\ date = EmptyTable
  /\ view = Blank
  /\ walk = [from |-> {}, seen |-> {}, whole |-> FALSE]

\* A sync stores a transaction, of any date.
StoreTransaction(t, d) ==
  /\ t \notin DOMAIN date
  /\ date' = Insert(date, t, d)
  /\ UNCHANGED <<view, walk>>

Answered == view.pc \in {"blank", "shown"}

\* GET /dashboard?page=parameter, typed or bookmarked.
Dashboard(parameter) ==
  /\ Answered
  /\ view' = [pc |-> "count", by |-> "dashboard", page |-> PageOf(parameter),
              limit |-> PageSize]
  /\ walk' = [from |-> DOMAIN date, seen |-> {},
              whole |-> PageOf(parameter) = 1]
  /\ UNCHANGED date

Pages == TotalPages(view.count, view.limit)

\* The links under the list; there are none under an empty one.
Linked == view.pc = "shown" /\ view.by = "dashboard" /\ view.rows # {}

NextPage ==
  /\ Linked /\ view.page < Pages
  /\ view' = [pc |-> "count", by |-> "dashboard", page |-> view.page + 1,
              limit |-> PageSize]
  /\ UNCHANGED <<date, walk>>

Previous ==
  /\ Linked /\ Pages > 1 /\ view.page > 1
  /\ view' = [pc |-> "count", by |-> "dashboard", page |-> view.page - 1,
              limit |-> PageSize]
  /\ UNCHANGED <<date, walk>>

\* GET /api/transactions?page=p&limit=l.
GetTransactions(p, l) ==
  /\ Answered
  /\ view' = [pc |-> "count", by |-> "api", page |-> PageOf(p),
              limit |-> LimitOf(l)]
  /\ walk' = [walk EXCEPT !.whole = FALSE]
  /\ UNCHANGED date

Count ==
  /\ view.pc = "count"
  /\ view' = [pc |-> "list", by |-> view.by, page |-> view.page,
              limit |-> view.limit, count |-> CountTransactionsByUserID]
  /\ UNCHANGED <<date, walk>>

\* The dashboard goes on with a count of 0.
CountFails ==
  /\ view.pc = "count"
  /\ view' = IF view.by = "api"
       THEN Blank
       ELSE [pc |-> "list", by |-> view.by, page |-> view.page,
             limit |-> view.limit, count |-> 0]
  /\ walk' = [walk EXCEPT !.whole = FALSE]
  /\ UNCHANGED date

Show(rows) ==
  view' = [pc |-> "shown", by |-> view.by, page |-> view.page,
           limit |-> view.limit, count |-> view.count, rows |-> rows,
           grew |-> view.count # CountTransactionsByUserID]

List ==
  /\ view.pc = "list" /\ Offset(view.page, view.limit) >= 0
  /\ \E rows \in GetTransactionsByUserIDPaginated(
                   Offset(view.page, view.limit), view.limit) :
       /\ Show(rows)
       /\ walk' = [walk EXCEPT !.seen = @ \cup rows]
  /\ UNCHANGED date

\* A negative OFFSET is an error as well.  The dashboard shows no rows.
ListFails ==
  /\ view.pc = "list"
  /\ IF view.by = "api" THEN view' = Blank ELSE Show({})
  /\ walk' = [walk EXCEPT !.whole = FALSE]
  /\ UNCHANGED date

Next ==
  \/ \E t \in Transactions, d \in Dates : StoreTransaction(t, d)
  \/ \E p \in Parameters :
       \/ Dashboard(p)
       \/ \E l \in Parameters : GetTransactions(p, l)
  \/ NextPage \/ Previous
  \/ Count \/ CountFails
  \/ List \/ ListFails

Spec == Init /\ [][Next]_vars

----------------------------------------------------------------------------
(* Properties.                                                             *)

\* The table, the answer and the history are well formed.
TypeOK ==
  /\ date \in PartialFunctions(Transactions, Dates)
  /\ view \in View
  /\ view.pc # "blank" /\ view.by = "api" => view.limit <= MaxLimit
  /\ walk \in Walk

\* The one row of its date: the one whose rank is no matter of luck.
Alone(t) == Of(date[t]) = {t}

RankOf(t) == Cardinality(Later(date[t])) + 1

\* Who follows the links from page 1 to a page without one has seen every
\* row that was there at the start and is alone on its date, though syncs
\* push rows down meanwhile; unless one did so between the count and the
\* list of that last page.
NoneMissed ==
  walk.whole /\ view.pc = "shown" /\ ~view.grew /\ view.page >= Pages =>
    \A t \in walk.from : Alone(t) => t \in walk.seen

\* GetTransactions answers with a page that it counts among its pages, or
\* one beyond them that begins within the numbers of an int32.
AnswersPage ==
  /\ view.pc = "list" /\ view'.pc = "shown" /\ view.by = "api"
  /\ view.page <= Pages \/ (view.page - 1) * view.limit < Half

\* Such a page holds its rows and no other, none if it is beyond the last:
\* no page that is counted is one whose offset an int32 cuts, although the
\* handler never compares the two.  Pages further out are not exact: their
\* offsets wrap, to those of other pages or to negative ones.
PageIsExact ==
  [][AnswersPage =>
       \A t \in DOMAIN date : Alone(t) =>
         (t \in view'.rows <=>
            /\ RankOf(t) > (view.page - 1) * view.limit
            /\ RankOf(t) <= view.page * view.limit)]_vars

=============================================================================
