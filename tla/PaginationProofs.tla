-------------------------- MODULE PaginationProofs --------------------------
(***************************************************************************)
(* Theorems about Pagination for any transactions, dates, page sizes and   *)
(* width of integers.                                                      *)
(***************************************************************************)
EXTENDS Pagination, QueriesProofs, FiniteSetTheorems

Size == Cardinality(DOMAIN date)

\* A handler's count was right once, and rows only get more.
Counted == view.pc \in {"list", "shown"} => view.count <= Size

\* On a whole walk the next list begins among the rows that there are.
OnTheWay ==
  walk.whole =>
    /\ view.pc # "blank" /\ view.by = "dashboard" /\ view.limit = PageSize
    /\ (view.page - 1) * view.limit <= Size

\* How many rows the walk has gone past.
Passed == (IF view.pc = "shown" THEN view.page ELSE view.page - 1) * view.limit

\* What a whole walk has not shown yet is still ahead of it.
Ahead ==
  walk.whole =>
    \A t \in walk.from \ walk.seen : Alone(t) =>
      Cardinality(Later(date[t])) >= Passed

IInv ==
  /\ TypeOK
  /\ walk.from \subseteq DOMAIN date
  /\ Counted
  /\ OnTheWay
  /\ Ahead
  /\ NoneMissed

----------------------------------------------------------------------------
(* Numbers.                                                                *)

\* Numbers that an int32 can hold survive the conversion.
LEMMA Int32Exact ==
  ASSUME NEW n \in Nat, n < Half
  PROVE  Int32(n) = n
  <1>1. n + Half \in Nat /\ 2 * Half \in Nat /\ n + Half < 2 * Half
    BY RowAssumption
  <1>2. (n + Half) % (2 * Half) = n + Half
    BY <1>1
  <1> QED
    BY <1>2, RowAssumption DEF Int32

LEMMA Monotone ==
  ASSUME NEW m \in Nat, NEW n \in Nat, NEW k \in Nat, m <= n
  PROVE  m * k <= n * k
  OBVIOUS

\* A page that is counted begins before the last row, and the pages counted
\* hold all the rows.
LEMMA PagesHoldAll ==
  ASSUME NEW count \in Nat, NEW limit \in Nat \ {0}, NEW page \in Nat \ {0}
  PROVE  /\ TotalPages(count, limit) \in Nat
         /\ page <= TotalPages(count, limit) => (page - 1) * limit < count
         /\ page >= TotalPages(count, limit) => page * limit >= count
  <1> DEFINE total == TotalPages(count, limit)
             rows == count + limit - 1
  <1>1. rows \in Nat /\ total = rows \div limit
    BY DEF TotalPages
  <1>2. total \in Nat /\ total * limit <= rows /\ rows < total * limit + limit
    BY <1>1
  <1> HIDE DEF total
  <1>3. ASSUME page <= total PROVE (page - 1) * limit < count
    <2>1. page * limit <= total * limit
      BY <1>2, <1>3, Monotone
    <2>2. (page - 1) * limit = page * limit - limit
      OBVIOUS
    <2> QED
      BY <1>2, <2>1, <2>2
  <1>4. ASSUME page >= total PROVE page * limit >= count
    <2>1. total * limit <= page * limit
      BY <1>2, <1>4, Monotone
    <2> QED
      BY <1>2, <2>1
  <1> QED
    BY <1>2, <1>3, <1>4 DEF total

LEMMA OffsetType ==
  ASSUME NEW limit \in Nat \ {0}, NEW page \in Nat \ {0}
  PROVE  /\ (page - 1) * limit \in Nat /\ page * limit \in Nat
         /\ (page - 1) * limit + limit = page * limit
  OBVIOUS

\* The offset of a page that begins among the rows is exact.
LEMMA OffsetExact ==
  ASSUME NEW page \in Nat \ {0}, NEW limit \in Nat \ {0},
         (page - 1) * limit < Half
  PROVE  Offset(page, limit) = (page - 1) * limit
  <1>1. (page - 1) * limit \in Nat
    OBVIOUS
  <1> QED
    BY <1>1, Int32Exact DEF Offset

----------------------------------------------------------------------------
(* Rows.                                                                   *)

\* The table never has more rows than an int32 can count.
LEMMA RowsAreFinite ==
  ASSUME TypeOK
  PROVE  /\ DOMAIN date \subseteq Transactions
         /\ date \in [DOMAIN date -> Dates]
         /\ IsFiniteSet(DOMAIN date)
         /\ Size \in Nat /\ Size < Half
  <1>1. DOMAIN date \subseteq Transactions /\ date \in [DOMAIN date -> Dates]
    BY TableIsFunction DEF TypeOK
  <1>2. /\ IsFiniteSet(DOMAIN date)
        /\ Cardinality(DOMAIN date) <= Cardinality(Transactions)
    BY <1>1, FS_Subset, RowAssumption
  <1>3. Cardinality(DOMAIN date) \in Nat /\ Cardinality(Transactions) \in Nat
    BY <1>2, FS_CardinalityType, RowAssumption
  <1> QED
    BY <1>1, <1>2, <1>3, RowAssumption DEF Size

\* Every row is later than fewer rows than there are.
LEMMA LaterRows ==
  ASSUME TypeOK, NEW t \in DOMAIN date
  PROVE  /\ Cardinality(Later(date[t])) \in Nat
         /\ Cardinality(Later(date[t])) < Size
  <1>1. Later(date[t]) \subseteq DOMAIN date /\ IsFiniteSet(DOMAIN date)
    BY RowsAreFinite DEF Later
  <1>2. date[t] \in Int
    BY RowsAreFinite, DateAssumption
  <1>3. t \notin Later(date[t])
    BY <1>2 DEF Later
  <1>4. /\ Cardinality(Later(date[t])) <= Cardinality(DOMAIN date)
        /\ Cardinality(DOMAIN date) # Cardinality(Later(date[t]))
        /\ IsFiniteSet(Later(date[t]))
    BY <1>1, <1>3, FS_Subset
  <1> QED
    BY <1>1, <1>4, FS_CardinalityType DEF Size

\* A list has the row that is alone on its date exactly when its rank is
\* between offset and limit.
LEMMA ListOfAlone ==
  ASSUME TypeOK, NEW t \in DOMAIN date, Alone(t),
         NEW offset \in Nat, NEW limit \in Nat,
         NEW rows \in GetTransactionsByUserIDPaginated(offset, limit)
  PROVE  t \in rows <=> RankOf(t) > offset /\ RankOf(t) <= offset + limit
  <1> DEFINE rank == RankOf(t)
  <1>1. date[t] \in Dates
    BY RowsAreFinite
  <1>2. rank \in Nat
    BY LaterRows DEF RankOf
  <1>3. Of(date[t]) = {t}
    BY DEF Alone
  <1>4. Ranks(date[t]) = {rank}
    <2>1. Ranks(date[t]) = rank .. rank
      BY <1>3, FS_Singleton, LaterRows DEF Ranks, RankOf
    <2> QED
      BY <1>2, <2>1
  <1> DEFINE hit == {rank} \cap (offset + 1 .. offset + limit)
  <1>5. Cardinality(rows \cap {t}) = Cardinality(hit)
    BY <1>1, <1>3, <1>4 DEF GetTransactionsByUserIDPaginated
  <1>6. IsFiniteSet(hit) /\ IsFiniteSet(rows \cap {t})
    BY FS_Singleton, FS_Subset
  <1>7. hit = {} <=> rows \cap {t} = {}
    <2> HIDE DEF hit
    <2>1. Cardinality(hit) = 0 <=> hit = {}
      BY <1>6, FS_EmptySet
    <2>2. Cardinality(rows \cap {t}) = 0 <=> rows \cap {t} = {}
      BY <1>6, FS_EmptySet
    <2> QED
      BY <1>5, <2>1, <2>2
  <1> HIDE DEF rank
  <1>8. hit = {} <=> ~(rank > offset /\ rank <= offset + limit)
    BY <1>2
  <1> QED
    BY <1>7, <1>8 DEF rank

\* What a new row does to the others.
LEMMA StoredRow ==
  ASSUME TypeOK, NEW n \in Transactions, NEW d \in Dates,
         StoreTransaction(n, d)
  PROVE  /\ date' \in PartialFunctions(Transactions, Dates)
         /\ DOMAIN date' = DOMAIN date \cup {n}
         /\ Size' \in Nat /\ Size <= Size'
         /\ \A t \in DOMAIN date :
              /\ date'[t] = date[t]
              /\ Alone(t)' => Alone(t)
              /\ Cardinality(Later(date[t]))' \in Nat
              /\ Cardinality(Later(date[t])) <= Cardinality(Later(date[t]))'
  <1>1. date' \in PartialFunctions(Transactions, Dates)
    BY InsertRow DEF TypeOK, StoreTransaction
  <1>2. /\ DOMAIN date' = DOMAIN date \cup {n} /\ n \notin DOMAIN date
        /\ \A t \in DOMAIN date : date'[t] = date[t]
    BY DEF StoreTransaction, Insert
  <1>3. /\ IsFiniteSet(DOMAIN date')
        /\ Cardinality(DOMAIN date') \in Nat
        /\ Cardinality(DOMAIN date) <= Cardinality(DOMAIN date')
    <2>1. IsFiniteSet(DOMAIN date')
      BY <1>2, RowsAreFinite, FS_AddElement
    <2> QED
      BY <1>2, <2>1, FS_Subset, FS_CardinalityType
  <1>4. ASSUME NEW t \in DOMAIN date
        PROVE  /\ Alone(t)' => Alone(t)
               /\ Cardinality(Later(date[t]))' \in Nat
               /\ Cardinality(Later(date[t])) <= Cardinality(Later(date[t]))'
    <2>1. Of(date[t]) \subseteq Of(date[t])' /\ t \in Of(date[t])
      BY <1>2 DEF Of
    <2>2. Later(date[t]) \subseteq Later(date[t])'
      BY <1>2 DEF Later
    <2>3. IsFiniteSet(Later(date[t])')
      <3>1. Later(date[t])' \subseteq DOMAIN date'
        BY DEF Later
      <3> QED
        BY <1>3, <3>1, FS_Subset
    <2>4. Cardinality(Later(date[t])) <= Cardinality(Later(date[t])')
      BY <2>2, <2>3, FS_Subset
    <2>5. Cardinality(Later(date[t])') \in Nat
      BY <2>3, FS_CardinalityType
    <2> QED
      BY <2>1, <2>4, <2>5 DEF Alone
  <1> QED
    BY <1>1, <1>2, <1>3, <1>4 DEF Size

----------------------------------------------------------------------------
(* The inductive invariant.                                                *)

LEMMA ViewOf ==
  ASSUME TypeOK
  PROVE  /\ view.pc \in {"blank", "count", "list", "shown"}
         /\ view.pc # "blank" =>
              /\ view.by \in Handlers
              /\ view.page \in Nat \ {0} /\ view.limit \in Nat \ {0}
              /\ view.page - 1 \in Nat
         /\ view.pc \in {"list", "shown"} => view.count \in Nat
         /\ view.pc = "shown" =>
              view.rows \in SUBSET Transactions /\ view.grew \in BOOLEAN
         /\ walk.from \in SUBSET Transactions
         /\ walk.seen \in SUBSET Transactions
         /\ walk.whole \in BOOLEAN
  BY DEF TypeOK, View, Blank, Walk

LEMMA IInvInit == Init => IInv
  <1> SUFFICES ASSUME Init PROVE IInv
    OBVIOUS
  <1>1. date \in PartialFunctions(Transactions, Dates)
    BY EmptyTableType DEF Init
  <1>2. view \in View /\ view.pc = "blank"
    BY DEF Init, View, Blank
  <1>3. walk \in Walk /\ walk.whole = FALSE /\ walk.from = {}
    BY DEF Init, Walk
  <1> QED
    BY <1>1, <1>2, <1>3
       DEF IInv, TypeOK, Counted, OnTheWay, Ahead, NoneMissed

LEMMA StoreStep ==
  ASSUME IInv, NEW n \in Transactions, NEW d \in Dates, StoreTransaction(n, d)
  PROVE  IInv'
  <1>0. TypeOK /\ UNCHANGED <<view, walk>> /\ Size \in Nat
    BY RowsAreFinite DEF IInv, StoreTransaction
  <1>1. /\ date' \in PartialFunctions(Transactions, Dates)
        /\ DOMAIN date' = DOMAIN date \cup {n}
        /\ Size' \in Nat /\ Size <= Size'
        /\ \A t \in DOMAIN date :
             /\ date'[t] = date[t]
             /\ Alone(t)' => Alone(t)
             /\ Cardinality(Later(date[t]))' \in Nat
             /\ Cardinality(Later(date[t])) <= Cardinality(Later(date[t]))'
    BY <1>0, StoredRow
  <1>2. TypeOK'
    BY <1>0, <1>1 DEF TypeOK
  <1>4. walk'.from \subseteq DOMAIN date'
    BY <1>0, <1>1 DEF IInv
  <1>5. Counted' /\ OnTheWay'
    BY <1>0, <1>1, ViewOf DEF IInv, Counted, OnTheWay
  <1>6. Ahead'
    <2> SUFFICES ASSUME walk.whole, NEW t \in walk.from \ walk.seen, Alone(t)'
                 PROVE  Cardinality(Later(date[t]))' >= Passed'
      BY <1>0 DEF Ahead
    <2>1. t \in DOMAIN date
      BY DEF IInv
    <2>2. t \in DOMAIN date' /\ Passed' = Passed
      BY <1>0, <1>1, <2>1 DEF Passed
    <2>3. Cardinality(Later(date[t])) >= Passed
      BY <1>1, <2>1 DEF IInv, Ahead
    <2>4. Cardinality(Later(date[t])) \in Nat
      BY <1>0, <2>1, LaterRows
    <2>5. Passed \in Int
      BY <1>0, ViewOf DEF Passed, IInv, OnTheWay
    <2> QED
      BY <1>1, <2>1, <2>2, <2>3, <2>4, <2>5
  <1>7. NoneMissed'
    <2>1. Pages' = Pages
      BY <1>0 DEF Pages
    <2> QED
      BY <1>0, <1>1, <2>1 DEF IInv, NoneMissed
  <1> QED
    BY <1>2, <1>4, <1>5, <1>6, <1>7 DEF IInv

\* A request that asks for a page: what it has to hold for a whole walk.
LEMMA AskStep ==
  ASSUME IInv, UNCHANGED date,
         NEW page \in Nat \ {0}, NEW limit \in Nat \ {0}, NEW by \in Handlers,
         by = "api" => limit <= MaxLimit,
         view' = [pc |-> "count", by |-> by, page |-> page, limit |-> limit],
         walk' \in Walk, walk'.from \subseteq DOMAIN date,
         walk'.whole =>
           /\ by = "dashboard" /\ limit = PageSize /\ (page - 1) * limit <= Size
           /\ \A t \in walk'.from \ walk'.seen : Alone(t) =>
                Cardinality(Later(date[t])) >= (page - 1) * limit
  PROVE  IInv'
  <1>1. view' \in View
    BY DEF View
  <1>2. /\ view'.pc = "count" /\ view'.by = by
        /\ view'.page = page /\ view'.limit = limit
    OBVIOUS
  <1>3. TypeOK'
    BY <1>1, <1>2 DEF IInv, TypeOK
  <1>4. Counted' /\ OnTheWay' /\ NoneMissed'
    BY <1>2 DEF Counted, OnTheWay, NoneMissed, Size
  <1>5. Ahead'
    BY <1>2 DEF Ahead, Passed, Alone, Of, Later
  <1> QED
    BY <1>3, <1>4, <1>5 DEF IInv

LEMMA DashboardStep ==
  ASSUME IInv, NEW p \in Parameters, Dashboard(p)
  PROVE  IInv'
  <1>1. PageOf(p) \in Nat \ {0}
    BY LimitAssumption DEF PageOf
  <1>2. TypeOK /\ Size \in Nat /\ DOMAIN date \subseteq Transactions
    BY RowsAreFinite DEF IInv
  <1>3. /\ walk' \in Walk
        /\ walk'.from = DOMAIN date
        /\ walk'.whole => PageOf(p) = 1
    BY <1>2 DEF Dashboard, Walk
  <1>4. (1 - 1) * PageSize = 0 /\ PageSize \in Nat \ {0}
    BY LimitAssumption
  <1>5. \A t \in DOMAIN date : Cardinality(Later(date[t])) >= 0
    BY <1>2, LaterRows
  <1> DEFINE page == PageOf(p)
             handler == "dashboard"
  <1>6. view' = [pc |-> "count", by |-> handler, page |-> page,
                 limit |-> PageSize]
    BY DEF Dashboard
  <1>7. UNCHANGED date /\ handler \in Handlers /\ handler # "api"
    BY DEF Dashboard, Handlers
  <1>8. walk'.whole => page = 1
    BY <1>3
  <1> HIDE DEF page
  <1>9. ASSUME walk'.whole
        PROVE  /\ handler = "dashboard" /\ PageSize = PageSize
               /\ (page - 1) * PageSize <= Size
               /\ \A t \in walk'.from \ walk'.seen : Alone(t) =>
                    Cardinality(Later(date[t])) >= (page - 1) * PageSize
    <2>1. (page - 1) * PageSize = 0
      BY <1>4, <1>8, <1>9
    <2>2. 0 <= Size
      BY <1>2
    <2>3. \A t \in walk'.from : Cardinality(Later(date[t])) >= 0
      BY <1>3, <1>5
    <2> HIDE DEF handler
    <2>4. handler = "dashboard"
      BY DEF handler
    <2> QED
      BY <2>1, <2>2, <2>3, <2>4
  <1>10. page \in Nat \ {0}
    BY <1>1 DEF page
  <1> HIDE DEF handler
  <1> QED
    BY <1>3, <1>4, <1>6, <1>7, <1>9, <1>10, AskStep

LEMMA LinkStep ==
  ASSUME IInv, NextPage \/ Previous
  PROVE  IInv'
  <1> DEFINE page == view.page
             limit == view.limit
  <1>1. /\ TypeOK /\ Linked /\ UNCHANGED <<date, walk>> /\ Size \in Nat
        /\ view.pc = "shown" /\ view.by = "dashboard"
        /\ walk \in Walk /\ walk.from \subseteq DOMAIN date
    BY RowsAreFinite DEF IInv, TypeOK, NextPage, Previous, Linked
  <1>2. page \in Nat \ {0} /\ limit \in Nat \ {0} /\ view.count \in Nat
    BY <1>1, ViewOf
  <1>3. walk.whole =>
          /\ limit = PageSize /\ (page - 1) * limit <= Size
          /\ \A t \in walk.from \ walk.seen : Alone(t) =>
               Cardinality(Later(date[t])) >= page * limit
    BY <1>1 DEF IInv, OnTheWay, Ahead, Passed
  <1>4. PageSize \in Nat \ {0} /\ "dashboard" \in Handlers
    BY LimitAssumption DEF Handlers
  <1>5. CASE NextPage
    <2>1. page + 1 <= TotalPages(view.count, limit)
      <3>1. TotalPages(view.count, limit) \in Nat
        BY <1>2, PagesHoldAll
      <3> QED
        BY <1>2, <1>5, <3>1 DEF NextPage, Pages
    <2>2. page + 1 \in Nat \ {0} /\ (page + 1) - 1 = page
      BY <1>2
    <2>3. page * limit < view.count
      BY <1>2, <2>1, <2>2, PagesHoldAll
    <2>4. page * limit <= Size
      BY <1>1, <1>2, <2>3 DEF IInv, Counted
    <2>5. view' = [pc |-> "count", by |-> "dashboard", page |-> page + 1,
                   limit |-> PageSize]
      BY <1>5 DEF NextPage
    <2> QED
      BY <1>1, <1>3, <1>4, <2>2, <2>4, <2>5, AskStep
  <1>6. CASE Previous
    <2>1. page - 1 \in Nat \ {0}
      BY <1>2, <1>6 DEF Previous
    <2>2. /\ ((page - 1) - 1) * limit <= (page - 1) * limit
          /\ ((page - 1) - 1) * limit <= page * limit
          /\ ((page - 1) - 1) * limit \in Int
          /\ (page - 1) * limit \in Int /\ page * limit \in Int
      BY <1>2, <2>1, Monotone
    <2>3. view' = [pc |-> "count", by |-> "dashboard", page |-> page - 1,
                   limit |-> PageSize]
      BY <1>6 DEF Previous
    <2>4. \A t \in walk.from : Cardinality(Later(date[t])) \in Nat
      BY <1>1, LaterRows
    <2>5. walk.whole =>
            /\ limit = PageSize /\ ((page - 1) - 1) * limit <= Size
            /\ \A t \in walk.from \ walk.seen : Alone(t) =>
                 Cardinality(Later(date[t])) >= ((page - 1) - 1) * limit
      BY <1>1, <1>3, <2>2, <2>4
    <2> QED
      BY <1>1, <1>4, <2>1, <2>3, <2>5, AskStep
  <1> QED
    BY <1>5, <1>6

LEMMA GetTransactionsStep ==
  ASSUME IInv, NEW p \in Parameters, NEW l \in Parameters, GetTransactions(p, l)
  PROVE  IInv'
  <1>1. /\ PageOf(p) \in Nat \ {0} /\ LimitOf(l) \in Nat \ {0}
        /\ LimitOf(l) <= MaxLimit
    BY LimitAssumption DEF PageOf, LimitOf
  <1>2. /\ walk' \in Walk /\ walk'.whole = FALSE
        /\ walk'.from \subseteq DOMAIN date
    BY DEF GetTransactions, IInv, TypeOK, Walk
  <1> QED
    BY <1>1, <1>2, AskStep DEF GetTransactions, Handlers

LEMMA CountStep ==
  ASSUME IInv, Count \/ CountFails
  PROVE  IInv'
  <1>1. /\ TypeOK /\ UNCHANGED date /\ Size \in Nat /\ view.pc = "count"
        /\ walk.from \subseteq DOMAIN date
    BY RowsAreFinite DEF IInv, Count, CountFails
  <1>2. /\ view.by \in Handlers
        /\ view.page \in Nat \ {0} /\ view.limit \in Nat \ {0}
    BY <1>1, ViewOf
  <1>3. /\ walk' \in Walk /\ walk'.from = walk.from /\ walk'.seen = walk.seen
        /\ walk'.whole => walk.whole /\ Count
    BY <1>1 DEF TypeOK, Walk, Count, CountFails
  <1>4. CASE view' = Blank
    <2>1. view' \in View /\ view'.pc = "blank"
      BY <1>4 DEF View, Blank
    <2>2. ~walk'.whole
      BY <1>3, <1>4 DEF Count, Blank
    <2> QED
      BY <1>1, <1>3, <2>1, <2>2
         DEF IInv, TypeOK, Counted, OnTheWay, Ahead, NoneMissed
  <1>5. ASSUME NEW n \in Nat, n <= Size,
               view' = [pc |-> "list", by |-> view.by, page |-> view.page,
                        limit |-> view.limit, count |-> n]
        PROVE  IInv'
    <2>1. view' \in View
      BY <1>2, <1>5 DEF View
    <2>2. /\ view'.pc = "list" /\ view'.by = view.by /\ view'.count = n
          /\ view'.page = view.page /\ view'.limit = view.limit
      BY <1>5
    <2>3. TypeOK'
      BY <1>1, <1>3, <2>1, <2>2 DEF TypeOK
    <2>4. Counted' /\ NoneMissed'
      BY <1>1, <1>5, <2>2 DEF Counted, NoneMissed, Size
    <2>5. OnTheWay'
      BY <1>1, <1>3, <2>2 DEF IInv, OnTheWay, Size
    <2>6. Ahead'
      BY <1>1, <1>3, <2>2 DEF IInv, Ahead, Passed, Alone, Of, Later
    <2> QED
      BY <1>1, <1>3, <2>3, <2>4, <2>5, <2>6 DEF IInv
  <1>6. CASE Count
    BY <1>1, <1>5, <1>6 DEF Count, CountTransactionsByUserID, Size
  <1>7. CASE CountFails
    BY <1>1, <1>4, <1>5, <1>7 DEF CountFails
  <1> QED
    BY <1>6, <1>7

LEMMA ShownView ==
  ASSUME TypeOK, view.pc = "list", NEW rows \in SUBSET Transactions, Show(rows)
  PROVE  /\ view' \in View
         /\ view'.pc = "shown" /\ view'.by = view.by /\ view'.rows = rows
         /\ view'.page = view.page /\ view'.limit = view.limit
         /\ view'.count = view.count
         /\ view'.grew = (view.count # Size)
  <1>1. /\ view.by \in Handlers /\ view.count \in Nat
        /\ view.page \in Nat \ {0} /\ view.limit \in Nat \ {0}
    BY ViewOf
  <1>2. (view.count # Size) \in BOOLEAN
    OBVIOUS
  <1> QED
    BY <1>1, <1>2 DEF Show, View, CountTransactionsByUserID, Size

\* An exact list takes a row that is alone on its date with it.
LEMMA ListStep ==
  ASSUME IInv, List
  PROVE  IInv'
  <1> DEFINE page == view.page
             limit == view.limit
             offset == Offset(page, limit)
  <1>1. /\ TypeOK /\ UNCHANGED date /\ Size \in Nat /\ Size < Half
        /\ view.pc = "list" /\ walk.from \subseteq DOMAIN date
        /\ DOMAIN date \subseteq Transactions
    BY RowsAreFinite DEF IInv, List
  <1>2. /\ page \in Nat \ {0} /\ limit \in Nat \ {0}
        /\ view.count \in Nat /\ view.count <= Size
    BY <1>1, ViewOf DEF IInv, Counted
  <1>3. PICK rows \in GetTransactionsByUserIDPaginated(offset, limit) :
          Show(rows) /\ walk' = [walk EXCEPT !.seen = @ \cup rows]
    BY DEF List
  <1>4. rows \in SUBSET Transactions
    BY <1>1, <1>3 DEF GetTransactionsByUserIDPaginated
  <1>5. /\ view' \in View
        /\ view'.pc = "shown" /\ view'.by = view.by /\ view'.rows = rows
        /\ view'.page = page /\ view'.limit = limit
        /\ view'.count = view.count
        /\ view'.grew = (view.count # Size)
    BY <1>1, <1>3, <1>4, ShownView
  <1>6. /\ walk' \in Walk /\ walk'.from = walk.from
        /\ walk'.whole = walk.whole /\ walk'.seen = walk.seen \cup rows
    BY <1>1, <1>3, <1>4 DEF TypeOK, Walk
  <1>7. TypeOK'
    BY <1>1, <1>5, <1>6 DEF TypeOK
  <1>8. Counted' /\ OnTheWay'
    BY <1>1, <1>2, <1>5, <1>6 DEF IInv, Counted, OnTheWay, Size
  <1>9. ASSUME walk.whole, NEW t \in walk.from \ walk'.seen, Alone(t)
        PROVE  /\ Cardinality(Later(date[t])) \in Nat
               /\ Cardinality(Later(date[t])) < Size
               /\ Cardinality(Later(date[t])) >= page * limit
    <2>1. (page - 1) * limit <= Size /\ (page - 1) * limit \in Nat
      BY <1>1, <1>2, <1>9, OffsetType DEF IInv, OnTheWay
    <2>2. offset = (page - 1) * limit
      <3>1. (page - 1) * limit < Half
        BY <1>1, <2>1, RowAssumption
      <3> HIDE DEF page, limit
      <3> QED
        BY <1>2, <3>1, OffsetExact
    <2>3. t \in DOMAIN date /\ t \notin rows
      BY <1>1, <1>6, <1>9
    <2>4. ~(RankOf(t) > offset /\ RankOf(t) <= offset + limit)
      BY <1>1, <1>2, <1>3, <1>9, <2>1, <2>2, <2>3, ListOfAlone
    <2>5. Cardinality(Later(date[t])) >= (page - 1) * limit
      BY <1>1, <1>6, <1>9 DEF IInv, Ahead, Passed
    <2>6. /\ Cardinality(Later(date[t])) \in Nat
          /\ Cardinality(Later(date[t])) < Size
      BY <1>1, <2>3, LaterRows
    <2>7. (page - 1) * limit + limit = page * limit
      BY <1>2
    <2> QED
      BY <1>2, <2>1, <2>2, <2>4, <2>5, <2>6, <2>7 DEF RankOf
  <1>10. Ahead'
    BY <1>1, <1>5, <1>6, <1>9 DEF Ahead, Passed, Alone, Of, Later
  <1>11. NoneMissed'
    <2> SUFFICES ASSUME walk.whole, view.count = Size,
                        page >= TotalPages(view.count, limit),
                        NEW t \in walk.from, Alone(t), t \notin walk'.seen
                 PROVE  FALSE
      BY <1>1, <1>5, <1>6 DEF NoneMissed, Pages, Alone, Of
    <2>1. page * limit >= view.count
      BY <1>2, PagesHoldAll
    <2> QED
      BY <1>1, <1>2, <1>9, <2>1
  <1> QED
    BY <1>1, <1>6, <1>7, <1>8, <1>10, <1>11 DEF IInv

LEMMA ListFailsStep ==
  ASSUME IInv, ListFails
  PROVE  IInv'
  <1>1. /\ TypeOK /\ UNCHANGED date /\ view.pc = "list"
        /\ walk' \in Walk /\ ~walk'.whole /\ walk'.from \subseteq DOMAIN date
    BY DEF IInv, ListFails, TypeOK, Walk
  <1>2. /\ view' \in View
        /\ view'.pc # "blank" =>
             view'.by = view.by /\ view'.limit = view.limit
        /\ Counted'
    <2>1. CASE view' = Blank
      BY <2>1 DEF View, Blank, Counted
    <2>2. CASE Show({})
      BY <1>1, <2>2, ShownView DEF IInv, Counted, Size
    <2> QED
      BY <2>1, <2>2 DEF ListFails
  <1>3. TypeOK'
    BY <1>1, <1>2 DEF TypeOK
  <1> QED
    BY <1>1, <1>2, <1>3 DEF IInv, OnTheWay, Ahead, NoneMissed

LEMMA IInvStep == IInv /\ [Next]_vars => IInv'
  <1> SUFFICES ASSUME IInv, [Next]_vars PROVE IInv'
    OBVIOUS
  <1>1. CASE UNCHANGED vars
    BY <1>1 DEF vars, IInv, TypeOK, Counted, OnTheWay, Ahead, NoneMissed,
       Passed, Size, Alone, Of, Later, Pages
  <1> QED
    BY <1>1, StoreStep, DashboardStep, LinkStep, GetTransactionsStep, CountStep,
       ListStep, ListFailsStep DEF Next

----------------------------------------------------------------------------
(* The theorems.                                                           *)

\* The table, the answer and the history are well formed.
THEOREM TypeCorrect == Spec => []TypeOK
  <1>1. IInv => TypeOK
    BY DEF IInv
  <1> QED
    BY <1>1, IInvInit, IInvStep, PTL DEF Spec

\* Following the links to the end misses no row that was there at the start
\* and is alone on its date, for any number of rows a page and of syncs, if
\* none stored a row between the count and the list of the last page.
THEOREM WalksMissNothing == Spec => []NoneMissed
  <1>1. IInv => NoneMissed
    BY DEF IInv
  <1> QED
    BY <1>1, IInvInit, IInvStep, PTL DEF Spec

\* A counted page is exact: its offset is below the number of rows, and so
\* below what an int32 can hold.  So is an empty page after the last, as long
\* as its offset is below that.
THEOREM CountedPagesAreExact == Spec => PageIsExact
  <1>1. ASSUME IInv, [Next]_vars, AnswersPage, NEW t \in DOMAIN date, Alone(t)
        PROVE  t \in view'.rows <=>
                 /\ RankOf(t) > (view.page - 1) * view.limit
                 /\ RankOf(t) <= view.page * view.limit
    <2> DEFINE page == view.page
               limit == view.limit
               offset == Offset(page, limit)
    <2>1. /\ TypeOK /\ view.pc = "list" /\ view.by = "api"
          /\ Size \in Nat /\ Size < Half
      BY <1>1, RowsAreFinite DEF IInv, AnswersPage
    <2>2. /\ page \in Nat \ {0} /\ limit \in Nat \ {0}
          /\ view.count \in Nat /\ view.count <= Size
      BY <1>1, <2>1, ViewOf DEF IInv, Counted
    <2>3. (page - 1) * limit < Half /\ (page - 1) * limit \in Nat
      <3>1. CASE page <= TotalPages(view.count, limit)
        <4> HIDE DEF page, limit
        <4>1. (page - 1) * limit < view.count /\ (page - 1) * limit \in Nat
          BY <2>2, <3>1, PagesHoldAll, OffsetType
        <4> QED
          BY <2>1, <2>2, <4>1, RowAssumption
      <3>2. CASE (page - 1) * limit < Half
        <4> HIDE DEF page, limit
        <4> QED
          BY <2>2, <3>2, OffsetType
      <3> QED
        BY <1>1, <3>1, <3>2 DEF AnswersPage, Pages
    <2>4. offset = (page - 1) * limit
      <3> HIDE DEF page, limit
      <3> QED
        BY <2>2, <2>3, OffsetExact
    <2>5. List
      BY <1>1, <2>1 DEF AnswersPage, Next, vars, StoreTransaction, Dashboard,
         Answered, NextPage, Previous, Linked, GetTransactions, Count,
         CountFails, ListFails, Blank
    <2>6. PICK rows \in GetTransactionsByUserIDPaginated(offset, limit) : Show(rows)
      BY <2>5 DEF List
    <2>7. view'.rows = rows
      BY <2>6 DEF Show
    <2>8. t \in rows <=> RankOf(t) > offset /\ RankOf(t) <= offset + limit
      BY <1>1, <2>1, <2>2, <2>3, <2>4, <2>6, ListOfAlone
    <2>9. (page - 1) * limit + limit = page * limit
      BY <2>2
    <2> QED
      BY <2>4, <2>7, <2>8, <2>9
  <1>2. IInv /\ [Next]_vars =>
          [AnswersPage =>
             \A t \in DOMAIN date : Alone(t) =>
               (t \in view'.rows <=>
                  /\ RankOf(t) > (view.page - 1) * view.limit
                  /\ RankOf(t) <= view.page * view.limit)]_vars
    BY <1>1
  <1> QED
    BY <1>2, IInvInit, IInvStep, PTL DEF Spec, PageIsExact

=============================================================================
