------------------------ MODULE CategorizationProofs ------------------------
(***************************************************************************)
(* Theorems about Categorization for any users, wallets, transactions and  *)
(* request slots.                                                          *)
(***************************************************************************)
EXTENDS Categorization, QueriesProofs

\* A request about to decide has found the transaction its user's own.
HoldsOwn ==
  \A r \in Requests : req[r].pc = "decide" =>
    OwnTransaction(req[r].decision.by, req[r].decision.tx)

IInv ==
  /\ TypeOK
  /\ HoldsOwn
  /\ OwnerDecides
  /\ AcceptedIsStored
  /\ NothingHidden

----------------------------------------------------------------------------
(* Requests.                                                               *)

\* The pc of a request tells which fields it has.
LEMMA StageOf ==
  ASSUME NEW q \in Request
  PROVE  /\ q.pc \in {"idle", "list", "show", "decide"}
         /\ q.pc \in {"list", "show"} => q.user \in Users /\ q.wallet \in Wallets
         /\ q.pc = "show" =>
              /\ q.listed \in SUBSET Transactions
              /\ q.since \in SUBSET Transactions
              /\ q \in [pc : {"show"}, user : Users, wallet : Wallets,
                        listed : SUBSET Transactions,
                        since : SUBSET Transactions]
         /\ q.pc = "decide" => q.decision \in Decision
  BY DEF Request, Idle

\* A step of one request leaves the others where they are.
LEMMA GotoType ==
  ASSUME TypeOK, NEW r \in Requests, NEW stage \in Request, Goto(r, stage)
  PROVE  /\ req' \in [Requests -> Request]
         /\ req'[r] = stage
         /\ \A o \in Requests : o # r => req'[o] = req[o]
  BY DEF TypeOK, Goto

\* A list that gets out of date only has more in since.
LEMMA OutdateType ==
  ASSUME TypeOK, NEW t \in Transactions, NEW S \in SUBSET Showing,
         Outdate(t, S)
  PROVE  /\ req' \in [Requests -> Request]
         /\ \A r \in Requests : req[r].pc # "show" => req'[r] = req[r]
         /\ \A r \in Requests : req'[r].pc = req[r].pc
         /\ \A r \in Showing :
              /\ req'[r].user = req[r].user
              /\ req'[r].wallet = req[r].wallet
              /\ req'[r].listed = req[r].listed
              /\ req[r].since \subseteq req'[r].since
              /\ r \in S => t \in req'[r].since
  <1>1. \A r \in Requests : req[r] \in Request
    BY DEF TypeOK
  <1>2. \A r \in Requests :
          req'[r] = IF r \in S THEN [req[r] EXCEPT !.since = @ \cup {t}]
                               ELSE req[r]
    BY DEF Outdate
  <1>3. ASSUME NEW r \in S
        PROVE  /\ r \in Requests /\ req[r].pc = "show"
               /\ req'[r] \in Request
               /\ req'[r].pc = "show"
               /\ req'[r].user = req[r].user
               /\ req'[r].wallet = req[r].wallet
               /\ req'[r].listed = req[r].listed
               /\ req'[r].since = req[r].since \cup {t}
    <2>1. r \in Requests /\ req[r].pc = "show"
      BY <1>3 DEF Showing
    <2>2. req[r] \in [pc : {"show"}, user : Users, wallet : Wallets,
                      listed : SUBSET Transactions,
                      since : SUBSET Transactions]
      BY <1>1, <2>1, StageOf
    <2> DEFINE new == [req[r] EXCEPT !.since = @ \cup {t}]
    <2>3. req'[r] = new
      BY <1>2, <1>3, <2>1
    <2>4. /\ new \in [pc : {"show"}, user : Users, wallet : Wallets,
                       listed : SUBSET Transactions,
                       since : SUBSET Transactions]
          /\ new.user = req[r].user /\ new.wallet = req[r].wallet
          /\ new.listed = req[r].listed /\ new.since = req[r].since \cup {t}
      BY <2>2
    <2>5. new \in Request /\ new.pc = "show"
      BY <2>4 DEF Request
    <2> HIDE DEF new
    <2> QED
      BY <2>1, <2>3, <2>4, <2>5
  <1>4. req' \in [Requests -> Request]
    BY <1>1, <1>2, <1>3 DEF Outdate
  <1> QED
    BY <1>2, <1>3, <1>4 DEF Showing

----------------------------------------------------------------------------
(* Tables.                                                                 *)

\* Storing a decision adds its row and keeps the others.
LEMMA DecisionRow ==
  ASSUME TypeOK, NEW d \in Decision, ~Decided(d),
         categorizations' = CreateTransactionCategorization(
           categorizations, d.tx, d.wallet, d.type, d.by)
  PROVE  /\ categorizations' \in PartialFunctions(Transactions \X Wallets,
                                                  Categorization(Users))
         /\ DOMAIN categorizations'
              = DOMAIN categorizations \cup {<<d.tx, d.wallet>>}
         /\ categorizations'[<<d.tx, d.wallet>>]
              = [type |-> d.type, by |-> d.by]
         /\ \A k \in DOMAIN categorizations :
              categorizations'[k] = categorizations[k]
  <1> DEFINE row == [type |-> d.type, by |-> d.by]
             key == <<d.tx, d.wallet>>
  <1>1. categorizations \in PartialFunctions(Transactions \X Wallets,
                                             Categorization(Users))
    BY DEF TypeOK
  <1>2. row \in Categorization(Users) /\ key \in Transactions \X Wallets
    BY DEF Decision, Categorization
  <1>3. categorizations' = Insert(categorizations, key, row)
    BY DEF CreateTransactionCategorization
  <1>4. key \notin DOMAIN categorizations
    BY DEF Decided
  <1>5. SUFFICES
          /\ categorizations' \in PartialFunctions(Transactions \X Wallets,
                                                   Categorization(Users))
          /\ DOMAIN categorizations' = DOMAIN categorizations \cup {key}
          /\ categorizations'[key] = row
          /\ \A k \in DOMAIN categorizations :
               categorizations'[k] = categorizations[k]
    OBVIOUS
  <1> HIDE DEF row, key
  <1> DEFINE keys == Transactions \X Wallets
             rows == Categorization(Users)
  <1>6. /\ categorizations \in PartialFunctions(keys, rows)
        /\ key \in keys /\ row \in rows
    BY <1>1, <1>2
  <1> HIDE DEF keys, rows
  <1>7. /\ Insert(categorizations, key, row) \in PartialFunctions(keys, rows)
        /\ DOMAIN Insert(categorizations, key, row)
             = DOMAIN categorizations \cup {key}
        /\ Insert(categorizations, key, row)[key] = row
        /\ \A k \in DOMAIN categorizations : k # key =>
             Insert(categorizations, key, row)[k] = categorizations[k]
    BY <1>6, InsertRow
  <1> QED
    BY <1>3, <1>4, <1>7 DEF keys, rows

\* Withdrawing a decision drops its row and keeps the others.
LEMMA WithdrawnRow ==
  ASSUME TypeOK, NEW t, NEW w,
         categorizations' =
           DeleteTransactionCategorization(categorizations, t, w)
  PROVE  /\ categorizations' \in PartialFunctions(Transactions \X Wallets,
                                                  Categorization(Users))
         /\ DOMAIN categorizations' = DOMAIN categorizations \ {<<t, w>>}
         /\ \A k \in DOMAIN categorizations' :
              categorizations'[k] = categorizations[k]
  <1>1. /\ DOMAIN categorizations \subseteq Transactions \X Wallets
        /\ categorizations \in [DOMAIN categorizations -> Categorization(Users)]
    BY TableIsFunction DEF TypeOK
  <1>2. /\ DOMAIN categorizations' = DOMAIN categorizations \ {<<t, w>>}
        /\ categorizations' \in [DOMAIN categorizations \ {<<t, w>>}
                                   -> Categorization(Users)]
    BY <1>1 DEF DeleteTransactionCategorization
  <1>3. categorizations' \in PartialFunctions(Transactions \X Wallets,
                                              Categorization(Users))
    BY <1>1, <1>2, TableIsFunction
  <1> QED
    BY <1>2, <1>3 DEF DeleteTransactionCategorization

----------------------------------------------------------------------------
(* The inductive invariant.                                                *)

LEMMA IInvInit == Init => IInv
  <1> SUFFICES ASSUME Init PROVE IInv
    OBVIOUS
  <1>1. /\ transactions \in PartialFunctions(Transactions, Transaction(Users))
        /\ categorizations \in PartialFunctions(Transactions \X Wallets,
                                                Categorization(Users))
        /\ DOMAIN transactions = {} /\ DOMAIN categorizations = {}
    BY EmptyTableType DEF Init
  <1>2. /\ req \in [Requests -> Request]
        /\ \A r \in Requests : req[r].pc = "idle"
    BY DEF Init, Request, Idle
  <1>3. accepted = {} /\ failures \in 0..MaxFailures
    BY FailureAssumption DEF Init
  <1> QED
    BY <1>1, <1>2, <1>3
       DEF IInv, TypeOK, HoldsOwn, OwnerDecides, AcceptedIsStored, NothingHidden,
           Stored

\* A request that goes idle, or on to look for its list, holds nothing that
\* the tables have to answer for.
LEMMA RequestMoves ==
  ASSUME IInv, req' \in [Requests -> Request],
         \A o \in Requests :
           req'[o] = req[o] \/ req'[o].pc \in {"idle", "list"},
         UNCHANGED <<transactions, categorizations, accepted>>,
         failures' \in 0..MaxFailures
  PROVE  IInv'
  <1>1. TypeOK'
    BY DEF IInv, TypeOK
  <1>2. HoldsOwn'
    BY DEF IInv, HoldsOwn, OwnTransaction
  <1>3. OwnerDecides' /\ AcceptedIsStored'
    BY DEF IInv, OwnerDecides, AcceptedIsStored, Stored
  <1>4. NothingHidden'
    BY DEF IInv, NothingHidden
  <1> QED
    BY <1>1, <1>2, <1>3, <1>4 DEF IInv

LEMMA StoreTransactionStep ==
  ASSUME IInv, NEW t \in Transactions, NEW u \in Users, StoreTransaction(t, u)
  PROVE  IInv'
  <1> DEFINE S == {r \in Showing : req[r].user = u}
  <1>0. TypeOK /\ Outdate(t, S) /\ UNCHANGED <<categorizations, accepted, failures>>
    BY DEF IInv, StoreTransaction
  <1>1. /\ transactions' \in PartialFunctions(Transactions, Transaction(Users))
        /\ DOMAIN transactions' = DOMAIN transactions \cup {t}
        /\ transactions'[t].user = u
        /\ \A s \in DOMAIN transactions : transactions'[s] = transactions[s]
    <2> DEFINE settled == FALSE
               new == CreateTransaction(transactions, t, u, settled)
    <2>1. /\ transactions \in PartialFunctions(Transactions, Transaction(Users))
          /\ t \notin DOMAIN transactions
          /\ transactions' = new
          /\ settled \in BOOLEAN /\ t \in Transactions /\ u \in Users
      BY <1>0 DEF TypeOK, StoreTransaction
    <2> HIDE DEF settled, S
    <2>2. /\ new \in PartialFunctions(Transactions, Transaction(Users))
          /\ DOMAIN new = DOMAIN transactions \cup {t}
          /\ new[t].user = u
          /\ \A s \in DOMAIN transactions : new[s] = transactions[s]
      BY Z3, <2>1, TransactionRow
    <2> QED
      BY <2>1, <2>2
  <1>2. /\ req' \in [Requests -> Request]
        /\ \A r \in Requests : req[r].pc # "show" => req'[r] = req[r]
        /\ \A r \in Requests : req'[r].pc = req[r].pc
        /\ \A r \in Showing :
             /\ req'[r].user = req[r].user
             /\ req'[r].wallet = req[r].wallet
             /\ req'[r].listed = req[r].listed
             /\ req[r].since \subseteq req'[r].since
             /\ r \in S => t \in req'[r].since
    BY <1>0, OutdateType
  <1>3. TypeOK'
    BY <1>0, <1>1, <1>2 DEF TypeOK
  <1>4. HoldsOwn'
    BY <1>1, <1>2 DEF IInv, HoldsOwn, OwnTransaction
  <1>5. OwnerDecides'
    BY <1>0, <1>1 DEF IInv, OwnerDecides
  <1>6. AcceptedIsStored'
    BY <1>0 DEF IInv, AcceptedIsStored, Stored
  <1>7. NothingHidden'
    <2> SUFFICES ASSUME NEW r \in Requests, req'[r].pc = "show",
                        NEW s \in DOMAIN transactions',
                        transactions'[s].user = req'[r].user
                 PROVE  \/ s \in req'[r].listed \cup req'[r].since
                        \/ <<s, req'[r].wallet>> \in DOMAIN categorizations'
      BY DEF NothingHidden
    <2>1. r \in Showing
      BY <1>2 DEF Showing
    <2>2. CASE s = t
      BY <1>1, <1>2, <2>1, <2>2
    <2>3. CASE s # t
      BY <1>0, <1>1, <1>2, <2>1, <2>3 DEF IInv, NothingHidden
    <2> QED
      BY <2>2, <2>3
  <1> QED
    BY <1>3, <1>4, <1>5, <1>6, <1>7 DEF IInv

LEMMA UncategorizeStep ==
  ASSUME IInv, NEW t \in Transactions, NEW w \in Wallets,
         UncategorizeTransaction(t, w)
  PROVE  IInv'
  <1> DEFINE S == {r \in Showing : req[r].wallet = w}
  <1>0. /\ TypeOK /\ Outdate(t, S) /\ UNCHANGED <<transactions, failures>>
        /\ accepted' = {d \in accepted : d.tx # t \/ d.wallet # w}
    BY DEF IInv, UncategorizeTransaction
  <1>1. /\ categorizations' \in PartialFunctions(Transactions \X Wallets,
                                                 Categorization(Users))
        /\ DOMAIN categorizations' = DOMAIN categorizations \ {<<t, w>>}
        /\ \A k \in DOMAIN categorizations' :
             categorizations'[k] = categorizations[k]
    BY <1>0, WithdrawnRow DEF UncategorizeTransaction
  <1>2. /\ req' \in [Requests -> Request]
        /\ \A r \in Requests : req[r].pc # "show" => req'[r] = req[r]
        /\ \A r \in Requests : req'[r].pc = req[r].pc
        /\ \A r \in Showing :
             /\ req'[r].user = req[r].user
             /\ req'[r].wallet = req[r].wallet
             /\ req'[r].listed = req[r].listed
             /\ req[r].since \subseteq req'[r].since
             /\ r \in S => t \in req'[r].since
    BY <1>0, OutdateType
  <1>3. TypeOK'
    BY <1>0, <1>1, <1>2 DEF TypeOK
  <1>4. HoldsOwn'
    BY <1>0, <1>2 DEF IInv, HoldsOwn, OwnTransaction
  <1>5. OwnerDecides'
    BY <1>0, <1>1 DEF IInv, OwnerDecides
  <1>6. AcceptedIsStored'
    <2>1. \A d \in accepted' : <<d.tx, d.wallet>> # <<t, w>>
      BY <1>0
    <2> QED
      BY <1>0, <1>1, <2>1 DEF IInv, AcceptedIsStored, Stored
  <1>7. NothingHidden'
    <2> SUFFICES ASSUME NEW r \in Requests, req'[r].pc = "show",
                        NEW s \in DOMAIN transactions',
                        transactions'[s].user = req'[r].user
                 PROVE  \/ s \in req'[r].listed \cup req'[r].since
                        \/ <<s, req'[r].wallet>> \in DOMAIN categorizations'
      BY DEF NothingHidden
    <2>1. r \in Showing
      BY <1>2 DEF Showing
    <2>2. \/ s \in req[r].listed \cup req[r].since
          \/ <<s, req[r].wallet>> \in DOMAIN categorizations
      BY <1>0, <1>2, <2>1 DEF IInv, NothingHidden
    <2>3. CASE s = t /\ req[r].wallet = w
      BY <1>2, <2>1, <2>3
    <2>4. CASE ~(s = t /\ req[r].wallet = w)
      BY <1>1, <1>2, <2>1, <2>2, <2>4
    <2> QED
      BY <2>3, <2>4
  <1> QED
    BY <1>3, <1>4, <1>5, <1>6, <1>7 DEF IInv

LEMMA ListStep ==
  ASSUME IInv, NEW r \in Requests, ListUncategorized(r)
  PROVE  IInv'
  <1> DEFINE listed == GetUncategorizedTransactionsByUserID(
               transactions, categorizations, req[r].user, req[r].wallet)
             stage == [pc |-> "show", user |-> req[r].user,
                       wallet |-> req[r].wallet, listed |-> listed,
                       since |-> {}]
  <1>0. /\ TypeOK /\ req[r] \in Request /\ req[r].pc = "list"
        /\ Goto(r, stage)
        /\ UNCHANGED <<transactions, categorizations, accepted, failures>>
    BY DEF IInv, TypeOK, ListUncategorized
  <1>1. listed \in SUBSET Transactions
    BY <1>0, TableIsFunction DEF TypeOK, GetUncategorizedTransactionsByUserID
  <1>2. stage \in Request
    BY <1>0, <1>1, StageOf DEF Request
  <1>3. /\ req' \in [Requests -> Request]
        /\ req'[r] = stage
        /\ \A o \in Requests : o # r => req'[o] = req[o]
    BY <1>0, <1>2, GotoType
  <1>4. TypeOK'
    BY <1>0, <1>3 DEF TypeOK
  <1>5. HoldsOwn'
    BY <1>0, <1>3 DEF IInv, HoldsOwn, OwnTransaction
  <1>6. OwnerDecides' /\ AcceptedIsStored'
    BY <1>0 DEF IInv, OwnerDecides, AcceptedIsStored, Stored
  <1>7. NothingHidden'
    <2> SUFFICES ASSUME NEW o \in Requests, req'[o].pc = "show",
                        NEW t \in DOMAIN transactions,
                        transactions[t].user = req'[o].user
                 PROVE  \/ t \in req'[o].listed \cup req'[o].since
                        \/ <<t, req'[o].wallet>> \in DOMAIN categorizations
      BY <1>0 DEF NothingHidden
    <2>1. CASE o = r
      BY <1>3, <2>1 DEF GetUncategorizedTransactionsByUserID
    <2>2. CASE o # r
      BY <1>3, <2>2 DEF IInv, NothingHidden
    <2> QED
      BY <2>1, <2>2
  <1> QED
    BY <1>4, <1>5, <1>6, <1>7 DEF IInv

LEMMA CategorizeStep ==
  ASSUME IInv, NEW r \in Requests, NEW d \in Decision,
         CategorizeTransaction(r, d)
  PROVE  IInv'
  <1>0. /\ TypeOK /\ OwnTransaction(d.by, d.tx)
        /\ Goto(r, [pc |-> "decide", decision |-> d])
        /\ UNCHANGED <<transactions, categorizations, accepted, failures>>
    BY DEF IInv, CategorizeTransaction
  <1>1. [pc |-> "decide", decision |-> d] \in Request
    BY DEF Request
  <1>2. /\ req' \in [Requests -> Request]
        /\ req'[r] = [pc |-> "decide", decision |-> d]
        /\ \A o \in Requests : o # r => req'[o] = req[o]
    BY <1>0, <1>1, GotoType
  <1>3. TypeOK'
    BY <1>0, <1>2 DEF TypeOK
  <1>4. HoldsOwn'
    <2> SUFFICES ASSUME NEW o \in Requests, req'[o].pc = "decide"
                 PROVE  /\ req'[o].decision.tx \in DOMAIN transactions
                        /\ transactions[req'[o].decision.tx].user
                             = req'[o].decision.by
      BY <1>0 DEF HoldsOwn, OwnTransaction
    <2>1. CASE o = r
      BY <1>0, <1>2, <2>1 DEF OwnTransaction
    <2>2. CASE o # r
      BY <1>2, <2>2 DEF IInv, HoldsOwn, OwnTransaction
    <2> QED
      BY <2>1, <2>2
  <1>5. OwnerDecides' /\ AcceptedIsStored'
    BY <1>0 DEF IInv, OwnerDecides, AcceptedIsStored, Stored
  <1>6. NothingHidden'
    BY <1>0, <1>2 DEF IInv, NothingHidden
  <1> QED
    BY <1>3, <1>4, <1>5, <1>6 DEF IInv

\* The INSERT of a decision, answered or not.
LEMMA StoreDecisionStep ==
  ASSUME IInv, NEW r \in Requests, StoreDecision(r) \/ StoreUnanswered(r)
  PROVE  IInv'
  <1> DEFINE d == req[r].decision
  <1>0. /\ TypeOK /\ req[r].pc = "decide" /\ ~Decided(d)
        /\ categorizations' = CreateTransactionCategorization(
             categorizations, d.tx, d.wallet, d.type, d.by)
        /\ accepted' \in {accepted, accepted \cup {d}}
        /\ Goto(r, Idle) /\ UNCHANGED transactions
    BY DEF IInv, StoreDecision, StoreUnanswered
  <1>1. d \in Decision
    BY <1>0, StageOf DEF TypeOK
  <1>2. /\ categorizations' \in PartialFunctions(Transactions \X Wallets,
                                                 Categorization(Users))
        /\ DOMAIN categorizations'
             = DOMAIN categorizations \cup {<<d.tx, d.wallet>>}
        /\ categorizations'[<<d.tx, d.wallet>>]
             = [type |-> d.type, by |-> d.by]
        /\ \A k \in DOMAIN categorizations :
             categorizations'[k] = categorizations[k]
    BY <1>0, <1>1, DecisionRow
  <1>3. Idle \in Request /\ Idle.pc = "idle"
    BY DEF Request, Idle
  <1>4. /\ req' \in [Requests -> Request]
        /\ req'[r] = Idle
        /\ \A o \in Requests : o # r => req'[o] = req[o]
    BY <1>0, <1>3, GotoType
  <1>5. failures' \in 0..MaxFailures
    BY <1>0, FailureAssumption DEF TypeOK, StoreDecision, StoreUnanswered
  <1>6. TypeOK'
    BY <1>0, <1>1, <1>2, <1>4, <1>5 DEF TypeOK
  <1>7. HoldsOwn'
    BY <1>0, <1>3, <1>4 DEF IInv, HoldsOwn, OwnTransaction
  <1>8. OwnerDecides'
    <2>1. d.tx \in DOMAIN transactions /\ transactions[d.tx].user = d.by
      BY <1>0 DEF IInv, HoldsOwn, OwnTransaction
    <2> QED
      BY <1>0, <1>2, <2>1 DEF IInv, OwnerDecides
  <1>9. AcceptedIsStored'
    BY <1>0, <1>2 DEF IInv, AcceptedIsStored, Stored
  <1>10. NothingHidden'
    BY <1>0, <1>2, <1>3, <1>4 DEF IInv, NothingHidden
  <1> QED
    BY <1>6, <1>7, <1>8, <1>9, <1>10 DEF IInv

LEMMA IInvStep == IInv /\ [Next]_vars => IInv'
  <1> SUFFICES ASSUME IInv, [Next]_vars PROVE IInv'
    OBVIOUS
  <1>0. TypeOK /\ Idle \in Request /\ Idle.pc = "idle"
    BY DEF IInv, Request, Idle
  <1>1. ASSUME NEW r \in Requests, NEW u \in Users, NEW w \in Wallets,
               GetUncategorizedTransactions(r, u, w)
        PROVE  IInv'
    <2>1. [pc |-> "list", user |-> u, wallet |-> w] \in Request
      BY DEF Request
    <2> QED
      BY <1>0, <1>1, <2>1, GotoType, RequestMoves
         DEF GetUncategorizedTransactions, TypeOK
  <1>2. ASSUME NEW r \in Requests, Leave(r) \/ RefuseDecision(r) \/ Fail(r)
        PROVE  IInv'
    <2>1. failures' \in 0..MaxFailures
      BY <1>0, <1>2, FailureAssumption DEF Leave, RefuseDecision, Fail, TypeOK
    <2>2. /\ Goto(r, Idle)
          /\ UNCHANGED <<transactions, categorizations, accepted>>
      BY <1>2 DEF Leave, RefuseDecision, Fail
    <2> QED
      BY <1>0, <2>1, <2>2, GotoType, RequestMoves
  <1>3. CASE Crash
    <2>1. /\ failures' \in 0..MaxFailures
          /\ UNCHANGED <<transactions, categorizations, accepted>>
      BY <1>0, <1>3, FailureAssumption DEF Crash, TypeOK
    <2>2. /\ req' \in [Requests -> Request]
          /\ \A o \in Requests : req'[o] = req[o] \/ req'[o] = Idle
      BY <1>0, <1>3 DEF Crash, TypeOK
    <2> QED
      BY <1>0, <2>1, <2>2, RequestMoves
  <1>4. CASE UNCHANGED vars
    BY <1>0, <1>4, RequestMoves DEF vars, TypeOK
  <1>5. CASE \E r \in Requests :
               \/ ListUncategorized(r)
               \/ \E d \in Decision : CategorizeTransaction(r, d)
               \/ StoreDecision(r) \/ StoreUnanswered(r)
    BY <1>5, ListStep, CategorizeStep, StoreDecisionStep
  <1>6. CASE \E t \in Transactions :
               \/ \E u \in Users : StoreTransaction(t, u)
               \/ \E w \in Wallets : UncategorizeTransaction(t, w)
    BY <1>6, StoreTransactionStep, UncategorizeStep
  <1> QED
    BY <1>1, <1>2, <1>3, <1>4, <1>5, <1>6 DEF Next

----------------------------------------------------------------------------
(* The abstract ledger.                                                    *)

Owners == [t \in DOMAIN transactions |-> transactions[t].user]
Ledger == {d \in Decision : Stored(d)}

LEMMA LedgerInit == Init => Owners = EmptyTable /\ Ledger = {} /\ accepted = {}
  <1>1. DOMAIN EmptyTable = {}
    BY EmptyTableType
  <1> QED
    BY <1>1 DEF Init, Owners, Ledger, Stored, EmptyTable

\* The INSERT of a decision writes it into the ledger.
LEMMA LedgerDecides ==
  ASSUME IInv, NEW r \in Requests, StoreDecision(r) \/ StoreUnanswered(r)
  PROVE  \E d \in Decision :
           /\ d.tx \in DOMAIN Owners /\ Owners[d.tx] = d.by
           /\ \A e \in Ledger : ~(e.tx = d.tx /\ e.wallet = d.wallet)
           /\ Ledger' = Ledger \cup {d}
           /\ accepted' \in {accepted, accepted \cup {d}}
           /\ Owners' = Owners
  <1>1. PICK d : d = req[r].decision
    OBVIOUS
  <1>2. /\ TypeOK /\ req[r].pc = "decide" /\ ~Decided(d)
        /\ categorizations' = CreateTransactionCategorization(
             categorizations, d.tx, d.wallet, d.type, d.by)
        /\ accepted' \in {accepted, accepted \cup {d}}
        /\ UNCHANGED transactions
        /\ OwnTransaction(d.by, d.tx)
    BY <1>1 DEF IInv, HoldsOwn, StoreDecision, StoreUnanswered
  <1>3. d \in Decision
    BY <1>1, <1>2, StageOf DEF TypeOK
  <1>4. /\ DOMAIN categorizations'
             = DOMAIN categorizations \cup {<<d.tx, d.wallet>>}
        /\ categorizations'[<<d.tx, d.wallet>>]
             = [type |-> d.type, by |-> d.by]
        /\ \A k \in DOMAIN categorizations :
             categorizations'[k] = categorizations[k]
        /\ <<d.tx, d.wallet>> \notin DOMAIN categorizations
    BY <1>2, <1>3, DecisionRow DEF Decided
  <1>5. ASSUME NEW e \in Decision, e.tx = d.tx, e.wallet = d.wallet,
               e.type = d.type, e.by = d.by
        PROVE  e = d
    BY <1>3, <1>5 DEF Decision
  <1>6. ASSUME NEW e \in Decision
        PROVE  Stored(e)' <=> Stored(e) \/ e = d
    <2>1. CASE e.tx = d.tx /\ e.wallet = d.wallet
      <3>1. Stored(e)' <=> [type |-> e.type, by |-> e.by]
                             = [type |-> d.type, by |-> d.by]
        BY <1>4, <2>1 DEF Stored
      <3>2. ~Stored(e)
        BY <1>4, <2>1 DEF Stored
      <3> QED
        BY <1>5, <2>1, <3>1, <3>2
    <2>2. CASE ~(e.tx = d.tx /\ e.wallet = d.wallet)
      BY <1>4, <2>2 DEF Stored
    <2> QED
      BY <2>1, <2>2
  <1>7. Ledger' = Ledger \cup {d}
    BY <1>3, <1>6 DEF Ledger
  <1>8. \A e \in Ledger : ~(e.tx = d.tx /\ e.wallet = d.wallet)
    BY <1>4 DEF Ledger, Stored
  <1>9. d.tx \in DOMAIN Owners /\ Owners[d.tx] = d.by /\ Owners' = Owners
    BY <1>2 DEF Owners, OwnTransaction
  <1> QED
    BY <1>2, <1>3, <1>7, <1>8, <1>9

\* Every step is one of the ledger's, or leaves it alone.
LEMMA LedgerStep == IInv /\ [Next]_vars => [D!DNext]_(D!dvars)
  <1> SUFFICES ASSUME IInv, [Next]_vars PROVE [D!DNext]_(D!dvars)
    OBVIOUS
  <1>0. TypeOK
    BY DEF IInv
  <1>1. ASSUME NEW t \in Transactions, NEW u \in Users, StoreTransaction(t, u)
        PROVE  D!Own(t, u)
    <2>1. /\ t \notin DOMAIN transactions
          /\ transactions' = Insert(transactions, t, [user |-> u, pending |-> FALSE])
          /\ UNCHANGED <<categorizations, accepted>>
      BY <1>1 DEF StoreTransaction, CreateTransaction
    <2>2. t \notin DOMAIN Owners /\ Owners' = Insert(Owners, t, u)
      BY <2>1 DEF Owners, Insert
    <2>3. Ledger' = Ledger
      BY <2>1 DEF Ledger, Stored
    <2> QED
      BY <2>1, <2>2, <2>3 DEF D!Own, D!Insert, Insert, Owners, Ledger
  <1>2. ASSUME NEW t \in Transactions, NEW w \in Wallets,
               UncategorizeTransaction(t, w)
        PROVE  D!Withdraw(t, w)
    <2>1. /\ DOMAIN categorizations' = DOMAIN categorizations \ {<<t, w>>}
          /\ \A k \in DOMAIN categorizations' :
               categorizations'[k] = categorizations[k]
      BY <1>0, <1>2, WithdrawnRow DEF UncategorizeTransaction
    <2>2. ASSUME NEW d \in Decision
          PROVE  Stored(d)' <=> Stored(d) /\ ~(d.tx = t /\ d.wallet = w)
      BY <2>1 DEF Stored
    <2>3. Ledger' = {d \in Ledger : ~(d.tx = t /\ d.wallet = w)}
      BY <2>2 DEF Ledger
    <2>4. accepted' = {d \in accepted : ~(d.tx = t /\ d.wallet = w)}
      BY <1>2 DEF UncategorizeTransaction
    <2>5. Owners' = Owners
      BY <1>2 DEF UncategorizeTransaction, Owners
    <2> QED
      BY <2>3, <2>4, <2>5 DEF D!Withdraw, D!About, Owners, Ledger
  <1>3. ASSUME NEW r \in Requests, StoreDecision(r) \/ StoreUnanswered(r)
        PROVE  \E d \in Decision : D!Decide(d)
    BY <1>3, LedgerDecides DEF D!Decide, D!About, Owners, Ledger
  <1>4. CASE UNCHANGED <<transactions, categorizations, accepted>>
    <2>1. Owners' = Owners /\ Ledger' = Ledger
      BY <1>4 DEF Owners, Ledger, Stored
    <2> QED
      BY <1>4, <2>1 DEF D!dvars, Owners, Ledger
  <1> QED
    BY <1>1, <1>2, <1>3, <1>4
       DEF Next, vars, D!DNext, GetUncategorizedTransactions, ListUncategorized,
           Leave, CategorizeTransaction, RefuseDecision, Fail, Crash

----------------------------------------------------------------------------
(* The theorems.                                                           *)

\* Tables, requests and histories are well formed.
THEOREM TypeCorrect == Spec => []TypeOK
  <1>1. IInv => TypeOK
    BY DEF IInv
  <1> QED
    BY <1>1, IInvInit, IInvStep, PTL DEF Spec

\* Stored decisions are made by the owners of their transactions.
THEOREM OwnersDecide == Spec => []OwnerDecides
  <1>1. IInv => OwnerDecides
    BY DEF IInv
  <1> QED
    BY <1>1, IInvInit, IInvStep, PTL DEF Spec

\* A decision answered with success is the stored one until withdrawn.
THEOREM AcceptedStands == Spec => []AcceptedIsStored
  <1>1. IInv => AcceptedIsStored
    BY DEF IInv
  <1> QED
    BY <1>1, IInvInit, IInvStep, PTL DEF Spec

\* A list hides nothing undecided, however old it is.
THEOREM ListsHideNothing == Spec => []NothingHidden
  <1>1. IInv => NothingHidden
    BY DEF IInv
  <1> QED
    BY <1>1, IInvInit, IInvStep, PTL DEF Spec

\* Categorization implements the abstract ledger: racing, retried and
\* withdrawn decisions never replace or outlive one another.
THEOREM CategorizationImplementsDecisions == Spec => DSpec
  <1>1. Init => D!DInit
    BY LedgerInit DEF D!DInit, D!EmptyTable, EmptyTable, Owners, Ledger
  <1> QED
    BY <1>1, IInvInit, IInvStep, LedgerStep, PTL DEF Spec, DSpec, D!DSpec

=============================================================================
