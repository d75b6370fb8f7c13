--------------------------- MODULE WalletsProofs ---------------------------
(***************************************************************************)
(* Theorems about Wallets for any number of users, wallets and request     *)
(* slots.                                                                  *)
(***************************************************************************)
EXTENDS Wallets, QueriesProofs

\* What requests hold: a row that nobody has joined, to be joined by its
\* creator, or a wallet its creator has joined.
HoldsStarted(r) ==
  /\ req[r].pc = "creator" =>
       /\ req[r].wallet \in wallets
       /\ req[r].user = creator[req[r].wallet]
       /\ \A u \in Users : <<req[r].wallet, u>> \notin joined
  /\ req[r].pc = "insert" =>
       /\ req[r].wallet \in wallets
       /\ <<req[r].wallet, creator[req[r].wallet]>> \in joined

\* One request only inserts the first member of a wallet.
CreatorsApart ==
  \A r, o \in Requests :
    r # o /\ req[r].pc = "creator" /\ req[o].pc = "creator"
      => req[r].wallet # req[o].wallet

IInv ==
  /\ TypeOK
  /\ CreatorJoinsFirst
  /\ \A r \in Requests : HoldsStarted(r)
  /\ CreatorsApart

\* The pc of a request tells which fields it has.
LEMMA StageOf ==
  ASSUME NEW q \in Request
  PROVE  /\ q.pc \in {"idle", "creator", "insert", "delete"}
         /\ q.pc # "idle" => q.user \in Users /\ q.wallet \in Wallets
         /\ q.pc \in {"insert", "delete"} => q.member \in Users
  BY DEF Request, Idle

LEMMA IInvInit == Init => IInv
  <1> SUFFICES ASSUME Init PROVE IInv
    OBVIOUS
  <1>1. creator \in [wallets -> Users]
    BY DEF Init, EmptyTable
  <1>2. req \in [Requests -> Request] /\ \A r \in Requests : req[r].pc = "idle"
    BY DEF Init, Request, Idle
  <1>3. failures \in 0..MaxFailures
    BY FailureAssumption DEF Init
  <1> QED
    BY <1>1, <1>2, <1>3
       DEF Init, IInv, TypeOK, CreatorJoinsFirst, HoldsStarted, CreatorsApart

\* A pair goes in for a wallet that has started, or with its creator, by the
\* one request that holds the wallet for that.
LEMMA InsertKeeps ==
  ASSUME IInv, NEW r \in Requests, NEW w \in wallets, NEW u \in Users,
         InsertMember(w, u), Goto(r, Idle), req[r].wallet = w,
         \/ req[r].pc = "creator" /\ u = creator[w]
         \/ req[r].pc = "insert" /\ <<w, creator[w]>> \in joined,
         UNCHANGED <<wallets, creator, failures>>
  PROVE  IInv'
  <1>1. TypeOK /\ CreatorJoinsFirst /\ CreatorsApart
    BY DEF IInv
  <1>2. /\ req' \in [Requests -> Request]
        /\ req'[r] = Idle /\ \A o \in Requests : o # r => req'[o] = req[o]
    BY <1>1 DEF Goto, TypeOK, Request
  <1>3. /\ joined \subseteq joined' /\ joined' \subseteq joined \cup {<<w, u>>}
        /\ wallet_members' \subseteq joined'
    BY <1>1 DEF InsertMember, AddWalletMember, TypeOK
  <1>4. joined' \in SUBSET (wallets \X Users)
    BY <1>1, <1>3 DEF TypeOK
  <1>5. TypeOK'
    BY <1>1, <1>2, <1>3, <1>4 DEF TypeOK
  <1>6. CreatorJoinsFirst'
    BY <1>1, <1>3 DEF CreatorJoinsFirst, InsertMember
  <1>7. ASSUME NEW o \in Requests
        PROVE  HoldsStarted(o)'
    <2>1. CASE o = r
      BY <1>2, <2>1 DEF HoldsStarted, Idle
    <2>2. ASSUME o # r, req[o].pc = "creator"
          PROVE  req[o].wallet # w
      <3>1. CASE req[r].pc = "creator"
        BY <1>1, <2>2, <3>1 DEF CreatorsApart
      <3>2. CASE <<w, creator[w]>> \in joined
        BY <1>1, <2>2, <3>2 DEF IInv, HoldsStarted, TypeOK
      <3> QED
        BY <3>1, <3>2
    <2>3. CASE o # r
      BY <1>2, <1>3, <2>2, <2>3 DEF IInv, HoldsStarted
    <2> QED
      BY <2>1, <2>3
  <1>8. CreatorsApart'
    BY <1>1, <1>2 DEF CreatorsApart, Idle
  <1> QED
    BY <1>5, <1>6, <1>7, <1>8 DEF IInv

LEMMA IInvStep == IInv /\ [Next]_vars => IInv'
  <1> SUFFICES ASSUME IInv, [Next]_vars PROVE IInv'
    OBVIOUS
  <1>0. /\ TypeOK /\ CreatorJoinsFirst /\ CreatorsApart
        /\ \A r \in Requests : HoldsStarted(r) /\ req[r] \in Request
    BY DEF IInv, TypeOK
  <1>1. ASSUME NEW r \in Requests, NEW u \in Users, NEW w \in Wallets,
               CreateWallet(r, u, w)
        PROVE  IInv'
    <2>1. /\ wallets' = wallets \cup {w} /\ w \notin wallets
          /\ creator' \in [wallets' -> Users]
          /\ creator'[w] = u
          /\ \A v \in wallets : creator'[v] = creator[v]
      BY <1>0, <1>1 DEF CreateWallet, Insert, TypeOK
    <2>2. /\ req' \in [Requests -> Request]
          /\ req'[r] = [pc |-> "creator", user |-> u, wallet |-> w]
          /\ \A o \in Requests : o # r => req'[o] = req[o]
      BY <1>0, <1>1 DEF CreateWallet, Goto, TypeOK, Request
    <2>3. /\ UNCHANGED <<wallet_members, joined, failures>>
          /\ joined \in SUBSET (wallets \X Users)
          /\ wallet_members \in SUBSET (wallets \X Users)
      BY <1>0, <1>1 DEF CreateWallet, TypeOK
    <2>4. TypeOK'
      BY <1>0, <2>1, <2>2, <2>3 DEF TypeOK
    <2>5. CreatorJoinsFirst'
      BY <1>0, <2>1, <2>3 DEF CreatorJoinsFirst
    <2>6. ASSUME NEW o \in Requests
          PROVE  HoldsStarted(o)'
      <3>1. CASE o = r
        BY <2>1, <2>2, <2>3, <3>1 DEF HoldsStarted
      <3>2. CASE o # r
        <4>1. HoldsStarted(o) /\ req'[o] = req[o]
          BY <1>0, <2>2, <3>2
        <4> QED
          BY <2>1, <2>3, <4>1 DEF HoldsStarted
      <3> QED
        BY <3>1, <3>2
    <2>7. CreatorsApart'
      <3>1. \A o \in Requests :
              o # r /\ req'[o].pc = "creator" => req'[o].wallet # w
        <4> SUFFICES ASSUME NEW o \in Requests, o # r, req[o].pc = "creator"
                     PROVE  req[o].wallet # w
          BY <2>2
        <4>1. req[o].wallet \in wallets
          BY <1>0 DEF HoldsStarted
        <4> QED
          BY <2>1, <4>1
      <3>2. req'[r].wallet = w
        BY <2>2
      <3> QED
        BY <1>0, <2>2, <3>1, <3>2 DEF CreatorsApart
    <2> QED
      BY <2>4, <2>5, <2>6, <2>7 DEF IInv
  <1>2. ASSUME NEW r \in Requests, AddCreator(r)
        PROVE  IInv'
    <2>1. /\ req[r].wallet \in wallets /\ req[r].user \in Users
          /\ req[r].user = creator[req[r].wallet]
      BY <1>0, <1>2, StageOf DEF AddCreator, HoldsStarted
    <2> QED
      BY <1>2, <2>1, InsertKeeps DEF AddCreator
  <1>3. ASSUME NEW r \in Requests, AddFound(r)
        PROVE  IInv'
    <2>1. /\ req[r].wallet \in wallets /\ req[r].member \in Users
          /\ <<req[r].wallet, creator[req[r].wallet]>> \in joined
      BY <1>0, <1>3, StageOf DEF AddFound, HoldsStarted
    <2> QED
      BY <1>3, <2>1, InsertKeeps DEF AddFound
  <1>4. ASSUME NEW r \in Requests, NEW u \in Users, NEW m \in Users,
               NEW n \in Wallets, AddMember(r, u, m, n)
        PROVE  IInv'
    <2>1. PICK w \in WalletsOf(u) :
            Goto(r, [pc |-> "insert", user |-> u, wallet |-> w, named |-> n,
                     member |-> m])
      BY <1>4 DEF AddMember
    <2>2. w \in Wallets /\ <<w, u>> \in wallet_members
      BY <2>1 DEF WalletsOf, GetWalletByUserID
    <2>3. w \in wallets /\ <<w, creator[w]>> \in joined
      BY <1>0, <2>2 DEF TypeOK, CreatorJoinsFirst
    <2>4. /\ req' \in [Requests -> Request]
          /\ req'[r].pc = "insert" /\ req'[r].wallet = w
          /\ \A o \in Requests : o # r => req'[o] = req[o]
      BY <1>0, <2>1, <2>2 DEF Goto, TypeOK, Request
    <2> QED
      BY <1>0, <1>4, <2>3, <2>4
         DEF AddMember, IInv, TypeOK, CreatorJoinsFirst, HoldsStarted,
             CreatorsApart
  <1>5. ASSUME NEW r \in Requests, NEW u \in Users, NEW m \in Users,
               NEW n \in Wallets, RemoveMember(r, u, m, n)
        PROVE  IInv'
    <2>1. /\ req' \in [Requests -> Request]
          /\ req'[r].pc = "delete" /\ \A o \in Requests : o # r => req'[o] = req[o]
      BY <1>0, <1>5 DEF RemoveMember, Goto, TypeOK, Request
    <2> QED
      BY <1>0, <1>5, <2>1
         DEF RemoveMember, IInv, TypeOK, CreatorJoinsFirst, HoldsStarted,
             CreatorsApart
  <1>6. ASSUME NEW r \in Requests, DeleteMember(r)
        PROVE  IInv'
    <2>1. /\ req' \in [Requests -> Request]
          /\ \A o \in Requests : req'[o] = req[o] \/ req'[o] = Idle
      BY <1>0, <1>6 DEF DeleteMember, Goto, TypeOK, Request
    <2>2. wallet_members' \subseteq wallet_members
      BY <1>6 DEF DeleteMember, RemoveWalletMember
    <2> QED
      BY <1>0, <1>6, <2>1, <2>2
         DEF DeleteMember, IInv, TypeOK, CreatorJoinsFirst, HoldsStarted,
             CreatorsApart, Idle
  <1>7. CASE Crash \/ \E r \in Requests : Fail(r)
    <2>1. /\ req' \in [Requests -> Request]
          /\ \A o \in Requests : req'[o] = req[o] \/ req'[o] = Idle
      BY <1>0, <1>7 DEF Crash, Fail, Goto, TypeOK, Request
    <2>2. failures' \in 0..MaxFailures
      BY <1>0, <1>7, FailureAssumption DEF Crash, Fail, TypeOK
    <2> QED
      BY <1>0, <1>7, <2>1, <2>2
         DEF Crash, Fail, IInv, TypeOK, CreatorJoinsFirst, HoldsStarted,
             CreatorsApart, Idle
  <1>8. CASE UNCHANGED vars
    BY <1>0, <1>8
       DEF IInv, TypeOK, CreatorJoinsFirst, HoldsStarted, CreatorsApart, vars
  <1> QED
    BY <1>1, <1>2, <1>3, <1>4, <1>5, <1>6, <1>7, <1>8 DEF Next, Act, Refuse

\* Members and creators always refer to wallets that have a row.
THEOREM TypeCorrect == Spec => []TypeOK
  <1>1. IInv => TypeOK
    BY DEF IInv
  <1> QED
    BY <1>1, IInvInit, IInvStep, PTL DEF Spec

\* Nobody is in a wallet before its creator, although its row is there for
\* all to see before its first member is.
THEOREM CreatorIsFirst == Spec => []CreatorJoinsFirst
  <1>1. IInv => CreatorJoinsFirst
    BY DEF IInv
  <1> QED
    BY <1>1, IInvInit, IInvStep, PTL DEF Spec

----------------------------------------------------------------------------
(* Wallets that nobody is in.                                              *)

LEMMA EmptyMeans ==
  ASSUME NEW w \in wallets
  PROVE  MembersOf(w) = {} <=> \A u \in Users : <<w, u>> \notin wallet_members
  BY DEF MembersOf, GetWalletMembersByWalletID

\* A lookup does not find a wallet that nobody is in, so that no request sets
\* out for it, and an insert is the end of the request that makes it.
LEMMA NobodySetsOut ==
  ASSUME IInv, [Next]_vars, NEW w \in wallets,
         \A u \in Users : <<w, u>> \notin wallet_members
  PROVE  /\ Entering(w)' \subseteq Entering(w)
         /\ (\E u \in Users : <<w, u>> \in wallet_members')
              => Entering(w)' # Entering(w)
  <1>0. req \in [Requests -> Request] /\ wallets \subseteq Wallets
    BY DEF IInv, TypeOK
  <1>1. ASSUME NEW r \in Requests, NEW u \in Users, NEW v \in Wallets,
               \/ CreateWallet(r, u, v)
               \/ \E m \in Users : AddMember(r, u, m, v) \/ RemoveMember(r, u, m, v)
        PROVE  /\ Entering(w)' \subseteq Entering(w)
               /\ UNCHANGED wallet_members
    <2>1. /\ UNCHANGED wallet_members
          /\ \A o \in Requests : o # r => req'[o] = req[o]
      BY <1>0, <1>1 DEF CreateWallet, AddMember, RemoveMember, Goto
    <2>2. ~(req'[r].pc \in {"creator", "insert"} /\ req'[r].wallet = w)
      <3>1. CASE CreateWallet(r, u, v)
        BY <1>0, <3>1 DEF CreateWallet, Goto
      <3>2. ASSUME NEW m \in Users, AddMember(r, u, m, v)
            PROVE  req'[r].wallet # w
        <4>1. PICK x \in WalletsOf(u) :
                Goto(r, [pc |-> "insert", user |-> u, wallet |-> x,
                         named |-> v, member |-> m])
          BY <3>2 DEF AddMember
        <4>2. <<x, u>> \in wallet_members
          BY DEF WalletsOf, GetWalletByUserID
        <4>3. x # w
          BY <4>2
        <4>4. req'[r].wallet = x
          BY <1>0, <4>1 DEF Goto
        <4> QED
          BY <4>3, <4>4
      <3>3. ASSUME NEW m \in Users, RemoveMember(r, u, m, v)
            PROVE  req'[r].pc = "delete"
        BY <1>0, <3>3 DEF RemoveMember, Goto
      <3> QED
        BY <1>1, <3>1, <3>2, <3>3
    <2> QED
      BY <2>1, <2>2 DEF Entering
  <1>2. ASSUME NEW r \in Requests, AddCreator(r) \/ AddFound(r)
        PROVE  /\ Entering(w)' \subseteq Entering(w)
               /\ (\E u \in Users : <<w, u>> \in wallet_members')
                    => Entering(w)' # Entering(w)
    <2>1. /\ req[r].pc \in {"creator", "insert"}
          /\ req'[r] = Idle /\ \A o \in Requests : o # r => req'[o] = req[o]
      BY <1>0, <1>2 DEF AddCreator, AddFound, Goto
    <2>2. /\ Entering(w)' \subseteq Entering(w) /\ r \notin Entering(w)'
          /\ req[r].wallet = w => r \in Entering(w)
      BY <2>1 DEF Entering, Idle
    <2>3. \A u \in Users : <<w, u>> \in wallet_members' => req[r].wallet = w
      BY <1>2 DEF AddCreator, AddFound, InsertMember, AddWalletMember
    <2> QED
      BY <2>2, <2>3
  <1>3. ASSUME \/ Crash
               \/ \E r \in Requests : Fail(r) \/ DeleteMember(r)
        PROVE  /\ Entering(w)' \subseteq Entering(w)
               /\ wallet_members' \subseteq wallet_members
    BY <1>0, <1>3 DEF Crash, Fail, DeleteMember, RemoveWalletMember, Goto, Idle,
                      Entering
  <1>4. CASE UNCHANGED vars
    BY <1>4 DEF vars, Entering
  <1> QED
    BY <1>1, <1>2, <1>3, <1>4 DEF Next, Act, Refuse

LEMMA RowsStay ==
  ASSUME IInv, [Next]_vars
  PROVE  wallets \subseteq wallets'
  BY DEF Next, Act, CreateWallet, AddCreator, AddFound, AddMember, Refuse,
         RemoveMember, DeleteMember, Crash, Fail, vars

\* For any number of requests, a wallet that nobody is in is entered only by
\* those that were on their way in when it emptied, once each.
THEOREM DesertedForGood == Spec => DesertedIsFinal
  <1>1. IInv /\ [Next]_vars
          => [\A w \in wallets :
                MembersOf(w) = {} =>
                  /\ Entering(w)' \subseteq Entering(w)
                  /\ MembersOf(w)' # {} => Entering(w)' # Entering(w)]_vars
    <2> SUFFICES ASSUME IInv, [Next]_vars, NEW w \in wallets, MembersOf(w) = {}
                 PROVE  /\ Entering(w)' \subseteq Entering(w)
                        /\ MembersOf(w)' # {} => Entering(w)' # Entering(w)
      OBVIOUS
    <2>1. MembersOf(w)' # {} => \E u \in Users : <<w, u>> \in wallet_members'
      BY DEF MembersOf, GetWalletMembersByWalletID
    <2> QED
      BY <2>1, EmptyMeans, NobodySetsOut
  <1> QED
    BY <1>1, IInvInit, IInvStep, PTL DEF Spec, DesertedIsFinal

----------------------------------------------------------------------------
(* The abstract wallet.                                                    *)

Founder == [w \in Started |-> creator[w]]

Ordered == {o \in Requests : req[o].pc \in {"insert", "delete"}}

OrderOf(r) == [kind |-> req[r].pc, by |-> req[r].user,
               wallet |-> req[r].wallet, user |-> req[r].member]

Orders == [r \in Ordered |-> OrderOf(r)]

LEMMA StartedRows ==
  ASSUME IInv
  PROVE  Started \subseteq wallets
  BY DEF Started

\* A step that lets nobody in maps to what it does to members and orders.
LEMMA FounderStays ==
  ASSUME IInv, UNCHANGED joined, wallets \subseteq wallets',
         \A w \in wallets : creator'[w] = creator[w]
  PROVE  UNCHANGED Founder
  <1>1. joined \in SUBSET (wallets \X Users)
    BY DEF IInv, TypeOK
  <1>2. Started' = Started
    BY <1>1 DEF Started
  <1> QED
    BY <1>2, StartedRows DEF Founder

LEMMA OrdersStay ==
  ASSUME TypeOK, NEW r \in Requests, NEW stage, Goto(r, stage),
         req[r].pc \notin {"insert", "delete"},
         stage.pc \notin {"insert", "delete"}
  PROVE  UNCHANGED Orders
  <1>1. /\ req'[r] = stage /\ \A o \in Requests : o # r => req'[o] = req[o]
    BY DEF TypeOK, Goto
  <1>2. Ordered' = Ordered /\ \A o \in Ordered : OrderOf(o)' = OrderOf(o)
    BY <1>1 DEF Ordered, OrderOf
  <1> QED
    BY <1>2 DEF Orders

\* A lookup that finds a wallet takes an order from one of its members.
LEMMA OrderTaken ==
  ASSUME TypeOK, NEW r \in Requests, req[r].pc = "idle",
         NEW stage, Goto(r, stage), stage.pc \in {"insert", "delete"}
  PROVE  /\ r \notin DOMAIN Orders
         /\ Orders' = Insert(Orders, r,
              [kind |-> stage.pc, by |-> stage.user, wallet |-> stage.wallet,
               user |-> stage.member])
  <1>1. /\ req'[r] = stage /\ \A o \in Requests : o # r => req'[o] = req[o]
    BY DEF TypeOK, Goto
  <1>2. /\ r \notin Ordered /\ Ordered' = Ordered \cup {r}
        /\ \A o \in Ordered : OrderOf(o)' = OrderOf(o)
        /\ OrderOf(r)' = [kind |-> stage.pc, by |-> stage.user,
                          wallet |-> stage.wallet, user |-> stage.member]
    BY <1>1 DEF Ordered, OrderOf
  <1>3. DOMAIN Orders = Ordered /\ \A o \in Ordered : Orders[o] = OrderOf(o)
    BY DEF Orders
  <1>4. Orders' = [o \in Ordered \cup {r} |-> OrderOf(o)']
    BY <1>2 DEF Orders
  <1> QED
    BY <1>2, <1>3, <1>4 DEF Insert

LEMMA OrderGone ==
  ASSUME TypeOK, NEW R \in SUBSET Requests,
         \A o \in Requests : req'[o] = IF o \in R THEN Idle ELSE req[o]
  PROVE  Orders' = M!Without(R)
  <1>1. /\ Ordered' = Ordered \ R
        /\ \A o \in Ordered \ R : OrderOf(o)' = OrderOf(o)
    BY DEF Ordered, OrderOf, Idle
  <1>2. DOMAIN Orders = Ordered /\ \A o \in Ordered : Orders[o] = OrderOf(o)
    BY DEF Orders
  <1>3. Orders' = [o \in Ordered \ R |-> OrderOf(o)]
    BY <1>1 DEF Orders
  <1>4. M!Without(R) = [o \in DOMAIN Orders \ R |-> Orders[o]]
    BY DEF M!Without, Orders, Ordered, OrderOf
  <1> QED
    BY <1>2, <1>3, <1>4

\* A new pair for a wallet that nobody has joined founds it; the next do not.
LEMMA InsertMaps ==
  ASSUME IInv, NEW w \in wallets, NEW u \in Users, InsertMember(w, u),
         UNCHANGED <<wallets, creator>>
  PROVE  /\ wallet_members' = wallet_members \cup {<<w, u>>}
         /\ w \in Started => UNCHANGED Founder
         /\ w \notin Started => Founder' = Insert(Founder, w, creator[w])
  <1>0. /\ creator \in [wallets -> Users] /\ wallets \in SUBSET Wallets
        /\ joined \in SUBSET (wallets \X Users)
        /\ wallet_members \subseteq joined
    BY DEF IInv, TypeOK
  <1>1. CASE <<w, u>> \in wallet_members
    <2>1. w \in Started
      BY <1>0, <1>1 DEF Started
    <2> QED
      BY <1>1, <2>1, FounderStays DEF InsertMember
  <1>2. CASE <<w, u>> \notin wallet_members
    <2>1. /\ wallet_members' = wallet_members \cup {<<w, u>>}
          /\ joined' = joined \cup {<<w, u>>}
      BY <1>2 DEF InsertMember, AddWalletMember
    <2>2. Started' = Started \cup {w}
      BY <2>1 DEF Started
    <2>3. Founder' = [v \in Started \cup {w} |-> creator[v]]
      BY <2>2 DEF Founder
    <2> QED
      BY <2>1, <2>3 DEF Founder, Insert
  <1> QED
    BY <1>1, <1>2

\* The handlers' interleaved statements implement the abstract wallet: its
\* creator founds it, and everybody let in or removed later is so by order of
\* somebody who was a member when the request looked.
THEOREM WalletsImplementMembership == Spec => MSpec
  <1>1. Init => M!MInit
    <2> SUFFICES ASSUME Init PROVE M!MInit
      OBVIOUS
    <2>1. Started = {} /\ Ordered = {}
      BY DEF Init, Started, Ordered, Idle
    <2>2. Founder = EmptyTable /\ Orders = EmptyTable
      BY <2>1 DEF Founder, Orders, EmptyTable
    <2> QED
      BY <2>2 DEF Init, M!MInit, Founder, Orders, Ordered, OrderOf, EmptyTable,
                  M!EmptyTable
  <1>2. IInv /\ [Next]_vars => [M!MNext]_(M!mvars)
    <2> SUFFICES ASSUME IInv, [Next]_vars PROVE [M!MNext]_(M!mvars)
      OBVIOUS
    <2>0. /\ TypeOK /\ \A r \in Requests : HoldsStarted(r) /\ req[r] \in Request
          /\ wallets \in SUBSET Wallets
          /\ joined \in SUBSET (wallets \X Users)
      BY DEF IInv, TypeOK
    <2>1. CASE UNCHANGED <<Founder, wallet_members, Orders>>
      BY <2>1 DEF M!mvars, Founder, Orders, Ordered, OrderOf
    <2>2. ASSUME NEW r \in Requests, NEW u \in Users, NEW w \in Wallets,
                 CreateWallet(r, u, w)
          PROVE  UNCHANGED <<Founder, wallet_members, Orders>>
      <3>1. /\ wallets \subseteq wallets' /\ UNCHANGED <<joined, wallet_members>>
            /\ \A v \in wallets : creator'[v] = creator[v]
        BY <2>0, <2>2 DEF CreateWallet, Insert, TypeOK
      <3>2. UNCHANGED Orders
        BY <2>0, <2>2, OrdersStay DEF CreateWallet
      <3> QED
        BY <3>1, <3>2, FounderStays
    <2>3. ASSUME NEW r \in Requests, AddCreator(r)
          PROVE  M!MNext
      <3>1. PICK w \in Wallets, u \in Users :
              w = req[r].wallet /\ u = req[r].user /\ w \in wallets /\ u = creator[w]
        BY <2>0, <2>3, StageOf DEF AddCreator, HoldsStarted
      <3>2. w \notin Started
        BY <2>0, <2>3, <3>1 DEF AddCreator, HoldsStarted, Started
      <3>3. UNCHANGED Orders
        BY <2>0, <2>3, OrdersStay DEF AddCreator, Idle
      <3>4. /\ wallet_members' = wallet_members \cup {<<w, u>>}
            /\ Founder' = Insert(Founder, w, u)
        BY <2>3, <3>1, <3>2, InsertMaps DEF AddCreator
      <3>5. M!Found(w, u)
        BY <3>2, <3>3, <3>4
           DEF M!Found, Founder, Insert, M!Insert, Orders, Ordered, OrderOf
      <3>6. \E v \in Wallets, x \in Users : M!Found(v, x)
        BY <3>1, <3>5
      <3> HIDE DEF M!Found
      <3> QED
        BY <3>6, Zenon DEF M!MNext
    <2>4. ASSUME NEW r \in Requests, req[r].pc \in {"insert", "delete"},
                 Goto(r, Idle)
          PROVE  /\ r \in DOMAIN Orders /\ Orders[r] = OrderOf(r)
                 /\ Orders' = M!Without({r})
      <3>1. \A o \in Requests : req'[o] = IF o \in {r} THEN Idle ELSE req[o]
        BY <2>0, <2>4 DEF TypeOK, Goto
      <3> QED
        BY <2>0, <2>4, <3>1, OrderGone DEF Orders, Ordered
    <2>5. ASSUME NEW r \in Requests, AddFound(r)
          PROVE  M!MNext
      <3> DEFINE w == req[r].wallet
                 u == req[r].member
      <3>1. w \in wallets /\ u \in Users /\ <<w, creator[w]>> \in joined
        BY <2>0, <2>5, StageOf DEF AddFound, HoldsStarted
      <3>2. w \in Started
        BY <2>0, <3>1 DEF Started
      <3>3. wallet_members' = wallet_members \cup {<<w, u>>} /\ UNCHANGED Founder
        BY <2>5, <3>1, <3>2, InsertMaps DEF AddFound
      <3>4. /\ r \in DOMAIN Orders /\ Orders[r] = OrderOf(r)
            /\ Orders' = M!Without({r})
        BY <2>4, <2>5 DEF AddFound
      <3>5. M!CarryOut(r)
        BY <2>5, <3>3, <3>4 DEF AddFound, M!CarryOut, Founder, Orders, Ordered,
                                OrderOf
      <3> QED
        BY <3>5 DEF M!MNext
    <2>6. ASSUME NEW r \in Requests, DeleteMember(r)
          PROVE  M!MNext
      <3>1. UNCHANGED Founder
        BY <2>6, FounderStays DEF DeleteMember
      <3>2. /\ r \in DOMAIN Orders /\ Orders[r] = OrderOf(r)
            /\ Orders' = M!Without({r})
        BY <2>4, <2>6 DEF DeleteMember
      <3>3. M!CarryOut(r)
        BY <2>6, <3>1, <3>2
           DEF DeleteMember, RemoveWalletMember, M!CarryOut, Founder, Orders,
               Ordered, OrderOf
      <3> QED
        BY <3>3 DEF M!MNext
    <2>7. ASSUME NEW r \in Requests, NEW u \in Users, NEW m \in Users,
                 NEW n \in Wallets, AddMember(r, u, m, n) \/ RemoveMember(r, u, m, n)
          PROVE  M!MNext
      <3>1. PICK kind \in {"insert", "delete"}, w \in WalletsOf(u) :
              \E stage : /\ Goto(r, stage)
                         /\ stage.pc = kind /\ stage.user = u
                         /\ stage.wallet = w /\ stage.member = m
        <4>1. CASE AddMember(r, u, m, n)
          <5>1. PICK w \in WalletsOf(u) :
                  Goto(r, [pc |-> "insert", user |-> u, wallet |-> w,
                           named |-> n, member |-> m])
            BY <4>1 DEF AddMember
          <5> QED
            BY <5>1
        <4>2. CASE RemoveMember(r, u, m, n)
          BY <4>2 DEF RemoveMember
        <4> QED
          BY <2>7, <4>1, <4>2
      <3>2. w \in Wallets /\ <<w, u>> \in wallet_members
        BY DEF WalletsOf, GetWalletByUserID
      <3>3. /\ r \notin DOMAIN Orders
            /\ Orders' = Insert(Orders, r,
                 [kind |-> kind, by |-> u, wallet |-> w, user |-> m])
        BY <2>0, <2>7, <3>1, OrderTaken DEF AddMember, RemoveMember
      <3>4. UNCHANGED <<Founder, wallet_members>>
        BY <2>7, FounderStays DEF AddMember, RemoveMember
      <3>5. M!Order(r, kind, u, w, m)
        BY <3>2, <3>3, <3>4 DEF M!Order, M!Insert, Insert, Founder, Orders,
                                Ordered, OrderOf
      <3>6. \E v \in Users : M!Order(r, kind, v, w, m)
        BY <3>5
      <3>7. \E o \in Requests, k \in {"insert", "delete"}, v \in Users :
              M!Order(o, k, v, w, m)
        BY <3>6
      <3> HIDE DEF M!Order
      <3> QED
        BY <3>2, <3>7, Zenon DEF M!MNext
    <2>8. ASSUME NEW R \in SUBSET Requests,
                 \A o \in Requests : req'[o] = IF o \in R THEN Idle ELSE req[o],
                 UNCHANGED <<wallets, wallet_members, creator, joined>>
          PROVE  M!MNext
      <3>1. UNCHANGED Founder /\ Orders' = M!Without(R)
        BY <2>0, <2>8, FounderStays, OrderGone
      <3>2. M!Forget(R)
        BY <2>8, <3>1 DEF M!Forget, Founder, Orders, Ordered, OrderOf
      <3> QED
        BY <3>2 DEF M!MNext
    <2>9. ASSUME NEW r \in Requests, Fail(r)
          PROVE  M!MNext
      <3>1. \A o \in Requests : req'[o] = IF o \in {r} THEN Idle ELSE req[o]
        BY <2>0, <2>9 DEF Fail, Goto, TypeOK
      <3> QED
        BY <2>8, <2>9, <3>1 DEF Fail
    <2>10. CASE Crash
      <3>1. \A o \in Requests : req'[o] = IF o \in Requests THEN Idle ELSE req[o]
        BY <2>10 DEF Crash
      <3> QED
        BY <2>8, <2>10, <3>1 DEF Crash
    <2>11. CASE UNCHANGED vars
      BY <2>1, <2>11 DEF vars, Founder, Started, Orders, Ordered, OrderOf
    <2> QED
      BY <2>1, <2>2, <2>3, <2>5, <2>6, <2>7, <2>9, <2>10, <2>11
         DEF Next, Act, Refuse
  <1> QED
    BY <1>1, <1>2, IInvInit, IInvStep, PTL DEF Spec, MSpec, M!MSpec

=============================================================================
