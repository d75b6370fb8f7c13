------------------------------ MODULE Wallets ------------------------------
(***************************************************************************)
(* Shared wallets: handlers/wallets.go over the tables wallets and         *)
(* wallet_members.                                                         *)
(*                                                                         *)
(* Every request runs on its own, one statement per step, and comes with   *)
(* any ids: a page of any age may have sent it, and the handlers check no  *)
(* more of it than the actions do.  GET /wallets only reads.  Any          *)
(* statement may fail, and the process may die between two.                *)
(***************************************************************************)
EXTENDS Naturals, Queries

CONSTANTS
  Users,       \* registered users with a session
  Wallets,     \* ids the wallets sequence can give out
  Requests,    \* request slots: how many handlers run at once
  MaxFailures  \* bound: failed statements and crashes in a behaviour

ASSUME FailureAssumption == MaxFailures \in Nat

VARIABLES
  wallets,         \* table: the wallets with a row
  wallet_members,  \* table: pairs <<wallet, user>>
  req,             \* what each request slot is doing
  creator,         \* history: wallet -> the user whose request made the row
  joined,          \* history: every pair that was ever in wallet_members
  failures         \* failures so far

vars == <<wallets, wallet_members, req, creator, joined, failures>>

----------------------------------------------------------------------------

\* creator: a wallet row is in, its first member is not; insert: AddMember
\* has looked up wallet for a request that names another one, or the same;
\* delete: RemoveMember has checked its user.
Idle == [pc |-> "idle"]
Request ==
  {Idle}
    \cup [pc : {"creator"}, user : Users, wallet : Wallets]
    \cup [pc : {"insert"}, user : Users, wallet : Wallets, named : Wallets,
          member : Users]
    \cup [pc : {"delete"}, user : Users, wallet : Wallets, member : Users]

Goto(r, stage) == req' = [req EXCEPT ![r] = stage]

\* Mutant: LEFT JOIN, so that wallets nobody is in come too.
WalletsOfLeftJoin(u) ==
  {w \in wallets : \/ <<w, u>> \in wallet_members
                   \/ \A m \in Users : <<w, m>> \notin wallet_members}

WalletsOf(u) == GetWalletByUserID(wallet_members, Wallets, u)
MembersOf(w) == GetWalletMembersByWalletID(wallet_members, Users, w)

Init ==
  /\ wallets = {}
  /\ wallet_members = {}
  /\ req = [r \in Requests |-> Idle]
  /\ creator = EmptyTable
  /\ joined = {}
  /\ failures = 0

----------------------------------------------------------------------------
(* POST /api/wallets: the row, then its first member.                      *)

CreateWallet(r, u, w) ==
  /\ req[r].pc = "idle"
  /\ w \notin wallets
  /\ wallets' = wallets \cup {w}
  /\ creator' = Insert(creator, w, u)
  /\ Goto(r, [pc |-> "creator", user |-> u, wallet |-> w])
  /\ UNCHANGED <<wallet_members, joined, failures>>

\* Mutant: the two columns swapped.
InsertSwapped(w, u) ==
  /\ wallet_members' = AddWalletMember(wallet_members, u, w)
  /\ joined' = joined \cup {<<u, w>>}

\* INSERT INTO wallet_members; a pair that is there already is refused.
InsertMember(w, u) ==
  IF <<w, u>> \in wallet_members
    THEN UNCHANGED <<wallet_members, joined>>
    ELSE /\ wallet_members' = AddWalletMember(wallet_members, w, u)
         /\ joined' = joined \cup {<<w, u>>}

AddCreator(r) ==
  /\ req[r].pc = "creator"
  /\ InsertMember(req[r].wallet, req[r].user)
  /\ Goto(r, Idle)
  /\ UNCHANGED <<wallets, creator, failures>>

----------------------------------------------------------------------------
(* POST /api/wallets/{walletID}/members: the handler never reads walletID. *)
(* The user found by the e-mail address is m; users never change.          *)

AddMember(r, u, m, named) ==
  /\ req[r].pc = "idle"
  /\ \E w \in WalletsOf(u) :
       Goto(r, [pc |-> "insert", user |-> u, wallet |-> w, named |-> named,
                member |-> m])
  /\ UNCHANGED <<wallets, wallet_members, creator, joined, failures>>

AddFound(r) ==
  /\ req[r].pc = "insert"
  /\ InsertMember(req[r].wallet, req[r].member)
  /\ Goto(r, Idle)
  /\ UNCHANGED <<wallets, creator, failures>>

----------------------------------------------------------------------------
(* DELETE /api/wallets/{walletID}/members/{memberID}.  The member may be   *)
(* anybody, in the wallet or not, and the user who asks as well: only the  *)
(* page has no button for that.                                            *)

RemoveMember(r, u, m, named) ==
  /\ req[r].pc = "idle"
  /\ \E w \in WalletsOf(u) :
       /\ w = named
       /\ Goto(r, [pc |-> "delete", user |-> u, wallet |-> named,
                   member |-> m])
  /\ UNCHANGED <<wallets, wallet_members, creator, joined, failures>>

DeleteMember(r) ==
  /\ req[r].pc = "delete"
  /\ wallet_members' =
       RemoveWalletMember(wallet_members, req[r].wallet, req[r].member)
  /\ Goto(r, Idle)
  /\ UNCHANGED <<wallets, creator, joined, failures>>

\* No wallet found, or for RemoveMember not the one its request names.
Refuse(r, u, named) ==
  /\ req[r].pc = "idle"
  /\ WalletsOf(u) = {} \/ \E w \in WalletsOf(u) : w # named
  /\ UNCHANGED vars

----------------------------------------------------------------------------

\* A statement fails after an earlier one of the request has run, and the
\* handler answers with an error.
Fail(r) ==
  /\ failures < MaxFailures
  /\ req[r].pc # "idle"
  /\ Goto(r, Idle)
  /\ failures' = failures + 1
  /\ UNCHANGED <<wallets, wallet_members, creator, joined>>

Crash ==
  /\ failures < MaxFailures
  /\ req' = [r \in Requests |-> Idle]
  /\ failures' = failures + 1
  /\ UNCHANGED <<wallets, wallet_members, creator, joined>>

Act(r) ==
  \/ \E u \in Users, w \in Wallets :
       \/ CreateWallet(r, u, w)
       \/ Refuse(r, u, w)
       \/ \E m \in Users : AddMember(r, u, m, w) \/ RemoveMember(r, u, m, w)
  \/ AddCreator(r)
  \/ AddFound(r)
  \/ DeleteMember(r)

Next == Crash \/ \E r \in Requests : Act(r) \/ Fail(r)

Spec == Init /\ [][Next]_vars

----------------------------------------------------------------------------
(* Properties of every run.                                                *)

\* Pairs join rows that exist, and every request is well formed.
TypeOK ==
  /\ wallets \in SUBSET Wallets
  /\ wallet_members \in SUBSET (wallets \X Users)
  /\ req \in [Requests -> Request]
  /\ creator \in [wallets -> Users]
  /\ wallet_members \subseteq joined
  /\ joined \in SUBSET (wallets \X Users)
  /\ failures \in 0..MaxFailures

\* "Add creator as first member": whoever gets into a wallet, its creator
\* was in it first, although the row is visible to every other request
\* before the creator is a member.
CreatorJoinsFirst ==
  \A w \in wallets, u \in Users :
    <<w, u>> \in joined => <<w, creator[w]>> \in joined

\* The requests on their way to let somebody into w.
Entering(w) ==
  {r \in Requests : req[r].pc \in {"creator", "insert"} /\ req[r].wallet = w}

\* A wallet nobody is in, because its last member has left or its first was
\* never inserted, is entered only by requests that were on their way in when
\* it emptied, and each of them is used up by it: a lookup made too early may
\* bring somebody back, but no request that comes later can get in, and when
\* the last of those is gone the wallet is out of reach for good.
DesertedIsFinal ==
  [][\A w \in wallets :
       MembersOf(w) = {} =>
         /\ Entering(w)' \subseteq Entering(w)
         /\ MembersOf(w)' # {} => Entering(w)' # Entering(w)]_vars

\* The handlers' steps are those of the abstract wallet, which has started
\* once its first pair is in: whoever is let in or removed later is so by
\* order of somebody who was a member when the order was taken.
Started == {w \in wallets : \E u \in Users : <<w, u>> \in joined}
M == INSTANCE Membership WITH
       founder <- [w \in Started |-> creator[w]],
       members <- wallet_members,
       orders <- [r \in {o \in Requests : req[o].pc \in {"insert", "delete"}} |->
                    [kind |-> req[r].pc, by |-> req[r].user,
                     wallet |-> req[r].wallet, user |-> req[r].member]]
MSpec == M!MSpec

----------------------------------------------------------------------------
(* What the repository says, and the code does not keep.                   *)

\* "Verify user has access to this wallet": when a member is deleted, the
\* user who asked for it is a member of that wallet.
RemoverHasAccess ==
  \A r \in Requests :
    req[r].pc = "delete" /\ <<req[r].wallet, req[r].member>> \in wallet_members
      => <<req[r].wallet, req[r].user>> \in wallet_members

\* POST /api/wallets/{walletID}/members adds to the wallet it names, if the
\* user who asks is in that one.
AddsToNamedWallet ==
  \A r \in Requests :
    req[r].pc = "insert" /\ <<req[r].named, req[r].user>> \in wallet_members
      => req[r].wallet = req[r].named

=============================================================================
