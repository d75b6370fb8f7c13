---------------------------- MODULE AccountsProofs ----------------------------
(***************************************************************************)
(* Theorems about Accounts for any browsers, addresses, tokens and request *)
(* slots.                                                                  *)
(***************************************************************************)
EXTENDS Accounts, QueriesProofs

\* b's token was made for b, and its session is stored unless it was logged
\* out or is past its deadline.
Traced(k, b) ==
  k # NoToken =>
    /\ k \in DOMAIN holder /\ holder[k] = b
    /\ k \in DOMAIN sessions \cup loggedOut \cup expired

\* What a request holds: a token of its own browser, and from the check of
\* the password on a user of its own.
Good(q) ==
  /\ q.pc \notin {"idle", "act"} => Traced(q.token, q.browser)
  /\ q.pc \in {"commit", "act"} => Owns(q.browser, q.user)

SessionsOwned ==
  \A k \in DOMAIN sessions :
    k \in DOMAIN holder /\ Owns(holder[k], sessions[k])

IInv ==
  /\ TypeOK
  /\ SessionsOwned
  /\ \A b \in Browsers : Traced(cookie[b], b)
  /\ \A r \in Requests : Good(req[r])

----------------------------------------------------------------------------
(* Requests and tables.                                                    *)

\* The pc of a request tells which fields it has.
LEMMA StageOf ==
  ASSUME NEW q \in Request
  PROVE  /\ q.pc \in {"idle", "load", "check", "insert", "commit", "destroy",
                      "act", "answer"}
         /\ q.pc # "idle" => q.browser \in Browsers
         /\ q.pc \notin {"idle", "act"} => q.token \in Token
         /\ q.pc = "load" => q.form \in Form
         /\ q.pc \in {"check", "insert"} => q.email \in Emails
         /\ q.pc \in {"commit", "act"} => q.user \in Emails
  BY DEF Request, Idle

\* A form tells which operation it asks for.
LEMMA OperationOf ==
  ASSUME NEW form \in Form
  PROVE  /\ form.op \in {"login", "register", "logout", "page"}
         /\ form.op \in {"login", "register"} => form.email \in Emails
  BY DEF Form

\* A step of one request leaves the others where they are.
LEMMA GotoType ==
  ASSUME TypeOK, NEW r \in Requests, NEW stage \in Request, Goto(r, stage)
  PROVE  /\ req' \in [Requests -> Request]
         /\ req'[r] = stage
         /\ \A o \in Requests : o # r => req'[o] = req[o]
  BY DEF TypeOK, Goto

\* An idle request holds nothing.
LEMMA IdleIsGood == Idle \in Request /\ Idle.pc = "idle" /\ Good(Idle)
  BY DEF Request, Idle, Good

LEMMA TableTypes ==
  ASSUME TypeOK
  PROVE  /\ DOMAIN users \subseteq Emails
         /\ users \in [DOMAIN users -> Browsers]
         /\ DOMAIN sessions \subseteq Tokens
         /\ sessions \in [DOMAIN sessions -> Emails]
         /\ DOMAIN holder \subseteq Tokens
         /\ holder \in [DOMAIN holder -> Browsers]
  BY TableIsFunction DEF TypeOK

\* A registration takes no account from its owner, and the one it inserts
\* is the registering browser's.
LEMMA RegisterRow ==
  ASSUME TypeOK, NEW e \in Emails, NEW b \in Browsers,
         users' = CreateUser(users, e, b)
  PROVE  /\ users' \in PartialFunctions(Emails, Browsers)
         /\ e \notin DOMAIN users => Owns(b, e)'
         /\ \A c \in Browsers, f \in Emails : Owns(c, f) => Owns(c, f)'
  <1>1. users' \in PartialFunctions(Emails, Browsers)
    BY UserTable DEF TypeOK
  <1>2. e \notin DOMAIN users => Owns(b, e)'
    BY DEF CreateUser, Insert, Owns
  <1>3. ASSUME NEW c \in Browsers, NEW f \in Emails, Owns(c, f)
        PROVE  Owns(c, f)'
    BY <1>3 DEF CreateUser, Insert, Owns
  <1> QED
    BY <1>1, <1>2, <1>3

----------------------------------------------------------------------------
(* The inductive invariant.                                                *)

LEMMA IInvInit == Init => IInv
  <1> SUFFICES ASSUME Init PROVE IInv
    OBVIOUS
  <1>1. /\ users \in PartialFunctions(Emails, Browsers)
        /\ sessions \in PartialFunctions(Tokens, Emails)
        /\ holder \in PartialFunctions(Tokens, Browsers)
        /\ DOMAIN sessions = {}
    BY EmptyTableType DEF Init
  <1>2. cookie \in [Browsers -> Token] /\ \A b \in Browsers : cookie[b] = NoToken
    BY DEF Init, Token
  <1>3. req \in [Requests -> Request] /\ \A r \in Requests : req[r] = Idle
    BY IdleIsGood DEF Init
  <1>4. expired = {} /\ loggedOut = {} /\ faults \in 0..MaxFaults
    BY FaultAssumption DEF Init
  <1>5. TypeOK
    BY <1>1, <1>2, <1>3, <1>4 DEF TypeOK
  <1> QED
    BY <1>1, <1>2, <1>3, <1>5, IdleIsGood DEF IInv, SessionsOwned, Traced

\* Requests that move on with what they may hold.
LEMMA RequestMoves ==
  ASSUME IInv, req' \in [Requests -> Request],
         \A o \in Requests : req'[o] = req[o] \/ Good(req'[o]),
         UNCHANGED <<users, sessions, cookie, holder, expired, loggedOut>>,
         faults' \in 0..MaxFaults
  PROVE  IInv'
  <1>1. TypeOK'
    BY DEF IInv, TypeOK
  <1>2. SessionsOwned'
    BY DEF IInv, SessionsOwned, Owns
  <1>3. \A b \in Browsers : Traced(cookie[b], b)'
    BY DEF IInv, Traced
  <1>4. \A r \in Requests : Good(req[r])'
    BY DEF IInv, Good, Traced, Owns
  <1> QED
    BY <1>1, <1>2, <1>3, <1>4 DEF IInv

LEMMA SendStep ==
  ASSUME IInv, NEW r \in Requests, NEW b \in Browsers, NEW form \in Form,
         Send(r, b, form)
  PROVE  IInv'
  <1> DEFINE stage == [pc |-> "load", browser |-> b, token |-> cookie[b],
                       form |-> form]
  <1>1. stage \in Request
    BY DEF IInv, TypeOK, Request
  <1>2. Good(stage)
    BY DEF IInv, Good
  <1> QED
    BY <1>1, <1>2, GotoType, RequestMoves DEF Send, IInv, TypeOK

LEMMA LoadStep ==
  ASSUME IInv, NEW r \in Requests, Load(r)
  PROVE  IInv'
  <1> DEFINE q == req[r]
             token == Loaded(q.token)
  <1>1. /\ TypeOK /\ q \in Request /\ q.pc = "load"
        /\ Traced(q.token, q.browser)
    BY DEF IInv, TypeOK, Load, Good
  <1>2. q.browser \in Browsers /\ q.token \in Token /\ q.form \in Form
    BY <1>1, StageOf
  <1>3. token \in Token /\ Traced(token, q.browser)
    BY <1>1, <1>2 DEF Loaded, Traced, Token
  <1>4. ASSUME NEW stage \in Request, Good(stage), Goto(r, stage)
        PROVE  IInv'
    BY <1>1, <1>4, GotoType, RequestMoves DEF Load, TypeOK
  <1>5. ASSUME q.form.op \in {"login", "register"}, NEW pc \in {"check", "insert"},
               Goto(r, [pc |-> pc, browser |-> q.browser, token |-> token,
                        email |-> q.form.email])
        PROVE  IInv'
    <2> DEFINE stage == [pc |-> pc, browser |-> q.browser, token |-> token,
                         email |-> q.form.email]
    <2>1. stage \in Request
      BY <1>2, <1>3, <1>5, OperationOf DEF Request
    <2>2. Good(stage)
      BY <1>3 DEF Good
    <2> QED
      BY <1>4, <1>5, <2>1, <2>2
  <1>6. CASE q.form.op = "logout"
    <2> DEFINE stage == [pc |-> "destroy", browser |-> q.browser, token |-> token]
    <2>1. stage \in Request /\ Good(stage)
      BY <1>2, <1>3 DEF Request, Good
    <2> QED
      BY <1>4, <1>6, <2>1 DEF Load
  <1>7. CASE q.form.op = "page" /\ Live(q.token)
    <2> DEFINE stage == [pc |-> "act", browser |-> q.browser,
                         user |-> sessions[q.token]]
    <2>1. /\ q.token \in DOMAIN sessions /\ q.token \in Tokens
          /\ sessions[q.token] \in Emails
      BY <1>1, <1>7, TableTypes DEF Live
    <2>2. Owns(q.browser, sessions[q.token])
      BY <1>1, <2>1, TokenAssumption DEF IInv, SessionsOwned, Traced
    <2>3. stage \in Request /\ Good(stage)
      BY <1>2, <2>1, <2>2 DEF Request, Good
    <2> QED
      BY <1>4, <1>7, <2>3 DEF Load
  <1>8. CASE q.form.op = "page" /\ ~Live(q.token)
    BY <1>4, <1>8, IdleIsGood DEF Load
  <1>9. CASE q.form.op = "login"
    BY <1>5, <1>9 DEF Load
  <1>10. CASE q.form.op = "register"
    BY <1>5, <1>10 DEF Load
  <1> QED
    BY <1>2, <1>6, <1>7, <1>8, <1>9, <1>10, OperationOf

LEMMA LoginStep ==
  ASSUME IInv, NEW r \in Requests, Login(r)
  PROVE  IInv'
  <1> DEFINE q == req[r]
             stage == [pc |-> "commit", browser |-> q.browser,
                       token |-> q.token, user |-> q.email]
  <1>1. /\ TypeOK /\ q \in Request /\ q.pc = "check"
        /\ Traced(q.token, q.browser)
    BY DEF IInv, TypeOK, Login, Good
  <1>2. CASE Verified(q.email, q.browser)
    <2>1. Owns(q.browser, q.email)
      BY <1>2 DEF Verified, GetUserByEmail, Owns
    <2>2. stage \in Request /\ Good(stage)
      BY <1>1, <2>1, StageOf DEF Request, Good
    <2> QED
      BY <1>1, <1>2, <2>2, GotoType, RequestMoves DEF Login, TypeOK
  <1>3. CASE ~Verified(q.email, q.browser)
    BY <1>1, <1>3, IdleIsGood, GotoType, RequestMoves DEF Login, TypeOK
  <1> QED
    BY <1>2, <1>3

LEMMA RegisterStep ==
  ASSUME IInv, NEW r \in Requests, Register(r)
  PROVE  IInv'
  <1> DEFINE q == req[r]
  <1>1. /\ TypeOK /\ q \in Request /\ q.pc = "insert"
        /\ Traced(q.token, q.browser)
        /\ UNCHANGED <<sessions, cookie, holder, expired, loggedOut, faults>>
    BY DEF IInv, TypeOK, Register, Good
  <1>2. PICK b \in Browsers, k \in Token, e \in Emails :
          q.browser = b /\ q.token = k /\ q.email = e
    BY <1>1, StageOf
  <1> DEFINE stage == IF Refused(e)
                        THEN Idle
                        ELSE [pc |-> "commit", browser |-> b,
                              token |-> k, user |-> e]
  <1>3. users' = CreateUser(users, e, b) /\ Goto(r, stage)
    BY <1>2 DEF Register
  <1>4. /\ users' \in PartialFunctions(Emails, Browsers)
        /\ e \notin DOMAIN users => Owns(b, e)'
        /\ \A c \in Browsers, f \in Emails : Owns(c, f) => Owns(c, f)'
    BY <1>1, <1>3, RegisterRow
  <1>5. stage \in Request
    BY <1>2, IdleIsGood DEF Request
  <1>6. /\ req' \in [Requests -> Request]
        /\ req'[r] = stage
        /\ \A o \in Requests : o # r => req'[o] = req[o]
    BY <1>1, <1>3, <1>5, GotoType
  <1>7. TypeOK'
    BY <1>1, <1>4, <1>6 DEF TypeOK
  <1>8. SessionsOwned'
    <2>1. \A j \in DOMAIN sessions : j \in DOMAIN holder =>
            holder[j] \in Browsers /\ sessions[j] \in Emails
      BY <1>1, TableTypes
    <2> QED
      BY <1>1, <1>4, <2>1 DEF IInv, SessionsOwned, Owns
  <1>9. \A c \in Browsers : Traced(cookie[c], c)'
    BY <1>1 DEF IInv, Traced
  <1>10. ASSUME NEW o \in Requests PROVE Good(req[o])'
    <2>1. CASE o # r
      <3>1. req[o] \in Request /\ Good(req[o]) /\ req'[o] = req[o]
        BY <1>1, <1>6, <2>1 DEF IInv, TypeOK
      <3>2. req[o].pc \in {"commit", "act"} => Owns(req[o].browser, req[o].user)'
        BY <1>4, <3>1, StageOf DEF Good, Owns
      <3> QED
        BY <1>1, <3>1, <3>2 DEF Good, Traced, Owns
    <2>2. CASE o = r /\ Refused(e)
      BY <1>6, <2>2, IdleIsGood DEF Good
    <2>3. CASE o = r /\ ~Refused(e)
      <3>1. /\ req'[o].pc = "commit" /\ req'[o].token = k
            /\ req'[o].browser = b /\ req'[o].user = e
        BY <1>6, <2>3
      <3>2. Owns(b, e)'
        BY <1>4, <2>3 DEF Refused
      <3> QED
        BY <1>1, <1>2, <3>1, <3>2 DEF Good, Traced, Owns
    <2> QED
      BY <2>1, <2>2, <2>3
  <1> QED
    BY <1>7, <1>8, <1>9, <1>10 DEF IInv

\* What a commit leaves of the tokens that something named.
LEMMA CommitKeepsNamed ==
  ASSUME IInv, NEW r \in Requests, Commit(r),
         NEW j, NEW c, Named(j), Traced(j, c)
  PROVE  Traced(j, c)'
  <1>1. PICK k \in Tokens :
          /\ sessions' = Insert(sessions, k, req[r].user)
          /\ \/ UNCHANGED <<holder, expired, loggedOut>>
             \/ /\ Fresh(k)
                /\ holder' = Insert(holder, k, req[r].browser)
                /\ expired' = expired \ {k}
                /\ loggedOut' = loggedOut \ {k}
    BY DEF Commit
  <1>2. CASE UNCHANGED <<holder, expired, loggedOut>>
    BY <1>1, <1>2 DEF Traced, Insert
  <1>3. CASE /\ Fresh(k)
             /\ holder' = Insert(holder, k, req[r].browser)
             /\ expired' = expired \ {k}
             /\ loggedOut' = loggedOut \ {k}
    <2>1. j # k
      BY <1>3 DEF Fresh
    <2> QED
      BY <1>1, <1>3, <2>1 DEF Traced, Insert
  <1> QED
    BY <1>1, <1>2, <1>3

LEMMA CommitStep ==
  ASSUME IInv, NEW r \in Requests, Commit(r)
  PROVE  IInv'
  <1> DEFINE q == req[r]
  <1>1. /\ TypeOK /\ q \in Request /\ q.pc = "commit"
        /\ Traced(q.token, q.browser) /\ Owns(q.browser, q.user)
        /\ UNCHANGED <<users, cookie, faults>>
    BY DEF IInv, TypeOK, Commit, Good
  <1>2. PICK b \in Browsers, e \in Emails : q.browser = b /\ q.user = e
    BY <1>1, StageOf
  <1>3. PICK k \in Tokens :
          /\ \/ q.token = k /\ UNCHANGED <<holder, expired, loggedOut>>
             \/ /\ Fresh(k)
                /\ holder' = Insert(holder, k, b)
                /\ expired' = expired \ {k}
                /\ loggedOut' = loggedOut \ {k}
          /\ sessions' = Insert(sessions, k, e)
          /\ Goto(r, [pc |-> "answer", browser |-> b, token |-> k])
    BY <1>2 DEF Commit
  <1> DEFINE stage == [pc |-> "answer", browser |-> b, token |-> k]
  <1>4. /\ req' \in [Requests -> Request]
        /\ req'[r] = stage
        /\ \A o \in Requests : o # r => req'[o] = req[o]
    <2>1. stage \in Request
      BY DEF Request, Token
    <2> QED
      BY <1>1, <1>3, <2>1, GotoType
  <1>5. /\ sessions' \in PartialFunctions(Tokens, Emails)
        /\ k \in DOMAIN sessions' /\ sessions'[k] = e
        /\ DOMAIN sessions' = DOMAIN sessions \cup {k}
        /\ \A j \in DOMAIN sessions : j # k => sessions'[j] = sessions[j]
    <2>1. sessions' \in PartialFunctions(Tokens, Emails)
      BY <1>1, <1>3, InsertRow DEF TypeOK
    <2> QED
      BY <1>3, <2>1 DEF Insert
  <1>6. /\ holder' \in PartialFunctions(Tokens, Browsers)
        /\ k \in DOMAIN holder' /\ holder'[k] = b
        /\ \A j \in DOMAIN holder :
             j \in DOMAIN holder' /\ (j # k => holder'[j] = holder[j])
    <2>1. CASE q.token = k /\ UNCHANGED <<holder, expired, loggedOut>>
      BY <1>1, <1>2, <2>1, TokenAssumption DEF TypeOK, Traced
    <2>2. CASE holder' = Insert(holder, k, b)
      <3>1. holder' \in PartialFunctions(Tokens, Browsers)
        BY <1>1, <2>2, InsertRow DEF TypeOK
      <3> QED
        BY <2>2, <3>1 DEF Insert
    <2> QED
      BY <1>3, <2>1, <2>2
  <1>7. expired' \in SUBSET Tokens /\ loggedOut' \in SUBSET Tokens
    BY <1>1, <1>3 DEF TypeOK
  <1>8. TypeOK'
    BY <1>1, <1>4, <1>5, <1>6, <1>7 DEF TypeOK
  <1>9. SessionsOwned'
    BY <1>1, <1>2, <1>5, <1>6 DEF IInv, SessionsOwned, Owns
  <1>10. ASSUME NEW c \in Browsers PROVE Traced(cookie[c], c)'
    BY <1>1, CommitKeepsNamed DEF IInv, Named, Traced
  <1>11. ASSUME NEW o \in Requests PROVE Good(req[o])'
    <2>1. CASE o = r
      BY <1>4, <1>5, <1>6, <2>1 DEF Good, Traced
    <2>2. CASE o # r
      <3>1. req'[o] = req[o] /\ Good(req[o])
        BY <1>4, <2>2 DEF IInv
      <3>2. ASSUME req[o].pc \notin {"idle", "act"}
            PROVE  Traced(req[o].token, req[o].browser)'
        <4>1. Named(req[o].token) /\ Traced(req[o].token, req[o].browser)
          BY <3>1, <3>2 DEF Named, Good
        <4> QED
          BY <3>1, <4>1, CommitKeepsNamed DEF Traced
      <3> QED
        BY <1>1, <3>1, <3>2 DEF Good, Owns
    <2> QED
      BY <2>1, <2>2
  <1> QED
    BY <1>8, <1>9, <1>10, <1>11 DEF IInv

LEMMA LogoutStep ==
  ASSUME IInv, NEW r \in Requests, Logout(r)
  PROVE  IInv'
  <1> DEFINE q == req[r]
             stage == [pc |-> "answer", browser |-> q.browser,
                       token |-> NoToken]
  <1>1. /\ TypeOK /\ q \in Request /\ q.pc = "destroy" /\ Goto(r, stage)
        /\ UNCHANGED <<users, cookie, holder, expired, faults>>
        /\ sessions' = [k \in DOMAIN sessions \ {q.token} |-> sessions[k]]
        /\ loggedOut' = loggedOut \cup ({q.token} \ {NoToken})
    BY DEF IInv, TypeOK, Logout
  <1>2. q.browser \in Browsers /\ q.token \in Token
    BY <1>1, StageOf
  <1>3. /\ req' \in [Requests -> Request]
        /\ req'[r] = stage
        /\ \A o \in Requests : o # r => req'[o] = req[o]
    <2>1. stage \in Request
      BY <1>2 DEF Request, Token
    <2> QED
      BY <1>1, <2>1, GotoType
  <1>4. sessions' \in PartialFunctions(Tokens, Emails)
    <2>1. /\ DOMAIN sessions' \subseteq Tokens
          /\ sessions' \in [DOMAIN sessions' -> Emails]
      BY <1>1, TableTypes
    <2> QED
      BY <2>1, TableIsFunction
  <1>5. TypeOK'
    BY <1>1, <1>2, <1>3, <1>4 DEF TypeOK, Token
  <1>6. SessionsOwned'
    BY <1>1 DEF IInv, SessionsOwned, Owns
  <1>7. ASSUME NEW j, NEW c, Traced(j, c) PROVE Traced(j, c)'
    BY <1>1, <1>7 DEF Traced
  <1>8. \A b \in Browsers : Traced(cookie[b], b)'
    BY <1>1, <1>7 DEF IInv, Traced
  <1>9. ASSUME NEW o \in Requests PROVE Good(req[o])'
    <2>1. CASE o = r
      BY <1>3, <2>1 DEF Good, Traced
    <2>2. CASE o # r
      <3>1. req'[o] = req[o] /\ Good(req[o])
        BY <1>3, <2>2 DEF IInv
      <3>2. req[o].pc \notin {"idle", "act"}
              => Traced(req[o].token, req[o].browser)'
        BY <1>7, <3>1 DEF Good, Traced
      <3> QED
        BY <1>1, <3>1, <3>2 DEF Good, Owns
    <2> QED
      BY <2>1, <2>2
  <1> QED
    BY <1>5, <1>6, <1>8, <1>9 DEF IInv

LEMMA AnswerStep ==
  ASSUME IInv, NEW r \in Requests, Answer(r)
  PROVE  IInv'
  <1> DEFINE q == req[r]
  <1>1. /\ TypeOK /\ q \in Request /\ q.pc = "answer"
        /\ Traced(q.token, q.browser)
        /\ cookie' = [cookie EXCEPT ![q.browser] = q.token]
        /\ Goto(r, Idle)
        /\ UNCHANGED <<users, sessions, holder, expired, loggedOut, faults>>
    BY DEF IInv, TypeOK, Answer, Good
  <1>2. q.browser \in Browsers /\ q.token \in Token
    BY <1>1, StageOf
  <1>3. /\ req' \in [Requests -> Request]
        /\ req'[r] = Idle
        /\ \A o \in Requests : o # r => req'[o] = req[o]
    BY <1>1, IdleIsGood, GotoType
  <1>4. TypeOK'
    BY <1>1, <1>2, <1>3 DEF TypeOK
  <1>5. SessionsOwned'
    BY <1>1 DEF IInv, SessionsOwned, Owns
  <1>6. ASSUME NEW b \in Browsers PROVE Traced(cookie[b], b)'
    <2>1. Traced(cookie'[b], b)
      BY <1>1, <1>2 DEF IInv, TypeOK
    <2> QED
      BY <1>1, <2>1 DEF Traced
  <1>7. \A o \in Requests : Good(req[o])'
    BY <1>1, <1>3, IdleIsGood DEF IInv, Good, Traced, Owns
  <1> QED
    BY <1>4, <1>5, <1>6, <1>7 DEF IInv

\* A deadline that passes, and the rows that are cleaned up behind it.
LEMMA ExpiryStep ==
  ASSUME IInv, (\E k \in Tokens : Expire(k)) \/ Cleanup
  PROVE  IInv'
  <1>1. /\ TypeOK
        /\ UNCHANGED <<users, cookie, req, holder, loggedOut>>
        /\ expired' \in SUBSET Tokens /\ expired \subseteq expired'
        /\ faults' \in 0..MaxFaults
    BY FaultAssumption DEF IInv, TypeOK, Expire, Cleanup
  <1>2. /\ sessions' \in PartialFunctions(Tokens, Emails)
        /\ DOMAIN sessions' \subseteq DOMAIN sessions
        /\ \A k \in DOMAIN sessions' : sessions'[k] = sessions[k]
        /\ DOMAIN sessions \subseteq DOMAIN sessions' \cup expired'
    <2>1. CASE UNCHANGED sessions
      BY <1>1, <2>1 DEF TypeOK
    <2>2. CASE Cleanup
      <3>1. /\ DOMAIN sessions' \subseteq Tokens
            /\ sessions' \in [DOMAIN sessions' -> Emails]
        BY <1>1, <2>2, TableTypes DEF Cleanup
      <3> QED
        BY <2>2, <3>1, TableIsFunction DEF Cleanup, Stale
    <2> QED
      BY <2>1, <2>2 DEF Expire
  <1>3. TypeOK'
    BY <1>1, <1>2 DEF TypeOK
  <1>4. SessionsOwned'
    BY <1>1, <1>2 DEF IInv, SessionsOwned, Owns
  <1>5. \A b \in Browsers : Traced(cookie[b], b)'
    BY <1>1, <1>2 DEF IInv, Traced
  <1>6. \A r \in Requests : Good(req[r])'
    BY <1>1, <1>2 DEF IInv, Good, Traced, Owns
  <1> QED
    BY <1>3, <1>4, <1>5, <1>6 DEF IInv

\* Requests that end without a change.
LEMMA EndStep ==
  ASSUME IInv,
         \/ \E r \in Requests : TokensOut(r) \/ PageDone(r) \/ Fail(r)
         \/ Crash
         \/ UNCHANGED vars
  PROVE  IInv'
  <1>1. /\ faults' \in 0..MaxFaults
        /\ UNCHANGED <<users, sessions, cookie, holder, expired, loggedOut>>
    BY FaultAssumption
       DEF IInv, TypeOK, TokensOut, PageDone, Fail, Crash, vars
  <1>2. /\ req' \in [Requests -> Request]
        /\ \A o \in Requests : req'[o] = req[o] \/ req'[o] = Idle
    BY IdleIsGood
       DEF IInv, TypeOK, TokensOut, PageDone, Fail, Crash, vars, Goto
  <1> QED
    BY <1>1, <1>2, IdleIsGood, RequestMoves

LEMMA IInvStep == IInv /\ [Next]_vars => IInv'
  <1> SUFFICES ASSUME IInv, [Next]_vars PROVE IInv'
    OBVIOUS
  <1>1. CASE \E r \in Requests, b \in Browsers, form \in Form : Send(r, b, form)
    BY <1>1, SendStep
  <1>2. CASE \E r \in Requests : Proceed(r) \/ Fail(r)
    BY <1>2, LoadStep, LoginStep, RegisterStep, CommitStep, LogoutStep,
       AnswerStep, EndStep DEF Proceed
  <1>3. CASE (\E k \in Tokens : Expire(k)) \/ Cleanup
    BY <1>3, ExpiryStep
  <1>4. CASE Crash \/ UNCHANGED vars
    BY <1>4, EndStep
  <1> QED
    BY <1>1, <1>2, <1>3, <1>4 DEF Next

----------------------------------------------------------------------------
(* Sessions that are gone.                                                 *)

\* Only a commit of a sign-in that names it brings a token's session back, and
\* that is the sign-in's last statement.
LEMMA RevivedByCommit ==
  ASSUME TypeOK, [Next]_vars, NEW k \in Tokens, Named(k), ~Live(k), Live(k)'
  PROVE  SigningInto(k)' # SigningInto(k)
  <1>1. ASSUME NEW r \in Requests, Commit(r)
        PROVE  SigningInto(k)' # SigningInto(k)
    <2>1. PICK j \in Tokens :
            /\ \/ req[r].token = j /\ UNCHANGED expired
               \/ Fresh(j) /\ expired' = expired \ {j}
            /\ sessions' = Insert(sessions, j, req[r].user)
            /\ Goto(r, [pc |-> "answer", browser |-> req[r].browser, token |-> j])
      BY <1>1 DEF Commit
    <2>2. j = k
      BY <2>1 DEF Live, Insert, Fresh
    <2>3. r \in SigningInto(k)
      BY <1>1, <2>1, <2>2 DEF Commit, SigningInto, Fresh
    <2>4. req'[r].pc = "answer"
      BY <2>1 DEF Goto, TypeOK
    <2>5. r \notin SigningInto(k)'
      BY <2>4 DEF SigningInto
    <2> QED
      BY <2>3, <2>5
  <1>2. CASE DOMAIN sessions' \subseteq DOMAIN sessions /\ expired \subseteq expired'
    BY <1>2 DEF Live
  <1>3. ASSUME NEW r \in Requests, Proceed(r), ~Commit(r)
        PROVE  SigningInto(k)' # SigningInto(k)
    BY <1>2, <1>3
       DEF Proceed, Load, Login, Register, TokensOut, Logout, Answer, PageDone
  <1>4. CASE \/ \E r \in Requests :
                  \/ \E b \in Browsers, form \in Form : Send(r, b, form)
                  \/ Fail(r)
             \/ \E j \in Tokens : Expire(j)
             \/ Cleanup \/ Crash \/ UNCHANGED vars
    BY <1>2, <1>4 DEF Send, Fail, Expire, Cleanup, Stale, Crash, vars
  <1> QED
    BY <1>1, <1>3, <1>4 DEF Next

\* What a sign-in loads is live.
LEMMA NobodyLoadsIt ==
  ASSUME TypeOK, [Next]_vars, NEW k \in Tokens, Named(k), ~Live(k)
  PROVE  SigningInto(k)' \subseteq SigningInto(k)
  <1> DEFINE Into(q) == q.pc \in {"check", "insert", "commit"} /\ q.token = k
  <1>1. SigningInto(k) = {o \in Requests : Into(req[o])}
    BY DEF SigningInto
  <1>2. ASSUME NEW r \in Requests, NEW stage, Goto(r, stage),
               Into(stage) => Into(req[r])
        PROVE  SigningInto(k)' \subseteq SigningInto(k)
    BY <1>2 DEF Goto, SigningInto, TypeOK
  <1>3. CASE UNCHANGED req
    BY <1>3 DEF SigningInto
  <1>4. ASSUME NEW r \in Requests, Load(r) PROVE SigningInto(k)' \subseteq SigningInto(k)
    <2>1. Loaded(req[r].token) # k
      BY TokenAssumption DEF Loaded
    <2>2. req[r].form \in Form
      BY <1>4, StageOf DEF TypeOK, Load
    <2>3. ASSUME NEW stage, Goto(r, stage),
                 \/ stage.pc \in {"destroy", "act", "idle"}
                 \/ stage.token = Loaded(req[r].token)
          PROVE  SigningInto(k)' \subseteq SigningInto(k)
      BY <1>2, <2>1, <2>3
    <2>4. CASE req[r].form.op = "login"
      BY <1>4, <2>3, <2>4 DEF Load
    <2>5. CASE req[r].form.op = "register"
      BY <1>4, <2>3, <2>5 DEF Load
    <2>6. CASE req[r].form.op = "logout"
      BY <1>4, <2>3, <2>6 DEF Load
    <2>7. CASE req[r].form.op = "page"
      BY <1>4, <2>3, <2>7, IdleIsGood DEF Load
    <2> QED
      BY <2>2, <2>4, <2>5, <2>6, <2>7, OperationOf
  <1>5. ASSUME NEW r \in Requests, Login(r) \/ Register(r)
        PROVE  SigningInto(k)' \subseteq SigningInto(k)
    <2> DEFINE done == [pc |-> "commit", browser |-> req[r].browser,
                        token |-> req[r].token, user |-> req[r].email]
    <2>1. Into(done) => Into(req[r])
      BY <1>5 DEF Login, Register
    <2>2. Goto(r, done) \/ Goto(r, Idle)
      BY <1>5 DEF Login, Register
    <2> HIDE DEF done
    <2> QED
      BY <1>2, <2>1, <2>2, IdleIsGood
  <1>6. ASSUME NEW r \in Requests, Commit(r) PROVE SigningInto(k)' \subseteq SigningInto(k)
    <2>1. PICK j \in Tokens :
            Goto(r, [pc |-> "answer", browser |-> req[r].browser, token |-> j])
      BY <1>6 DEF Commit
    <2> QED
      BY <1>2, <2>1
  <1>7. ASSUME NEW r \in Requests,
               \/ \E b \in Browsers, form \in Form : Send(r, b, form)
               \/ TokensOut(r) \/ Logout(r) \/ Answer(r) \/ PageDone(r)
               \/ Fail(r)
        PROVE  SigningInto(k)' \subseteq SigningInto(k)
    BY <1>2, <1>7, IdleIsGood DEF Send, TokensOut, Logout, Answer, PageDone, Fail
  <1>8. CASE Crash
    BY <1>8, IdleIsGood DEF Crash, SigningInto
  <1>9. CASE (\E j \in Tokens : Expire(j)) \/ Cleanup \/ UNCHANGED vars
    BY <1>3, <1>9 DEF Expire, Cleanup, vars
  <1> QED
    BY <1>4, <1>5, <1>6, <1>7, <1>8, <1>9 DEF Next, Proceed

----------------------------------------------------------------------------
(* The abstract sign-in.                                                   *)

LiveTokens == {j \in DOMAIN sessions : Live(j)}
Signed == [k \in LiveTokens |-> sessions[k]]

\* The abstract step of a commit: into a new session, one that the request
\* had loaded, or none if that one's deadline has passed meanwhile.
LEMMA CommitSigns ==
  ASSUME IInv, NEW r \in Requests, Commit(r)
  PROVE  [S!SNext]_(S!svars)
  <1>1. /\ TypeOK /\ req[r] \in Request /\ req[r].pc = "commit"
        /\ Traced(req[r].token, req[r].browser)
        /\ Owns(req[r].browser, req[r].user)
        /\ UNCHANGED <<users, cookie>>
    BY DEF IInv, TypeOK, Commit, Good
  <1>2. PICK b \in Browsers, e \in Emails : req[r].browser = b /\ req[r].user = e
    BY <1>1, StageOf
  <1>3. PICK k \in Tokens :
          /\ \/ req[r].token = k /\ UNCHANGED <<holder, expired, loggedOut>>
             \/ /\ Fresh(k)
                /\ holder' = Insert(holder, k, b)
                /\ expired' = expired \ {k}
          /\ sessions' = Insert(sessions, k, e)
    BY <1>2 DEF Commit
  <1>4. e \in DOMAIN users /\ users[e] = b
    BY <1>1, <1>2 DEF Owns
  <1>5. \A j : j # k => /\ j \in LiveTokens' <=> j \in LiveTokens
                        /\ j \in LiveTokens => sessions'[j] = sessions[j]
    BY <1>3 DEF LiveTokens, Live, Insert
  <1>6. k \in DOMAIN sessions' /\ sessions'[k] = e
    BY <1>3 DEF Insert
  <1>7. CASE k \notin expired'
    <2>1. k \in LiveTokens'
      BY <1>6, <1>7 DEF LiveTokens, Live
    <2>2. Signed' = Insert(Signed, k, e)
      BY <1>5, <1>6, <2>1 DEF Signed, Insert
    <2>3. CASE req[r].token = k /\ UNCHANGED <<holder, expired, loggedOut>>
      <3>1. k \in DOMAIN holder /\ holder[k] = b
        BY <1>1, <1>2, <2>3, TokenAssumption DEF Traced
      <3>2. S!SignInto(k, e)
        BY <1>1, <1>4, <2>2, <2>3, <3>1
           DEF S!SignInto, S!Insert, Insert, Signed, LiveTokens
      <3> QED
        BY <3>2 DEF S!SNext
    <2>4. CASE Fresh(k) /\ holder' = Insert(holder, k, b)
      <3>1. k \notin DOMAIN Signed /\ \A c \in Browsers : cookie[c] # k
        BY <2>4 DEF Fresh, Named, Signed, LiveTokens
      <3>2. S!Make(k, b, e)
        BY <1>1, <1>4, <2>2, <2>4, <3>1
           DEF S!Make, S!Insert, Insert, Signed, LiveTokens
      <3> QED
        BY <3>2 DEF S!SNext
    <2> QED
      BY <1>3, <2>3, <2>4
  <1>8. CASE k \in expired'
    <2>1. UNCHANGED <<holder, expired>>
      BY <1>3, <1>8
    <2>2. k \notin LiveTokens /\ k \notin LiveTokens'
      BY <1>8, <2>1 DEF LiveTokens, Live
    <2>3. LiveTokens' = LiveTokens
      BY <1>5, <2>2 DEF LiveTokens
    <2>4. Signed' = Signed
      BY <1>5, <2>2, <2>3 DEF Signed
    <2> QED
      BY <1>1, <2>1, <2>4 DEF S!svars, Signed, LiveTokens
  <1> QED
    BY <1>7, <1>8

\* A logout, a deadline and the cleanup end at most the session they name.
LEMMA EndSigns ==
  ASSUME IInv,
         \/ \E r \in Requests : Logout(r)
         \/ \E k \in Tokens : Expire(k)
         \/ Cleanup
  PROVE  [S!SNext]_(S!svars)
  <1>1. DOMAIN sessions \subseteq Tokens
    BY TableTypes DEF IInv
  <1>2. ASSUME NEW k, UNCHANGED <<users, holder, cookie>>,
               LiveTokens' = LiveTokens \ {k},
               \A j \in LiveTokens' : sessions'[j] = sessions[j]
        PROVE  [S!SNext]_(S!svars)
    <2>1. Signed' = [j \in DOMAIN Signed \ {k} |-> Signed[j]]
      BY <1>2 DEF Signed
    <2>2. CASE k \in Tokens
      <3>1. S!End(k)
        BY <1>2, <2>1 DEF S!End, Signed, LiveTokens
      <3> QED
        BY <2>2, <3>1 DEF S!SNext
    <2>3. CASE k \notin Tokens
      <3>1. k \notin LiveTokens
        BY <1>1, <2>3 DEF LiveTokens
      <3>2. Signed' = Signed
        BY <1>2, <3>1 DEF Signed
      <3> QED
        BY <1>2, <3>2 DEF S!svars, Signed, LiveTokens
    <2> QED
      BY <2>2, <2>3
  <1>3. ASSUME NEW r \in Requests, Logout(r)
        PROVE  [S!SNext]_(S!svars)
    <2>1. /\ UNCHANGED <<users, holder, cookie, expired>>
          /\ sessions' = [k \in DOMAIN sessions \ {req[r].token} |-> sessions[k]]
      BY <1>3 DEF Logout
    <2>2. LiveTokens' = LiveTokens \ {req[r].token}
      BY <2>1 DEF LiveTokens, Live
    <2>3. \A j \in LiveTokens' : sessions'[j] = sessions[j]
      BY <2>1 DEF LiveTokens
    <2> QED
      BY <1>2, <2>1, <2>2, <2>3
  <1>4. ASSUME NEW k \in Tokens, Expire(k)
        PROVE  [S!SNext]_(S!svars)
    <2>1. UNCHANGED <<users, holder, cookie, sessions>> /\ expired' = expired \cup {k}
      BY <1>4 DEF Expire
    <2>2. LiveTokens' = LiveTokens \ {k}
      BY <2>1 DEF LiveTokens, Live
    <2> QED
      BY <1>2, <2>1, <2>2
  <1>5. CASE Cleanup
    <2>1. /\ UNCHANGED <<users, holder, cookie, expired>>
          /\ sessions' = [k \in DOMAIN sessions \ Stale |-> sessions[k]]
      BY <1>5 DEF Cleanup
    <2>2. LiveTokens' = LiveTokens \ {NoToken}
      BY <1>1, <2>1, TokenAssumption DEF LiveTokens, Live, Stale
    <2>3. \A j \in LiveTokens' : sessions'[j] = sessions[j]
      BY <2>1 DEF LiveTokens
    <2> QED
      BY <1>2, <2>1, <2>2, <2>3
  <1> QED
    BY <1>3, <1>4, <1>5

\* A refused registration changes nothing.
LEMMA RegisterEnrols ==
  ASSUME IInv, NEW r \in Requests, Register(r)
  PROVE  [S!SNext]_(S!svars)
  <1>1. /\ req[r] \in Request /\ req[r].pc = "insert"
        /\ users' = CreateUser(users, req[r].email, req[r].browser)
        /\ UNCHANGED <<sessions, cookie, holder, expired>>
    BY DEF IInv, TypeOK, Register
  <1>2. req[r].email \in Emails /\ req[r].browser \in Browsers
    BY <1>1, StageOf
  <1>3. Signed' = Signed
    BY <1>1 DEF Signed, LiveTokens, Live
  <1>4. CASE req[r].email \in DOMAIN users
    BY <1>1, <1>3, <1>4 DEF CreateUser, S!svars, Signed, LiveTokens
  <1>5. CASE req[r].email \notin DOMAIN users
    <2>1. S!Enrol(req[r].email, req[r].browser)
      BY <1>1, <1>3, <1>5
         DEF CreateUser, S!Enrol, S!Insert, Insert, Signed, LiveTokens
    <2> QED
      BY <1>2, <2>1 DEF S!SNext
  <1> QED
    BY <1>4, <1>5

\* The cookie of an answer was made for the browser it comes to.
LEMMA AnswerHands ==
  ASSUME IInv, NEW r \in Requests, Answer(r)
  PROVE  [S!SNext]_(S!svars)
  <1>1. /\ req[r] \in Request /\ req[r].pc = "answer"
        /\ Traced(req[r].token, req[r].browser)
        /\ cookie' = [cookie EXCEPT ![req[r].browser] = req[r].token]
        /\ UNCHANGED <<users, sessions, holder, expired>>
    BY DEF IInv, TypeOK, Answer, Good
  <1>2. req[r].token \in Tokens \cup {NoToken} /\ req[r].browser \in Browsers
    BY <1>1, StageOf DEF Token
  <1>3. Signed' = Signed
    BY <1>1 DEF Signed, LiveTokens, Live
  <1>4. S!Hand(req[r].browser, req[r].token)
    BY <1>1, <1>3 DEF S!Hand, Traced, Signed, LiveTokens
  <1> QED
    BY <1>2, <1>4 DEF S!SNext

\* Every step is one of the sign-in's, or leaves it alone.
LEMMA SignInStep == IInv /\ [Next]_vars => [S!SNext]_(S!svars)
  <1> SUFFICES ASSUME IInv, [Next]_vars PROVE [S!SNext]_(S!svars)
    OBVIOUS
  <1>1. CASE UNCHANGED <<users, sessions, cookie, holder, expired>>
    <2>1. Signed' = Signed
      BY <1>1 DEF Signed, LiveTokens, Live
    <2> QED
      BY <1>1, <2>1 DEF S!svars, Signed, LiveTokens
  <1>2. ASSUME NEW r \in Requests, Proceed(r)
        PROVE  [S!SNext]_(S!svars)
    BY <1>1, <1>2, CommitSigns, EndSigns, RegisterEnrols, AnswerHands
       DEF Proceed, Load, Login, TokensOut, PageDone
  <1> QED
    BY <1>1, <1>2, EndSigns DEF Next, vars, Send, Fail, Crash

LEMMA SignInInit == Init => S!SInit
  <1> SUFFICES ASSUME Init PROVE S!SInit
    OBVIOUS
  <1>1. DOMAIN sessions = {}
    BY EmptyTableType DEF Init
  <1>2. Signed = EmptyTable
    BY <1>1 DEF Signed, LiveTokens, EmptyTable
  <1> QED
    BY <1>2 DEF Init, S!SInit, S!EmptyTable, EmptyTable, Signed, LiveTokens

----------------------------------------------------------------------------
(* The theorems.                                                           *)

\* Tables, cookies, requests and histories are well formed.
THEOREM TypeCorrect == Spec => []TypeOK
  <1>1. IInv => TypeOK
    BY DEF IInv
  <1> QED
    BY <1>1, IInvInit, IInvStep, PTL DEF Spec

\* A session, and a page being served, is only ever the account's owner's.
THEOREM OwnersSignIn == Spec => []SignedInAsOneself
  <1>1. IInv => SignedInAsOneself
    BY DEF IInv, SessionsOwned, Good, SignedInAsOneself
  <1> QED
    BY <1>1, IInvInit, IInvStep, PTL DEF Spec

\* A cookie names its browser's own session, stored for as long as it
\* lives and nobody logged it out.
THEOREM CookiesAreGood == Spec => []CookieIsGood
  <1>1. IInv => CookieIsGood
    BY DEF IInv, Traced, Live, CookieIsGood
  <1> QED
    BY <1>1, IInvInit, IInvStep, PTL DEF Spec

\* A session logged out or past its deadline returns only by a sign-in that
\* had loaded it before, once for each.
THEOREM DeadSessionsStayDead == Spec => OnlySignInsRevive
  <1>1. IInv /\ [Next]_vars =>
          [\A k \in Tokens :
             Named(k) /\ ~Live(k) =>
               /\ SigningInto(k)' \subseteq SigningInto(k)
               /\ Live(k)' => SigningInto(k)' # SigningInto(k)]_vars
    BY RevivedByCommit, NobodyLoadsIt DEF IInv
  <1> QED
    BY <1>1, IInvInit, IInvStep, PTL DEF Spec, OnlySignInsRevive

\* Accounts implements the abstract sign-in, whatever a request loaded before
\* other requests, deadlines and failures changed it.
THEOREM AccountsImplementSignIn == Spec => SSpec
  BY SignInInit, IInvInit, IInvStep, SignInStep, PTL DEF Spec, SSpec, S!SSpec

=============================================================================
