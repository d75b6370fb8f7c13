------------------------------ MODULE Accounts ------------------------------
(***************************************************************************)
(* Registering, logging in and out: handlers/auth.go, auth/service.go,     *)
(* auth/middleware.go and the session manager server.go sets up.           *)
(*                                                                         *)
(* scs loads the session a request's cookie names before the handler and,  *)
(* if the handler changed it, commits it to the sessions table when the    *)
(* handler writes its status.  Between the two a request works on what it  *)
(* loaded.  The cookie reaches the browser with the answer, later still.   *)
(*                                                                         *)
(* A browser stands for a person and a password only that person types.    *)
(* A session made on one browser keeps its token and its deadline through  *)
(* later logins there: no handler calls RenewToken.                        *)
(***************************************************************************)
EXTENDS Naturals, Queries

CONSTANTS
  Browsers,  \* browsers, each of a person with a password of their own
  Emails,    \* e-mail addresses: a user each
  Tokens,    \* bound: session tokens in use at a time
  NoToken,   \* the empty token
  Requests,  \* request slots: how many requests run at once
  MaxFaults  \* bound: failures, crashes and deadlines passed

ASSUME TokenAssumption == NoToken \notin Tokens
ASSUME FaultAssumption == MaxFaults \in Nat

VARIABLES
  users,      \* table: email -> password
  sessions,   \* table: token -> the userID in its data
  cookie,     \* the token each browser holds
  req,        \* what each request slot is doing
  holder,     \* history: token -> the browser it was last made for
  expired,    \* the tokens whose session is past its deadline
  loggedOut,  \* history: the tokens a logout has deleted
  faults      \* faults so far

vars == <<users, sessions, cookie, req, holder, expired, loggedOut, faults>>

----------------------------------------------------------------------------

Token == Tokens \cup {NoToken}

\* The requests of this component, and a page behind RequireAuth.
Form == [op : {"login", "register"}, email : Emails]
          \cup [op : {"logout", "page"}]

Idle == [pc |-> "idle"]

\* load: sent with a cookie, its session not read yet; from check on token
\* is that of the session it loaded.
Request ==
  {Idle}
    \cup [pc : {"load"}, browser : Browsers, token : Token, form : Form]
    \cup [pc : {"check", "insert"}, browser : Browsers, token : Token,
          email : Emails]
    \cup [pc : {"commit"}, browser : Browsers, token : Token, user : Emails]
    \cup [pc : {"destroy"}, browser : Browsers, token : Token]
    \cup [pc : {"act"}, browser : Browsers, user : Emails]
    \cup [pc : {"answer"}, browser : Browsers, token : Token]

Goto(r, stage) == req' = [req EXCEPT ![r] = stage]

\* SELECT ... WHERE token = k AND current_timestamp < expiry.
Live(k) == k \in DOMAIN sessions /\ k \notin expired

Init ==
  /\ users = EmptyTable
  /\ sessions = EmptyTable
  /\ cookie = [b \in Browsers |-> NoToken]
  /\ req = [r \in Requests |-> Idle]
  /\ holder = EmptyTable
  /\ expired = {}
  /\ loggedOut = {}
  /\ faults = 0

----------------------------------------------------------------------------
(* LoadAndSave, before the handler.                                        *)

Send(r, b, form) ==
  /\ req[r].pc = "idle"
  /\ Goto(r, [pc |-> "load", browser |-> b, token |-> cookie[b],
              form |-> form])
  /\ UNCHANGED <<users, sessions, cookie, holder, expired, loggedOut, faults>>

\* Mutant: a session that is not found keeps the token of the cookie.
LoadedAny(k) == k

\* A session that is not found is a new one, its token made on commit.
Loaded(k) == IF Live(k) THEN k ELSE NoToken

\* RequireAuth lets a request pass that has a user in its session.
Load(r) ==
  LET q == req[r] IN
  /\ q.pc = "load"
  /\ Goto(r,
       CASE q.form.op = "login" ->
              [pc |-> "check", browser |-> q.browser,
               token |-> Loaded(q.token), email |-> q.form.email]
         [] q.form.op = "register" ->
              [pc |-> "insert", browser |-> q.browser,
               token |-> Loaded(q.token), email |-> q.form.email]
         [] q.form.op = "logout" ->
              [pc |-> "destroy", browser |-> q.browser,
               token |-> Loaded(q.token)]
         [] q.form.op = "page" ->
              IF Live(q.token)
                THEN [pc |-> "act", browser |-> q.browser,
                      user |-> sessions[q.token]]
                ELSE Idle)
  /\ UNCHANGED <<users, sessions, cookie, holder, expired, loggedOut, faults>>

----------------------------------------------------------------------------
(* POST /login and POST /register.                                         *)

Verified(e, password) ==
  \E u \in GetUserByEmail(users, e) : users[u] = password

Login(r) ==
  LET q == req[r] IN
  /\ q.pc = "check"
  /\ Goto(r, IF Verified(q.email, q.browser)
       THEN [pc |-> "commit", browser |-> q.browser, token |-> q.token,
             user |-> q.email]
       ELSE Idle)
  /\ UNCHANGED <<users, sessions, cookie, holder, expired, loggedOut, faults>>

\* Mutant: the error of the INSERT is not looked at.
Unrefused(e) == FALSE
Refused(e) == e \in DOMAIN users

Register(r) ==
  LET q == req[r] IN
  /\ q.pc = "insert"
  /\ users' = CreateUser(users, q.email, q.browser)
  /\ Goto(r, IF Refused(q.email)
       THEN Idle
       ELSE [pc |-> "commit", browser |-> q.browser, token |-> q.token,
             user |-> q.email])
  /\ UNCHANGED <<sessions, cookie, holder, expired, loggedOut, faults>>

\* A cookie or a request names k.
Named(k) ==
  \/ \E b \in Browsers : cookie[b] = k
  \/ \E r \in Requests : req[r].pc \notin {"idle", "act"} /\ req[r].token = k

Fresh(k) == k \notin DOMAIN sessions /\ ~Named(k)

\* WriteHeader commits the changed session: INSERT ... ON CONFLICT (token)
\* DO UPDATE.  A new session gets a random token: one that nothing names.
Commit(r) ==
  LET q == req[r] IN
  /\ q.pc = "commit"
  /\ \E k \in Tokens :
       /\ \/ /\ q.token = k
             /\ UNCHANGED <<holder, expired, loggedOut>>
          \/ /\ q.token = NoToken
             /\ Fresh(k)
             /\ holder' = Insert(holder, k, q.browser)
             /\ expired' = expired \ {k}
             /\ loggedOut' = loggedOut \ {k}
       /\ sessions' = Insert(sessions, k, q.user)
       /\ Goto(r, [pc |-> "answer", browser |-> q.browser, token |-> k])
  /\ UNCHANGED <<users, cookie, faults>>

\* Bound: a new session is not committed when the tokens are used up.
TokensOut(r) ==
  /\ req[r].pc = "commit" /\ req[r].token = NoToken
  /\ \A k \in Tokens : ~Fresh(k)
  /\ Goto(r, Idle)
  /\ UNCHANGED <<users, sessions, cookie, holder, expired, loggedOut, faults>>

----------------------------------------------------------------------------
(* POST /logout.  A failed DELETE is ignored: see Fail.                    *)

Logout(r) ==
  LET q == req[r] IN
  /\ q.pc = "destroy"
  /\ sessions' = [k \in DOMAIN sessions \ {q.token} |-> sessions[k]]
  /\ loggedOut' = loggedOut \cup ({q.token} \ {NoToken})
  /\ Goto(r, [pc |-> "answer", browser |-> q.browser, token |-> NoToken])
  /\ UNCHANGED <<users, cookie, holder, expired, faults>>

----------------------------------------------------------------------------

\* The answer arrives, with the cookie it sets.
Answer(r) ==
  /\ req[r].pc = "answer"
  /\ cookie' = [cookie EXCEPT ![req[r].browser] = req[r].token]
  /\ Goto(r, Idle)
  /\ UNCHANGED <<users, sessions, holder, expired, loggedOut, faults>>

\* A handler behind RequireAuth leaves the session as it was.
PageDone(r) ==
  /\ req[r].pc = "act"
  /\ Goto(r, Idle)
  /\ UNCHANGED <<users, sessions, cookie, holder, expired, loggedOut, faults>>

\* The next statement fails, or its answer or the request's is lost.
Fail(r) ==
  /\ faults < MaxFaults
  /\ req[r].pc # "idle"
  /\ Goto(r, Idle)
  /\ faults' = faults + 1
  /\ UNCHANGED <<users, sessions, cookie, holder, expired, loggedOut>>

Crash ==
  /\ faults < MaxFaults
  /\ req' = [r \in Requests |-> Idle]
  /\ faults' = faults + 1
  /\ UNCHANGED <<users, sessions, cookie, holder, expired, loggedOut>>

\* The deadline passes, 24 hours after the session was made.
Expire(k) ==
  /\ faults < MaxFaults
  /\ k \in DOMAIN holder \ expired
  /\ expired' = expired \cup {k}
  /\ faults' = faults + 1
  /\ UNCHANGED <<users, sessions, cookie, req, holder, loggedOut>>

\* Mutant: every session.
AllStale == DOMAIN sessions

Stale == DOMAIN sessions \cap expired

\* Every five minutes: DELETE FROM sessions WHERE expiry < current_timestamp.
Cleanup ==
  /\ Stale # {}
  /\ sessions' = [k \in DOMAIN sessions \ Stale |-> sessions[k]]
  /\ UNCHANGED <<users, cookie, req, holder, expired, loggedOut, faults>>

----------------------------------------------------------------------------

\* What a request does next; the runtime always gets it there.
Proceed(r) ==
  \/ Load(r)
  \/ Login(r)
  \/ Register(r)
  \/ Commit(r)
  \/ TokensOut(r)
  \/ Logout(r)
  \/ Answer(r)
  \/ PageDone(r)

Next ==
  \/ \E r \in Requests :
       \/ \E b \in Browsers, form \in Form : Send(r, b, form)
       \/ Proceed(r)
       \/ Fail(r)
  \/ \E k \in Tokens : Expire(k)
  \/ Cleanup
  \/ Crash

Spec == Init /\ [][Next]_vars

FairSpec == Spec /\ \A r \in Requests : WF_vars(Proceed(r))

----------------------------------------------------------------------------
(* Properties.                                                             *)

\* Tables, cookies, requests and histories are well formed.
TypeOK ==
  /\ users \in PartialFunctions(Emails, Browsers)
  /\ sessions \in PartialFunctions(Tokens, Emails)
  /\ cookie \in [Browsers -> Token]
  /\ req \in [Requests -> Request]
  /\ holder \in PartialFunctions(Tokens, Browsers)
  /\ expired \in SUBSET Tokens
  /\ loggedOut \in SUBSET Tokens
  /\ faults \in 0..MaxFaults

Owns(b, e) == e \in DOMAIN users /\ users[e] = b

\* Whoever a session signs in, on whichever browser, knows the password of
\* that account now: of registrations racing for one address one wins, and
\* the losers' sessions are never signed in to it.
SignedInAsOneself ==
  /\ \A k \in DOMAIN sessions :
       k \in DOMAIN holder /\ Owns(holder[k], sessions[k])
  /\ \A r \in Requests : req[r].pc = "act" => Owns(req[r].browser, req[r].user)

\* A browser's cookie names its own session, live unless it was logged out
\* or is past its deadline: the answer comes after the commit, and what
\* fails or overlaps in between leaves no cookie for a session not stored.
CookieIsGood ==
  \A b \in Browsers : cookie[b] # NoToken =>
    /\ cookie[b] \in DOMAIN holder /\ holder[cookie[b]] = b
    /\ Live(cookie[b]) \/ cookie[b] \in loggedOut \cup expired

\* The logins and registrations under way that have loaded k.
SigningInto(k) ==
  {r \in Requests :
     req[r].pc \in {"check", "insert", "commit"} /\ req[r].token = k}

\* A session that is gone, logged out or past its deadline, is loaded by
\* nobody, whatever cookies and requests still name it.  A sign-in that had
\* loaded it while it was live commits it again all the same, after the
\* logout; but each of those can do so only once, none joins them, and when
\* the last is over the session is gone for good.
OnlySignInsRevive ==
  [][\A k \in Tokens :
       Named(k) /\ ~Live(k) =>
         /\ SigningInto(k)' \subseteq SigningInto(k)
         /\ Live(k)' => SigningInto(k)' # SigningInto(k)]_vars

\* The statements of overlapping logins, registrations and logouts, their
\* answers and deadlines are the steps of the abstract sign-in, although a
\* request commits a session that it loaded earlier and that has since been
\* signed in to another account, logged out or let expire.
S == INSTANCE SignIn WITH
       account <- users,
       maker <- holder,
       signed <- [k \in {j \in DOMAIN sessions : Live(j)} |-> sessions[k]],
       holds <- cookie
SSpec == S!SSpec

SignedIn(b) == cookie[b] # NoToken /\ Live(cookie[b])

\* A login of b to an account of its own has been sent.
LogsIn(b) ==
  \E r \in Requests, e \in Emails :
    /\ req[r].pc = "load" /\ req[r].browser = b
    /\ req[r].form = [op |-> "login", email |-> e]
    /\ Owns(b, e)

\* Whoever has an account gets into it by logging in again and again: after
\* a registration cut off behind its INSERT, a lost answer, a logout, or a
\* deadline that passed while the login was under way.
GetsIn == \A b \in Browsers : []<>LogsIn(b) => []<>SignedIn(b)

=============================================================================
