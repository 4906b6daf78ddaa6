------------------------------ MODULE Accounts ------------------------------
(***************************************************************************)
(* Signup and signin: the accounts of the SuperTokens core, the rows that  *)
(* mirror them in Postgres with a login-risk baseline each, and the        *)
(* handlers that move both, one step per awaited call.  No transaction     *)
(* spans the calls of a handler, so requests interleave at each of them    *)
(* and a failure leaves what was done before.                              *)
(***************************************************************************)
EXTENDS Naturals, Sequences, WebErrors

CONSTANTS
  Users,      \* core user ids, and the email of each
  Shows,      \* what a login may show: [ip, dev], either may be None
  Requests,   \* slots for requests in flight
  Faults,     \* what may go wrong: see FaultKinds
  None

\* call: a call to the core fails; db: a call to Postgres fails; risk: the rule
\* engine fails; abandon: the client leaves and its task is dropped; restart.
FaultKinds == {"call", "db", "risk", "abandon", "restart"}

Ips == {a.ip : a \in Shows}
Devs == {a.dev : a \in Shows}
Row == [ip : Ips \cup {None}, dev : Devs \cup {None}]

ASSUME AccountsAssumption ==
  /\ Shows \subseteq [ip : Ips, dev : Devs]
  /\ None \notin Users \cup Row
  /\ Faults \subseteq FaultKinds

VARIABLES
  accounts,   \* users the core knows
  rows,       \* the "user" table: each user's baseline, None without a row
  req,        \* the requests in flight
  last        \* history: what each user's last successful login showed

vars == <<accounts, rows, req, last>>

Policy ==
  INSTANCE LoginPolicy
  WITH last <- last, Users <- Users, Shows <- Shows, None <- None

-----------------------------------------------------------------------------
Pcs == {"idle", "sign_up", "su_row", "sign_in", "read", "backfill", "risk",
        "update", "session", "reply"}

Request ==
  [pc    : Pcs,                           \* the call it waits for
   ep    : {"none", "signup", "signin"},
   user  : Users \cup {None},
   shows : Row,                           \* client_ip and visitor_id
   base  : Row \cup {None},              \* the row a signin read
   auth  : BOOLEAN,                       \* the core has accepted the password
   out   : {"none", "ok"} \cup ClientErrors]

Idle ==
  [pc |-> "idle", ep |-> "none", user |-> None, shows |-> Policy!Nothing,
   base |-> None, auth |-> FALSE, out |-> "none"]

At(r, pc) == req[r].pc = pc
Step(r, q) == req' = [req EXCEPT ![r] = q]
Await(q, pc) == [q EXCEPT !.pc = pc]
Answer(q, out) == [q EXCEPT !.pc = "reply", !.out = out]
Fail(q, e) == Answer(q, ClientError(e))

\* A statement or call that would change x to y fails, with or without effect.
Fails(kind, x, y) == kind \in Faults /\ (x' = x \/ x' = y)

-----------------------------------------------------------------------------
(* Browsers.                                                               *)

Send(r, ep, u, a) ==
  /\ At(r, "idle")
  /\ Step(r, [Idle EXCEPT !.pc = IF ep = "signup" THEN "sign_up" ELSE "sign_in",
                          !.ep = ep, !.user = u, !.shows = a])
  /\ UNCHANGED <<accounts, rows, last>>

Deliver(r) ==
  /\ At(r, "reply")
  /\ Step(r, Idle)
  /\ UNCHANGED <<accounts, rows, last>>

\* axum drops the handler's future at the await it has reached.  The call it had
\* sent may have taken effect: such a call is one that fails with effect.
Drop(r) ==
  /\ "abandon" \in Faults
  /\ ~At(r, "idle") /\ ~At(r, "reply")
  /\ Step(r, Idle)
  /\ UNCHANGED <<accounts, rows, last>>

-----------------------------------------------------------------------------
(* The "user" table.                                                       *)

HasRow(u) == rows[u] # None

\* UserBmc::create.  st_user_id is unique: a second insert is a violation.
Created(u, a) == [rows EXCEPT ![u] = a]

CreateBestEffort(r, pc, next) ==             \* the mirror is not worth an error
  /\ At(r, pc)
  /\ LET q == req[r]
     IN  \/ ~HasRow(q.user) /\ rows' = Created(q.user, q.shows)
         \/ HasRow(q.user) /\ rows' = rows
         \/ Fails("db", rows, Created(q.user, q.shows))
  /\ Step(r, Await(req[r], next))
  /\ UNCHANGED <<accounts, last>>

Create(r, pc, next) ==
  /\ At(r, pc)
  /\ LET q == req[r]
     IN  \/ /\ ~HasRow(q.user)
            /\ rows' = Created(q.user, q.shows)
            /\ Step(r, Await(q, next))
         \/ /\ HasRow(q.user)
            /\ rows' = rows
            /\ Step(r, Fail(q, "Model"))
         \/ /\ ~HasRow(q.user)
            /\ Fails("db", rows, Created(q.user, q.shows))
            /\ Step(r, Fail(q, "Model"))
  /\ UNCHANGED <<accounts, last>>

\* UserForFingerprintUpdate: only the fields that are Some are written.
UpdatedOverwrites(row, a) == a

Updated(row, a) ==
  [ip |-> IF a.ip = None THEN row.ip ELSE a.ip,
   dev |-> IF a.dev = None THEN row.dev ELSE a.dev]

-----------------------------------------------------------------------------
(* POST /api/signup.                                                       *)

\* sign_up: the core refuses an email it has an account for.
SignUp(r) ==
  /\ At(r, "sign_up")
  /\ LET q == req[r]
     IN  \/ /\ q.user \notin accounts
            /\ accounts' = accounts \cup {q.user}
            /\ Step(r, [Await(q, "su_row") EXCEPT !.auth = TRUE])
         \/ /\ q.user \in accounts
            /\ accounts' = accounts
            /\ Step(r, Fail(q, FromCore("EmailAlreadyExists")))
         \/ /\ accounts' = accounts       \* the payload is refused before the call
            /\ Step(r, Fail(q, "ValidationFail"))
         \/ /\ Fails("call", accounts, accounts \cup {q.user})
            /\ Step(r, Fail(q, "SuperTokens"))
  /\ UNCHANGED <<rows, last>>

\* The mirror row, with what this login shows as its baseline.
SignUpRow(r) == Create(r, "su_row", "session")

-----------------------------------------------------------------------------
(* POST /api/signin.                                                       *)

SignIn(r) ==
  /\ At(r, "sign_in")
  /\ LET q == req[r]
     IN  \/ /\ q.user \in accounts
            /\ Step(r, [Await(q, "read") EXCEPT !.auth = TRUE])
         \/ Step(r, Fail(q, FromCore("WrongCredentials")))
         \/ /\ "call" \in Faults
            /\ Step(r, Fail(q, "SuperTokens"))
  /\ UNCHANGED <<accounts, rows, last>>

\* first_by_st_user_id: an account without a row gets one.
ReadRefuses(r) ==                            \* a user without a row is unknown
  /\ At(r, "read")
  /\ LET q == req[r] IN
     Step(r, IF HasRow(q.user)
             THEN [Await(q, "risk") EXCEPT !.base = rows[q.user]]
             ELSE Fail(q, FromCore("WrongCredentials")))
  /\ UNCHANGED <<accounts, rows, last>>

Read(r) ==
  /\ At(r, "read")
  /\ LET q == req[r]
     IN  \/ /\ HasRow(q.user)
            /\ Step(r, [Await(q, "risk") EXCEPT !.base = rows[q.user]])
         \/ /\ ~HasRow(q.user)
            /\ Step(r, Await(q, "backfill"))
         \/ /\ "db" \in Faults
            /\ Step(r, Fail(q, "Model"))
  /\ UNCHANGED <<accounts, rows, last>>

Backfill(r) == Create(r, "backfill", "session")

\* login-risk.json: the first rule that matches decides.
RulesReordered ==
  <<[device |-> {TRUE},  ip |-> BOOLEAN, outcome |-> "flag"],
    [device |-> BOOLEAN, ip |-> {TRUE},  outcome |-> "flag"],
    [device |-> {TRUE},  ip |-> {TRUE},  outcome |-> "block"],
    [device |-> BOOLEAN, ip |-> BOOLEAN, outcome |-> "allow"]>>

RulesBlockAny ==
  <<[device |-> {TRUE},  ip |-> BOOLEAN, outcome |-> "block"],
    [device |-> BOOLEAN, ip |-> {TRUE},  outcome |-> "flag"],
    [device |-> BOOLEAN, ip |-> BOOLEAN, outcome |-> "allow"]>>

Rules ==
  <<[device |-> {TRUE},  ip |-> {TRUE},  outcome |-> "block"],
    [device |-> {TRUE},  ip |-> BOOLEAN, outcome |-> "flag"],
    [device |-> BOOLEAN, ip |-> {TRUE},  outcome |-> "flag"],
    [device |-> BOOLEAN, ip |-> BOOLEAN, outcome |-> "allow"]>>

Verdict(deviceChanged, ipChanged) ==
  LET matches(i) == deviceChanged \in Rules[i].device /\ ipChanged \in Rules[i].ip
      first == CHOOSE i \in DOMAIN Rules :
                 matches(i) /\ \A j \in DOMAIN Rules : j < i => ~matches(j)
  IN  Rules[first].outcome

\* "Unknown" is not "changed".
HasChanged(prev, curr) == prev # None /\ curr # None /\ prev # curr

Evaluate(r) ==
  /\ At(r, "risk")
  /\ LET q == req[r]
         verdict == Verdict(HasChanged(q.base.dev, q.shows.dev),
                            HasChanged(q.base.ip, q.shows.ip))
     IN  \/ /\ verdict = "block"
            /\ Step(r, Fail(q, "LoginBlockedRisk"))
         \/ /\ verdict \in {"flag", "allow"}
            /\ Step(r, Await(q, "update"))
         \/ /\ "risk" \in Faults
            /\ Step(r, Fail(q, "Risk"))
  /\ UNCHANGED <<accounts, rows, last>>

\* update_login_fingerprint.  The row the signin read is still there: rows are
\* dropped only by a restart, which ends the signin too.
Update(r) ==
  /\ At(r, "update")
  /\ LET q == req[r]
         moved == [rows EXCEPT ![q.user] = Updated(@, q.shows)]
     IN  \/ rows' = moved /\ Step(r, Await(q, "session"))
         \/ Fails("db", rows, moved) /\ Step(r, Fail(q, "Model"))
  /\ UNCHANGED <<accounts, last>>

-----------------------------------------------------------------------------
\* create_session, the last call of both handlers: the login has succeeded.
CreateSession(r) ==
  /\ At(r, "session")
  /\ LET q == req[r]
     IN  \/ /\ last' = [last EXCEPT ![q.user] = Policy!Merged(@, q.shows)]
            /\ Step(r, Answer(q, "ok"))
         \/ /\ "call" \in Faults
            /\ last' = last
            /\ Step(r, Fail(q, "SuperTokens"))
  /\ UNCHANGED <<accounts, rows>>

\* main runs init_dev on every start: the table is dropped and recreated.
Restart ==
  /\ "restart" \in Faults
  /\ rows' = [u \in Users |-> None]
  /\ req' = [r \in Requests |-> Idle]
  /\ UNCHANGED <<accounts, last>>

-----------------------------------------------------------------------------
\* Accounts may be older than the table that mirrors them.
Init ==
  /\ accounts \in SUBSET Users
  /\ rows = [u \in Users |-> None]
  /\ req = [r \in Requests |-> Idle]
  /\ last = [u \in Users |-> Policy!Nothing]

Serve(r) ==
  \/ SignUp(r) \/ SignUpRow(r)
  \/ SignIn(r) \/ Read(r) \/ Backfill(r) \/ Evaluate(r) \/ Update(r)
  \/ CreateSession(r)

Next ==
  \/ \E r \in Requests :
       \/ \E ep \in {"signup", "signin"}, u \in Users, a \in Shows : Send(r, ep, u, a)
       \/ Deliver(r) \/ Drop(r)
       \/ Serve(r)
  \/ Restart

Spec == Init /\ [][Next]_vars

\* Every call a handler awaits is answered or fails.
FairSpec == Spec /\ \A r \in Requests : WF_vars(Serve(r))

-----------------------------------------------------------------------------
(* Properties.                                                             *)

TypeOK ==
  /\ accounts \subseteq Users
  /\ rows \in [Users -> Row \cup {None}]
  /\ req \in [Requests -> Request]
  /\ last \in [Users -> Row]

\* A session is only created for a user who has a row: otherwise every request of
\* the session would be turned away with UserNotFound.  The handlers order their
\* calls so, whatever fails and whoever else creates the row.
SessionNeedsRow ==
  \A r \in Requests : At(r, "session") => HasRow(req[r].user)

\* A signin from a browser that shows less never weakens the next check: once the
\* baseline knows an ip or a visitor id, it knows one as long as the row exists.
BaselineNeverForgotten ==
  [][\A u \in Users, k \in {"ip", "dev"} :
       HasRow(u) /\ HasRow(u)' /\ rows[u][k] # None => rows'[u][k] # None]_vars

\* A row exists only for an account, although the two are in different stores and
\* a signup may stop between them.
RowsHaveAccounts == \A u \in Users : HasRow(u) => u \in accounts

\* The core is the source of truth: a signin with the right password is answered
\* "ok", or blocked by the risk check, even if the account has no row yet.
SigninWorks ==
  \A r \in Requests :
    At(r, "reply") /\ req[r].ep = "signin" /\ req[r].auth =>
      req[r].out \in {"ok", "LOGIN_BLOCKED_RISK"}

\* A signin is blocked only if both its ip and its device differ from those of the
\* user's last successful login; the handler decides by the row it has read.
BlockedIsUnlikeLast ==
  \A r \in Requests :
    At(r, "reply") /\ req[r].out = "LOGIN_BLOCKED_RISK" =>
      Policy!Unlike(last[req[r].user], req[r].shows)

\* 01-create-schema.sql: the baseline is "what this user's last *successful* login
\* looked like", whenever no login of the user is under way.
BaselineIsLastLogin ==
  \A u \in Users :
    HasRow(u) /\ (\A r \in Requests : req[r].user # u) => rows[u] = last[u]

\* A client is blamed only for what it did: "login failed" is the core's verdict on
\* its password, "email exists" is not about the account its own signup has just
\* made, and "blocked" is told to nobody who does not know the password.  Whatever
\* fails, and whoever else writes the user's row first, is the server's error.
BlameDeserved ==
  \A r \in Requests :
    LET q == req[r] IN
    At(r, "reply") =>
      /\ q.out = "LOGIN_FAIL" => ~q.auth
      /\ q.out = "EMAIL_ALREADY_EXISTS" => ~q.auth /\ q.user \in accounts
      /\ q.out = "LOGIN_BLOCKED_RISK" => q.auth

\* An account without a row, as a signup that stopped after its first call leaves
\* one, is healed by the next signin with its password ("backfill it now").
AccountHeals ==
  \A u \in Users :
    (\E r \in Requests : At(r, "read") /\ req[r].user = u) ~> HasRow(u)

\* One request after the other, and if no call fails, the handlers implement the
\* policy: a login gets in only if the ip or the device is that of the last one.
PolicyImplemented == Policy!Spec

-----------------------------------------------------------------------------
(* The inductive invariants behind them.                                   *)

\* What a handler has established of its user before each call.
Journeys ==
  \A r \in Requests :
    LET q == req[r] IN
    /\ q.pc # "idle" => q.user \in Users /\ q.shows \in Shows
    /\ q.pc \in {"sign_up", "sign_in"} => ~q.auth
    /\ q.pc \in {"su_row", "read", "backfill", "risk", "update", "session"} =>
         q.user \in accounts /\ q.auth
    /\ q.pc \in {"risk", "update", "session"} => HasRow(q.user)
    /\ q.pc = "risk" => q.base # None

AInv == TypeOK /\ Journeys /\ RowsHaveAccounts /\ BlameDeserved

\* One request at a time and without faults: the row is the last login, but for
\* the moment between moving the baseline and creating the session.
RowsAreLast ==
  \A u \in Users :
    /\ HasRow(u) /\ (\A r \in Requests : ~(At(r, "session") /\ req[r].user = u)) =>
         rows[u] = last[u]
    /\ ~HasRow(u) => last[u] = Policy!Nothing

AttemptsSound ==
  \A r \in Requests :
    LET q == req[r] IN
    /\ q.pc = "sign_in" => ~q.auth /\ q.ep = "signin"
    /\ q.pc \in {"sign_up", "su_row"} => q.ep = "signup"
    /\ q.pc = "backfill" => ~HasRow(q.user)
    /\ q.pc = "risk" => q.base = rows[q.user]
    /\ q.pc = "update" => ~Policy!Unlike(rows[q.user], q.shows)
    /\ q.pc = "session" =>
         /\ ~Policy!Unlike(last[q.user], q.shows)
         /\ rows[q.user] = Policy!Merged(last[q.user], q.shows)

SerialInv ==
  AInv /\ RowsAreLast /\ AttemptsSound /\ SigninWorks /\ BlockedIsUnlikeLast

=============================================================================
