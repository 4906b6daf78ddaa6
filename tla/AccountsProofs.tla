--------------------------- MODULE AccountsProofs ---------------------------
(***************************************************************************)
(* Theorems about Accounts.  The first part is about any number of requests *)
(* and any faults; the second about one request at a time and no faults,    *)
(* where the handlers implement LoginPolicy.                                *)
(***************************************************************************)
EXTENDS Accounts, TLAPS

-----------------------------------------------------------------------------
(* Operators.                                                              *)

\* What a login may show is a row.
LEMMA ShowsAreRows == Shows \subseteq Row
  BY AccountsAssumption DEF Row

LEMMA NothingIsRow == Policy!Nothing \in Row
  BY DEF Policy!Nothing, Row

LEMMA IdleType == Idle \in Request
  BY NothingIsRow DEF Idle, Request, Pcs

\* The statements on the table keep its type.
LEMMA TableTypes ==
  ASSUME NEW row \in Row, NEW a \in Row
  PROVE  Updated(row, a) \in Row /\ Policy!Merged(row, a) \in Row
  BY DEF Updated, Policy!Merged, Row

\* What a failure is answered.
LEMMA FailAnswers ==
  ASSUME NEW q, NEW e
  PROVE  /\ Fail(q, e) = Answer(q, ClientError(e))
         /\ ClientError(e) \in ClientErrors
         /\ ClientError(e) # "ok" /\ ClientError(e) # "none"
         /\ ClientError(e) = "LOGIN_BLOCKED_RISK" => e = "LoginBlockedRisk"
         /\ ClientError(e) = "LOGIN_FAIL" => e = "SigninFail"
         /\ ClientError(e) = "EMAIL_ALREADY_EXISTS" => e = "SignupEmailExists"
<1>1. ClientError(e) \in ClientErrors
  BY DEF ClientError, ClientErrors, Unauthorized, Refusals
<1>2. /\ ClientError(e) = "LOGIN_BLOCKED_RISK" => e = "LoginBlockedRisk"
      /\ ClientError(e) = "LOGIN_FAIL" => e = "SigninFail"
      /\ ClientError(e) = "EMAIL_ALREADY_EXISTS" => e = "SignupEmailExists"
  BY DEF ClientError
<1> QED BY <1>1, <1>2 DEF Fail, ClientErrors, Unauthorized, Refusals

\* The decision table blocks exactly when both signals have changed.
LEMMA VerdictBlocks ==
  ASSUME NEW d \in BOOLEAN, NEW i \in BOOLEAN
  PROVE  /\ Verdict(d, i) \in {"block", "flag", "allow"}
         /\ Verdict(d, i) = "block" <=> d /\ i
<1> DEFINE matches(k) == d \in Rules[k].device /\ i \in Rules[k].ip
           first == CHOOSE k \in DOMAIN Rules :
                      matches(k) /\ \A j \in DOMAIN Rules : j < k => ~matches(j)
<1>1. DOMAIN Rules = {1, 2, 3, 4}
  BY DEF Rules
<1>2. /\ matches(1) <=> d /\ i
      /\ matches(2) <=> d
      /\ matches(3) <=> i
      /\ matches(4)
  BY DEF Rules
<1>3. /\ Rules[1].outcome = "block"
      /\ Rules[2].outcome = "flag"
      /\ Rules[3].outcome = "flag"
      /\ Rules[4].outcome = "allow"
  BY DEF Rules
<1>4. Verdict(d, i) = Rules[first].outcome
  BY DEF Verdict
<1> HIDE DEF matches
<1>5. \E k \in DOMAIN Rules : matches(k) /\ \A j \in DOMAIN Rules : j < k => ~matches(j)
  <2>1. CASE d /\ i
    BY <2>1, <1>1, <1>2
  <2>2. CASE d /\ ~i
    BY <2>2, <1>1, <1>2
  <2>3. CASE ~d /\ i
    BY <2>3, <1>1, <1>2
  <2>4. CASE ~d /\ ~i
    BY <2>4, <1>1, <1>2
  <2> QED
    BY <2>1, <2>2, <2>3, <2>4
<1>6. /\ first \in {1, 2, 3, 4}
      /\ matches(first)
      /\ \A j \in {1, 2, 3, 4} : j < first => ~matches(j)
  BY <1>1, <1>5
<1> HIDE DEF first
<1>7. first = 1 <=> d /\ i
  BY <1>2, <1>6
<1> QED
  BY <1>3, <1>4, <1>6, <1>7

-----------------------------------------------------------------------------
(* Any number of requests, any faults.                                     *)

\* What Journeys says of one request.
Journey(q, acc, rws) ==
  /\ q.pc # "idle" => q.user \in Users /\ q.shows \in Shows
  /\ q.pc \in {"sign_up", "sign_in"} => ~q.auth
  /\ q.pc \in {"su_row", "read", "backfill", "risk", "update", "session"} =>
       q.user \in acc /\ q.auth
  /\ q.pc \in {"risk", "update", "session"} => rws[q.user] # None
  /\ q.pc = "risk" => q.base # None
  /\ q.pc = "reply" =>
       /\ q.out = "LOGIN_FAIL" => ~q.auth
       /\ q.out = "EMAIL_ALREADY_EXISTS" => ~q.auth /\ q.user \in acc
       /\ q.out = "LOGIN_BLOCKED_RISK" => q.auth

LEMMA JourneysAre ==
  Journeys /\ BlameDeserved <=> \A r \in Requests : Journey(req[r], accounts, rows)
<1>1. ASSUME NEW r \in Requests, Journeys, BlameDeserved
      PROVE  Journey(req[r], accounts, rows)
  BY <1>1 DEF Journeys, BlameDeserved, Journey, HasRow, At
<1>2. (\A r \in Requests : Journey(req[r], accounts, rows)) => Journeys /\ BlameDeserved
  BY DEF Journeys, BlameDeserved, Journey, HasRow, At
<1> QED BY <1>1, <1>2

\* A step of one request that loses no account and no row keeps AInv, if the
\* request is sound after it.
LEMMA Frame ==
  ASSUME AInv, NEW r \in Requests, NEW q \in Request, Step(r, q),
         accounts \subseteq accounts', accounts' \subseteq Users,
         rows' \in [Users -> Row \cup {None}],
         \A u \in Users : rows[u] # None => rows'[u] # None,
         \A u \in Users : rows'[u] # None => rows[u] # None \/ u \in accounts,
         last' \in [Users -> Row],
         Journey(q, accounts', rows')
  PROVE  AInv'
<1>1. req' \in [Requests -> Request]
  BY DEF AInv, TypeOK, Step
<1>2. TypeOK'
  BY <1>1 DEF TypeOK
<1>3. \A s \in Requests : Journey(req'[s], accounts', rows')
  <2> SUFFICES ASSUME NEW s \in Requests, s # r
               PROVE  Journey(req'[s], accounts', rows')
    BY DEF AInv, TypeOK, Step
  <2>1. req'[s] = req[s]
    BY DEF AInv, TypeOK, Step
  <2>2. Journey(req[s], accounts, rows)
    BY JourneysAre DEF AInv
  <2> QED BY <2>1, <2>2 DEF Journey
<1>4. Journeys' /\ BlameDeserved'
  BY <1>3 DEF Journeys, BlameDeserved, Journey, HasRow, At
<1>5. RowsHaveAccounts'
  BY DEF AInv, RowsHaveAccounts, HasRow
<1> QED BY <1>2, <1>4, <1>5 DEF AInv

\* A request that answers needs nothing but its type.
LEMMA Answered ==
  ASSUME AInv, NEW r \in Requests, req[r].pc # "idle",
         NEW out \in {"ok"} \cup ClientErrors, NEW acc, NEW rws,
         out = "LOGIN_FAIL" => ~req[r].auth,
         out = "EMAIL_ALREADY_EXISTS" => ~req[r].auth /\ req[r].user \in acc,
         out = "LOGIN_BLOCKED_RISK" => req[r].auth
  PROVE  Answer(req[r], out) \in Request /\ Journey(Answer(req[r], out), acc, rws)
<1>1. req[r] \in Request /\ Journey(req[r], accounts, rows)
  BY JourneysAre DEF AInv, TypeOK
<1>2. Answer(req[r], out) \in Request
  BY <1>1 DEF Answer, Request, Pcs
<1> DEFINE q == Answer(req[r], out)
<1>3. /\ q.pc = "reply" /\ q.out = out /\ q.auth = req[r].auth
      /\ q.user = req[r].user /\ q.shows = req[r].shows
  BY <1>1 DEF Answer, Request
<1> HIDE DEF q
<1>4. Journey(q, acc, rws)
  BY <1>1, <1>3 DEF Journey
<1> QED BY <1>2, <1>4 DEF q

\* Most failures blame nobody.
LEMMA Failed ==
  ASSUME AInv, NEW r \in Requests, req[r].pc # "idle",
         NEW e, NEW acc, NEW rws,
         e = "SigninFail" => ~req[r].auth,
         e = "SignupEmailExists" => ~req[r].auth /\ req[r].user \in acc,
         e = "LoginBlockedRisk" => req[r].auth
  PROVE  Fail(req[r], e) \in Request /\ Journey(Fail(req[r], e), acc, rws)
BY Answered, FailAnswers

\* Inserting a user's row.
LEMMA CreateKeeps ==
  ASSUME AInv, NEW r \in Requests, NEW pc \in {"su_row", "backfill"},
         Create(r, pc, "session")
  PROVE  AInv'
<1> DEFINE q == req[r]
<1>1. /\ q \in Request /\ Journey(q, accounts, rows)
      /\ q.pc = pc /\ q.pc # "idle" /\ q.user \in Users /\ q.user \in accounts
      /\ q.shows \in Shows
  BY JourneysAre DEF AInv, TypeOK, Create, At, Journey
<1>2. /\ UNCHANGED <<accounts, last>>
      /\ rows' = rows \/ rows' = Created(q.user, q.shows)
  BY DEF Create, Fails
<1>3. /\ rows' \in [Users -> Row \cup {None}]
      /\ \A u \in Users : rows[u] # None => rows'[u] # None
      /\ \A u \in Users : rows'[u] # None => rows[u] # None \/ u \in accounts
  BY <1>1, <1>2, ShowsAreRows, AccountsAssumption DEF AInv, TypeOK, Created
<1>4. CASE Step(r, Fail(q, "Model"))
  BY <1>1, <1>2, <1>3, <1>4, Failed, Frame DEF AInv, TypeOK
<1>5. CASE rows' = Created(q.user, q.shows) /\ Step(r, Await(q, "session"))
  <2>1. Await(q, "session") \in Request
    BY <1>1 DEF Await, Request, Pcs
  <2>2. rows'[q.user] # None
    BY <1>1, <1>5, ShowsAreRows, AccountsAssumption DEF AInv, TypeOK, Created
  <2>3. Journey(Await(q, "session"), accounts', rows')
    BY <1>1, <1>2, <2>2 DEF Await, Journey, Request
  <2> QED BY <1>2, <1>3, <1>5, <2>1, <2>3, Frame DEF AInv, TypeOK
<1> QED BY <1>4, <1>5 DEF Create

\* AInv is inductive.
LEMMA InitAInv == Init => AInv
<1> SUFFICES ASSUME Init PROVE AInv
  OBVIOUS
<1>1. TypeOK
  BY IdleType, NothingIsRow DEF Init, TypeOK
<1>2. Journeys /\ BlameDeserved
  BY DEF Init, Journeys, BlameDeserved, At, Idle
<1>3. RowsHaveAccounts
  BY DEF Init, RowsHaveAccounts, HasRow
<1> QED BY <1>1, <1>2, <1>3 DEF AInv

LEMMA NextAInv == AInv /\ [Next]_vars => AInv'
<1> SUFFICES ASSUME AInv, [Next]_vars PROVE AInv'
  OBVIOUS
<1>t. /\ accounts \subseteq Users /\ rows \in [Users -> Row \cup {None}]
      /\ last \in [Users -> Row]
      /\ \A u \in Users : rows[u] # None => u \in accounts
      /\ \A r \in Requests : req[r] \in Request /\ Journey(req[r], accounts, rows)
  BY JourneysAre DEF AInv, TypeOK, RowsHaveAccounts, HasRow
<1>1. ASSUME NEW r \in Requests, NEW ep \in {"signup", "signin"}, NEW u \in Users,
             NEW a \in Shows, Send(r, ep, u, a)
      PROVE  AInv'
  <2> DEFINE q == [Idle EXCEPT !.pc = IF ep = "signup" THEN "sign_up" ELSE "sign_in",
                               !.ep = ep, !.user = u, !.shows = a]
  <2>1. q \in Request
    BY IdleType, ShowsAreRows DEF Idle, Request, Pcs
  <2>2. Journey(q, accounts, rows)
    BY DEF Idle, Journey
  <2> QED BY <1>t, <1>1, <2>1, <2>2, Frame DEF Send
<1>2. ASSUME NEW r \in Requests, Deliver(r) \/ Drop(r)
      PROVE  AInv'
  <2>1. Journey(Idle, accounts, rows)
    BY DEF Idle, Journey
  <2> QED BY <1>t, <1>2, <2>1, IdleType, Frame DEF Deliver, Drop
<1>3. ASSUME NEW r \in Requests, SignUp(r)
      PROVE  AInv'
  <2> DEFINE q == req[r]
             next == [Await(q, "su_row") EXCEPT !.auth = TRUE]
  <2>1. q \in Request /\ q.pc # "idle" /\ q.user \in Users /\ q.shows \in Shows /\ ~q.auth
    BY <1>t, <1>3 DEF SignUp, At, Journey
  <2>2. /\ UNCHANGED <<rows, last>>
        /\ accounts' = accounts \/ accounts' = accounts \cup {q.user}
    BY <1>3 DEF SignUp, Fails
  <2>3. ASSUME NEW e, Step(r, Fail(q, e)), e # "SigninFail", e # "LoginBlockedRisk",
               e = "SignupEmailExists" => q.user \in accounts
        PROVE  AInv'
    BY <1>t, <2>1, <2>2, <2>3, Failed, Frame
  <2>4. CASE accounts' = accounts \cup {q.user} /\ Step(r, next)
    <3>1. next \in Request
      BY <2>1 DEF Await, Request, Pcs
    <3>2. Journey(next, accounts', rows')
      BY <2>1, <2>4 DEF Await, Request, Journey
    <3> QED BY <1>t, <2>1, <2>2, <2>4, <3>1, <3>2, Frame
  <2> QED BY <1>3, <2>3, <2>4 DEF SignUp, FromCore
<1>4. ASSUME NEW r \in Requests, SignUpRow(r) \/ Backfill(r)
      PROVE  AInv'
  BY <1>4, CreateKeeps DEF SignUpRow, Backfill
<1>5. ASSUME NEW r \in Requests, SignIn(r)
      PROVE  AInv'
  <2> DEFINE q == req[r]
             next == [Await(q, "read") EXCEPT !.auth = TRUE]
  <2>1. q \in Request /\ q.pc # "idle" /\ q.user \in Users /\ q.shows \in Shows /\ ~q.auth
    BY <1>t, <1>5 DEF SignIn, At, Journey
  <2>2. ASSUME NEW e \in {"SigninFail", "SuperTokens"}, Step(r, Fail(q, e))
        PROVE  AInv'
    BY <1>t, <1>5, <2>1, <2>2, Failed, Frame DEF SignIn
  <2>3. CASE q.user \in accounts /\ Step(r, next)
    <3>1. next \in Request
      BY <2>1 DEF Await, Request, Pcs
    <3>2. Journey(next, accounts, rows)
      BY <2>1, <2>3 DEF Await, Request, Journey
    <3> QED BY <1>t, <1>5, <2>3, <3>1, <3>2, Frame DEF SignIn
  <2> QED BY <1>5, <2>2, <2>3 DEF SignIn, FromCore
<1>6. ASSUME NEW r \in Requests, Read(r)
      PROVE  AInv'
  <2> DEFINE q == req[r]
             found == [Await(q, "risk") EXCEPT !.base = rows[q.user]]
  <2>1. /\ q \in Request /\ q.pc # "idle" /\ q.user \in Users /\ q.shows \in Shows
        /\ q.user \in accounts /\ q.auth
    BY <1>t, <1>6 DEF Read, At, Journey
  <2>2. CASE Step(r, Fail(q, "Model"))
    BY <1>t, <1>6, <2>1, <2>2, Failed, Frame DEF Read
  <2>3. CASE HasRow(q.user) /\ Step(r, found)
    <3>1. found \in Request
      BY <1>t, <2>1 DEF Await, Request, Pcs
    <3>2. Journey(found, accounts, rows)
      BY <2>1, <2>3 DEF Await, Request, Journey, HasRow
    <3> QED BY <1>t, <1>6, <2>3, <3>1, <3>2, Frame DEF Read
  <2>4. CASE Step(r, Await(q, "backfill"))
    <3>1. Await(q, "backfill") \in Request
      BY <2>1 DEF Await, Request, Pcs
    <3>2. Journey(Await(q, "backfill"), accounts, rows)
      BY <2>1 DEF Await, Request, Journey
    <3> QED BY <1>t, <1>6, <2>4, <3>1, <3>2, Frame DEF Read
  <2> QED BY <1>6, <2>2, <2>3, <2>4 DEF Read
<1>7. ASSUME NEW r \in Requests, Evaluate(r)
      PROVE  AInv'
  <2> DEFINE q == req[r]
  <2>1. /\ q \in Request /\ q.pc = "risk" /\ q.user \in Users /\ q.shows \in Shows
        /\ q.user \in accounts /\ q.auth /\ rows[q.user] # None
    BY <1>t, <1>7 DEF Evaluate, At, Journey
  <2>2. ASSUME NEW e \in {"LoginBlockedRisk", "Risk"}, Step(r, Fail(q, e))
        PROVE  AInv'
    BY <1>t, <1>7, <2>1, <2>2, Failed, Frame DEF Evaluate
  <2>3. CASE Step(r, Await(q, "update"))
    <3>1. Await(q, "update") \in Request
      BY <2>1 DEF Await, Request, Pcs
    <3>2. Journey(Await(q, "update"), accounts, rows)
      BY <2>1 DEF Await, Request, Journey
    <3> QED BY <1>t, <1>7, <2>3, <3>1, <3>2, Frame DEF Evaluate
  <2> QED BY <1>7, <2>2, <2>3 DEF Evaluate
<1>8. ASSUME NEW r \in Requests, Update(r)
      PROVE  AInv'
  <2> DEFINE q == req[r]
             moved == [rows EXCEPT ![q.user] = Updated(rows[q.user], q.shows)]
  <2>1. /\ q \in Request /\ q.pc = "update" /\ q.user \in Users /\ q.shows \in Shows
        /\ q.user \in accounts /\ q.auth /\ rows[q.user] # None
    BY <1>t, <1>8 DEF Update, At, Journey
  <2>2. Updated(rows[q.user], q.shows) \in Row
    BY <1>t, <2>1, ShowsAreRows, TableTypes
  <2>3. /\ UNCHANGED <<accounts, last>>
        /\ rows' = rows \/ rows' = moved
    BY <1>8 DEF Update, Fails
  <2>4. /\ rows' \in [Users -> Row \cup {None}]
        /\ \A u \in Users : rows'[u] # None <=> rows[u] # None
    BY <1>t, <2>1, <2>2, <2>3, AccountsAssumption
  <2>5. CASE Step(r, Fail(q, "Model"))
    BY <1>t, <2>1, <2>3, <2>4, <2>5, Failed, Frame
  <2>6. CASE Step(r, Await(q, "session"))
    <3>1. Await(q, "session") \in Request
      BY <2>1 DEF Await, Request, Pcs
    <3>2. Journey(Await(q, "session"), accounts, rows')
      BY <2>1, <2>4 DEF Await, Request, Journey
    <3> QED BY <1>t, <2>3, <2>4, <2>6, <3>1, <3>2, Frame
  <2> QED BY <1>8, <2>5, <2>6 DEF Update
<1>9. ASSUME NEW r \in Requests, CreateSession(r)
      PROVE  AInv'
  <2> DEFINE q == req[r]
  <2>1. /\ q \in Request /\ q.pc # "idle" /\ q.user \in Users /\ q.shows \in Shows
    BY <1>t, <1>9 DEF CreateSession, At, Journey
  <2>2. Policy!Merged(last[q.user], q.shows) \in Row
    BY <1>t, <2>1, ShowsAreRows, TableTypes
  <2>3. last' \in [Users -> Row]
    BY <1>t, <1>9, <2>2 DEF CreateSession
  <2>4. \/ Step(r, Answer(q, "ok"))
        \/ Step(r, Fail(q, "SuperTokens"))
    BY <1>9 DEF CreateSession
  <2> QED BY <1>t, <1>9, <2>1, <2>3, <2>4, Answered, Failed, Frame DEF CreateSession
<1>10. ASSUME Restart
       PROVE  AInv'
  <2>1. TypeOK'
    BY <1>t, <1>10, IdleType DEF Restart, TypeOK
  <2>2. Journeys' /\ BlameDeserved'
    BY <1>10 DEF Restart, Journeys, BlameDeserved, At, Idle
  <2>3. RowsHaveAccounts'
    BY <1>10 DEF Restart, RowsHaveAccounts, HasRow
  <2> QED BY <2>1, <2>2, <2>3 DEF AInv
<1>11. CASE UNCHANGED vars
  BY <1>11 DEF vars, AInv, TypeOK, Journeys, BlameDeserved, At, RowsHaveAccounts, HasRow
<1> QED
  BY <1>1, <1>2, <1>3, <1>4, <1>5, <1>6, <1>7, <1>8, <1>9, <1>10, <1>11 DEF Next, Serve

\* Every handler has, before each call, what the call relies on: an account, a row,
\* a baseline to compare with.
THEOREM AccountsInvariance == Spec => []AInv
  BY InitAInv, NextAInv, PTL DEF Spec

\* Every variable keeps its type.
THEOREM AccountsTypeCorrect == Spec => []TypeOK
<1>1. AInv => TypeOK
  BY DEF AInv
<1> QED BY <1>1, AccountsInvariance, PTL

\* A session is only created for a user who has a row, whatever calls fail and
\* whichever request wrote the row.
THEOREM SessionsHaveRows == Spec => []SessionNeedsRow
<1>1. AInv => SessionNeedsRow
  BY DEF AInv, Journeys, SessionNeedsRow, At
<1> QED BY <1>1, AccountsInvariance, PTL

\* A client error never blames the client for a failure of the server or for another
\* request that was faster (client_status_and_error).
THEOREM BlameIsDeserved == Spec => []BlameDeserved
<1>1. AInv => BlameDeserved
  BY DEF AInv
<1> QED BY <1>1, AccountsInvariance, PTL

\* Only an insert, an update or a restart touches the table.
LEMMA BaselineKept ==
  ASSUME AInv, [Next]_vars, NEW u \in Users, NEW k \in {"ip", "dev"},
         rows[u] # None, rows'[u] # None, rows[u][k] # None
  PROVE  rows'[u][k] # None
<1>t. /\ rows \in [Users -> Row \cup {None}]
      /\ \A r \in Requests : req[r] \in Request
  BY DEF AInv, TypeOK
<1>1. ASSUME NEW r \in Requests, SignUpRow(r) \/ Backfill(r)
      PROVE  rows'[u] = rows[u]
  BY <1>t, <1>1 DEF SignUpRow, Backfill, Create, Created, Fails, HasRow
<1>2. ASSUME NEW r \in Requests, Update(r)
      PROVE  rows'[u][k] # None
  <2>1. \/ rows'[u] = rows[u]
        \/ rows'[u] = Updated(rows[u], req[r].shows)
    BY <1>t, <1>2 DEF Update, Fails
  <2>2. Updated(rows[u], req[r].shows)[k] # None
    BY <1>t DEF Updated, Row
  <2> QED BY <2>1, <2>2
<1>3. CASE Restart
  BY <1>3 DEF Restart
<1>4. ASSUME NEW r \in Requests,
             \/ \E ep \in {"signup", "signin"}, v \in Users, a \in Shows : Send(r, ep, v, a)
             \/ Deliver(r) \/ Drop(r) \/ SignUp(r) \/ SignIn(r) \/ Read(r)
             \/ Evaluate(r) \/ CreateSession(r)
      PROVE  rows' = rows
  BY <1>4 DEF Send, Deliver, Drop, SignUp, SignIn, Read, Evaluate, CreateSession
<1>5. CASE UNCHANGED vars
  BY <1>5 DEF vars
<1> QED BY <1>1, <1>2, <1>3, <1>4, <1>5 DEF Next, Serve

\* What a baseline knows stays known: update_login_fingerprint writes only the
\* fields that are Some.
THEOREM BaselineStaysKnown == Spec => BaselineNeverForgotten
<1>1. AInv /\ [Next]_vars =>
        [\A u \in Users, k \in {"ip", "dev"} :
           HasRow(u) /\ HasRow(u)' /\ rows[u][k] # None => rows'[u][k] # None]_vars
  BY BaselineKept DEF HasRow
<1> QED BY <1>1, AccountsInvariance, PTL DEF Spec, BaselineNeverForgotten

-----------------------------------------------------------------------------
(* One request at a time, no faults.                                       *)

OneAtATime == (\E r : Requests = {r}) /\ Faults = {}

\* What SerialInv says, beyond AInv, of the only request.
Attempt(q, rws, lst) ==
  /\ \A u \in Users :
       /\ rws[u] # None /\ ~(q.pc = "session" /\ q.user = u) => rws[u] = lst[u]
       /\ rws[u] = None => lst[u] = Policy!Nothing
  /\ q.pc = "sign_in" => ~q.auth /\ q.ep = "signin"
  /\ q.pc \in {"sign_up", "su_row"} => q.ep = "signup"
  /\ q.pc = "backfill" => rws[q.user] = None
  /\ q.pc = "risk" => q.base = rws[q.user]
  /\ q.pc = "update" => ~Policy!Unlike(rws[q.user], q.shows)
  /\ q.pc = "session" =>
       /\ ~Policy!Unlike(lst[q.user], q.shows)
       /\ rws[q.user] = Policy!Merged(lst[q.user], q.shows)
  /\ q.pc = "reply" /\ q.ep = "signin" /\ q.auth => q.out \in {"ok", "LOGIN_BLOCKED_RISK"}
  /\ q.pc = "reply" /\ q.out = "LOGIN_BLOCKED_RISK" => Policy!Unlike(lst[q.user], q.shows)

LEMMA SerialIs ==
  ASSUME NEW r, Requests = {r}
  PROVE  SerialInv <=> AInv /\ Attempt(req[r], rows, last)
<1>1. SerialInv => Attempt(req[r], rows, last)
  BY DEF SerialInv, RowsAreLast, AttemptsSound, SigninWorks, BlockedIsUnlikeLast, Attempt,
         At, HasRow
<1>2. Attempt(req[r], rows, last) =>
        RowsAreLast /\ AttemptsSound /\ SigninWorks /\ BlockedIsUnlikeLast
  BY DEF RowsAreLast, AttemptsSound, SigninWorks, BlockedIsUnlikeLast, Attempt, At, HasRow
<1> QED BY <1>1, <1>2 DEF SerialInv

\* Nothing is known before the first login, so it is let in, and is the baseline.
LEMMA FirstLogin ==
  ASSUME NEW a \in Row
  PROVE  /\ ~Policy!Unlike(Policy!Nothing, a)
         /\ Policy!Merged(Policy!Nothing, a) = a
  BY DEF Policy!Unlike, Policy!Changed, Policy!Nothing, Policy!Merged, Row

\* An update merges as the policy does.
LEMMA UpdateMerges ==
  ASSUME NEW x \in Row, NEW a \in Row
  PROVE  Updated(x, a) = Policy!Merged(x, a)
  BY DEF Updated, Policy!Merged

\* The verdict is the policy's.
LEMMA VerdictIsPolicy ==
  ASSUME NEW x \in Row, NEW a \in Row
  PROVE  LET verdict == Verdict(HasChanged(x.dev, a.dev), HasChanged(x.ip, a.ip))
         IN  /\ verdict \in {"block", "flag", "allow"}
             /\ verdict = "block" <=> Policy!Unlike(x, a)
<1>1. /\ HasChanged(x.dev, a.dev) \in BOOLEAN
      /\ HasChanged(x.ip, a.ip) \in BOOLEAN
  BY DEF HasChanged
<1>2. Policy!Unlike(x, a) <=> HasChanged(x.dev, a.dev) /\ HasChanged(x.ip, a.ip)
  BY DEF Policy!Unlike, Policy!Changed, HasChanged
<1> QED BY <1>1, <1>2, VerdictBlocks

\* A step of one request, one at a time, keeps what SerialInv says of it, and lets
\* a login in only as the policy does.
LEMMA SerialStep ==
  ASSUME OneAtATime, NEW r, Requests = {r}, AInv, Attempt(req[r], rows, last), Next
  PROVE  /\ Attempt(req'[r], rows', last')
         /\ Policy!Next \/ last' = last
<1> DEFINE q == req[r]
<1>t. /\ q \in Request /\ Journey(q, accounts, rows)
      /\ q.pc # "idle" => q.user \in Users /\ q.shows \in Shows /\ q.shows \in Row
      /\ rows \in [Users -> Row \cup {None}] /\ last \in [Users -> Row]
      /\ req \in [Requests -> Request]
  BY JourneysAre, ShowsAreRows DEF AInv, TypeOK, Journey
<1>s. ASSUME NEW p, Step(r, p)
      PROVE  req'[r] = p
  BY <1>t, <1>s DEF Step
<1>f. Faults = {}
  BY DEF OneAtATime
<1>e. ASSUME NEW e, e # "LoginBlockedRisk"
      PROVE  /\ Fail(q, e).pc = "reply" /\ Fail(q, e).ep = q.ep /\ Fail(q, e).auth = q.auth
             /\ Fail(q, e).out # "LOGIN_BLOCKED_RISK"
  <2>1. Fail(q, e) = Answer(q, ClientError(e)) /\ ClientError(e) # "LOGIN_BLOCKED_RISK"
    BY <1>e, FailAnswers
  <2>2. \A out : LET p == Answer(q, out)
                 IN  p.pc = "reply" /\ p.ep = q.ep /\ p.auth = q.auth /\ p.out = out
    BY <1>t DEF Answer, Request
  <2> QED BY <2>1, <2>2
<1>1. ASSUME NEW ep \in {"signup", "signin"}, NEW u \in Users, NEW a \in Shows,
             Send(r, ep, u, a)
      PROVE  Attempt(req'[r], rows', last') /\ last' = last
  <2>1. q.pc = "idle" /\ UNCHANGED <<rows, last>>
    BY <1>1 DEF Send, At
  <2>2. req'[r] = [Idle EXCEPT !.pc = IF ep = "signup" THEN "sign_up" ELSE "sign_in",
                               !.ep = ep, !.user = u, !.shows = a]
    BY <1>s, <1>1 DEF Send
  <2>3. /\ req'[r].pc = IF ep = "signup" THEN "sign_up" ELSE "sign_in"
        /\ req'[r].ep = ep /\ ~req'[r].auth
    BY <2>2 DEF Idle
  <2> QED BY <1>1, <2>1, <2>3 DEF Attempt
<1>2. CASE Deliver(r)
  BY <1>s, <1>2 DEF Deliver, Idle, Attempt, At
<1>3. CASE Drop(r)
  BY <1>f, <1>3 DEF Drop
<1>4. CASE SignUp(r)
  <2>1. /\ q.pc = "sign_up" /\ UNCHANGED <<rows, last>>
        /\ \/ req'[r] = [Await(q, "su_row") EXCEPT !.auth = TRUE]
           \/ \E e \in {"SignupEmailExists", "ValidationFail"} : req'[r] = Fail(q, e)
    BY <1>f, <1>s, <1>4 DEF SignUp, At, Fails, FromCore
  <2>2. q.ep = "signup"
    BY <2>1 DEF Attempt
  <2>3. CASE req'[r] = [Await(q, "su_row") EXCEPT !.auth = TRUE]
    BY <1>t, <2>1, <2>2, <2>3 DEF Attempt, Await, Request
  <2>4. ASSUME NEW e \in {"SignupEmailExists", "ValidationFail"}, req'[r] = Fail(q, e)
        PROVE  Attempt(req'[r], rows', last')
    <3>1. req'[r].pc = "reply" /\ req'[r].ep = "signup" /\ req'[r].out # "LOGIN_BLOCKED_RISK"
      BY <1>e, <2>2, <2>4
    <3> QED BY <2>1, <3>1 DEF Attempt
  <2> QED BY <2>1, <2>3, <2>4
<1>5. CASE SignIn(r)
  <2>1. /\ q.pc = "sign_in" /\ UNCHANGED <<rows, last>>
        /\ \/ req'[r] = [Await(q, "read") EXCEPT !.auth = TRUE]
           \/ req'[r] = Fail(q, "SigninFail")
    BY <1>f, <1>s, <1>5 DEF SignIn, At, FromCore
  <2>2. CASE req'[r] = [Await(q, "read") EXCEPT !.auth = TRUE]
    BY <1>t, <2>1, <2>2 DEF Attempt, Await, Request
  <2>3. CASE req'[r] = Fail(q, "SigninFail")
    <3>1. req'[r].pc = "reply" /\ ~req'[r].auth /\ req'[r].out # "LOGIN_BLOCKED_RISK"
      BY <1>e, <2>1, <2>3 DEF Attempt
    <3> QED BY <2>1, <3>1 DEF Attempt
  <2> QED BY <2>1, <2>2, <2>3
<1>6. CASE Read(r)
  <2>1. /\ q.pc = "read" /\ UNCHANGED <<rows, last>>
        /\ \/ req'[r] = [Await(q, "risk") EXCEPT !.base = rows[q.user]]
           \/ rows[q.user] = None /\ req'[r] = Await(q, "backfill")
    BY <1>f, <1>s, <1>6 DEF Read, At, HasRow
  <2>2. CASE req'[r] = [Await(q, "risk") EXCEPT !.base = rows[q.user]]
    <3>1. /\ req'[r].pc = "risk" /\ req'[r].user = q.user
          /\ req'[r].base = rows[q.user]
      BY <1>t, <2>2 DEF Await, Request
    <3> QED BY <2>1, <3>1 DEF Attempt
  <2>3. CASE rows[q.user] = None /\ req'[r] = Await(q, "backfill")
    <3>1. req'[r].pc = "backfill" /\ req'[r].user = q.user
      BY <1>t, <2>3 DEF Await, Request
    <3> QED BY <2>1, <2>3, <3>1 DEF Attempt
  <2> QED BY <2>1, <2>2, <2>3
<1>7. ASSUME NEW pc \in {"su_row", "backfill"}, Create(r, pc, "session")
      PROVE  Attempt(req'[r], rows', last') /\ last' = last
  <2>1. q.pc = pc /\ last' = last
    BY <1>7 DEF Create, At
  <2>2. CASE /\ rows[q.user] = None /\ rows' = Created(q.user, q.shows)
             /\ req'[r] = Await(q, "session")
    <3>1. last[q.user] = Policy!Nothing
      BY <1>t, <2>1, <2>2 DEF Attempt
    <3>2. /\ rows'[q.user] = q.shows
          /\ \A u \in Users : u # q.user => rows'[u] = rows[u]
      BY <1>t, <2>1, <2>2 DEF Created
    <3>3. q.shows # None
      BY <1>t, <2>1, AccountsAssumption
    <3> QED BY <1>t, <2>1, <2>2, <3>1, <3>2, <3>3, FirstLogin DEF Attempt, Await, Request
  <2>3. CASE rows[q.user] # None /\ rows' = rows /\ req'[r] = Fail(q, "Model")
    <3>1. pc = "su_row" /\ q.ep = "signup"
      BY <2>1, <2>3 DEF Attempt
    <3>2. req'[r].pc = "reply" /\ req'[r].ep = "signup" /\ req'[r].out # "LOGIN_BLOCKED_RISK"
      BY <1>e, <2>3, <3>1
    <3> QED BY <2>1, <2>3, <3>2 DEF Attempt
  <2> QED BY <1>f, <1>s, <1>7, <2>2, <2>3 DEF Create, Fails, HasRow
<1>8. CASE Evaluate(r)
  <2>1. /\ q.pc = "risk" /\ UNCHANGED <<rows, last>>
        /\ q.base = rows[q.user] /\ rows[q.user] \in Row /\ rows[q.user] = last[q.user]
    BY <1>t, <1>8 DEF Evaluate, At, Attempt, Journey
  <2>2. \/ Policy!Unlike(rows[q.user], q.shows) /\ req'[r] = Answer(q, "LOGIN_BLOCKED_RISK")
        \/ ~Policy!Unlike(rows[q.user], q.shows) /\ req'[r] = Await(q, "update")
    BY <1>f, <1>s, <1>t, <1>8, <2>1, VerdictIsPolicy DEF Evaluate, Fail, ClientError
  <2> QED BY <1>t, <2>1, <2>2 DEF Attempt, Await, Answer, Request
<1>9. CASE Update(r)
  <2>1. /\ q.pc = "update" /\ last' = last /\ req'[r] = Await(q, "session")
        /\ rows' = [rows EXCEPT ![q.user] = Updated(rows[q.user], q.shows)]
    BY <1>f, <1>s, <1>9 DEF Update, At, Fails
  <2>2. /\ rows[q.user] \in Row /\ rows[q.user] = last[q.user]
        /\ ~Policy!Unlike(rows[q.user], q.shows)
    BY <1>t, <2>1 DEF Attempt, Journey
  <2>3. /\ rows'[q.user] = Policy!Merged(last[q.user], q.shows)
        /\ rows'[q.user] # None
        /\ \A u \in Users : u # q.user => rows'[u] = rows[u]
    BY <1>t, <2>1, <2>2, UpdateMerges, TableTypes, AccountsAssumption
  <2> QED BY <1>t, <2>1, <2>2, <2>3 DEF Attempt, Await, Request
<1>10. CASE CreateSession(r)
  <2>1. /\ q.pc = "session" /\ rows' = rows /\ req'[r] = Answer(q, "ok")
        /\ last' = [last EXCEPT ![q.user] = Policy!Merged(last[q.user], q.shows)]
    BY <1>f, <1>s, <1>10 DEF CreateSession, At
  <2>2. Policy!Login(q.user, q.shows)
    BY <1>t, <2>1 DEF Attempt, Policy!Login
  <2>3. /\ rows[q.user] # None
        /\ last'[q.user] = rows[q.user]
        /\ \A u \in Users : u # q.user => last'[u] = last[u]
    BY <1>t, <2>1 DEF Attempt, Journey
  <2>4. Attempt(req'[r], rows', last')
    BY <1>t, <2>1, <2>3 DEF Attempt, Answer, Request
  <2> QED BY <1>t, <2>1, <2>2, <2>4 DEF Policy!Next
<1>11. CASE Restart
  BY <1>f, <1>11 DEF Restart
<1> QED
  BY <1>1, <1>2, <1>3, <1>4, <1>5, <1>6, <1>7, <1>8, <1>9, <1>10, <1>11
     DEF Next, Serve, SignUpRow, Backfill

\* The handlers, used one request after the other, establish SerialInv.
LEMMA SerialInductive ==
  ASSUME OneAtATime
  PROVE  /\ Init => SerialInv
         /\ SerialInv /\ [Next]_vars => SerialInv' /\ [Policy!Next]_last
<1>1. PICK r : Requests = {r}
  BY DEF OneAtATime
<1>2. Init => SerialInv
  <2> SUFFICES ASSUME Init PROVE Attempt(req[r], rows, last)
    BY <1>1, SerialIs, InitAInv
  <2> QED BY <1>1 DEF Init, Attempt, Idle
<1>3. ASSUME SerialInv, Next
      PROVE  SerialInv' /\ [Policy!Next]_last
  <2>1. AInv /\ Attempt(req[r], rows, last)
    BY <1>1, <1>3, SerialIs
  <2>2. Attempt(req'[r], rows', last') /\ (Policy!Next \/ last' = last)
    BY <1>1, <1>3, <2>1, SerialStep
  <2>3. AInv'
    BY <1>3, <2>1, NextAInv
  <2>4. RowsAreLast' /\ AttemptsSound' /\ SigninWorks' /\ BlockedIsUnlikeLast'
    BY <1>1, <2>2 DEF RowsAreLast, AttemptsSound, SigninWorks, BlockedIsUnlikeLast, Attempt,
                      At, HasRow
  <2> QED BY <2>2, <2>3, <2>4 DEF SerialInv
<1>4. ASSUME SerialInv, UNCHANGED vars
      PROVE  SerialInv' /\ [Policy!Next]_last
  <2>1. AInv'
    BY <1>4, NextAInv DEF SerialInv
  <2>2. RowsAreLast' /\ AttemptsSound' /\ SigninWorks' /\ BlockedIsUnlikeLast'
    BY <1>4 DEF vars, SerialInv, RowsAreLast, AttemptsSound, SigninWorks,
                BlockedIsUnlikeLast, At, HasRow
  <2> QED BY <1>4, <2>1, <2>2 DEF SerialInv, vars
<1> QED BY <1>2, <1>3, <1>4

\* Used one request after the other and without faults, signin and signup implement
\* the login policy: nobody gets in with both the ip and the device changed since
\* the last successful login, and every success becomes the new baseline.
THEOREM PolicyRefined ==
  ASSUME OneAtATime
  PROVE  Spec => PolicyImplemented
<1>1. Init => Policy!Init
  BY DEF Init, Policy!Init
<1> QED BY <1>1, SerialInductive, PTL DEF Spec, PolicyImplemented, Policy!Spec

\* Used so, a row holds what the last successful login showed.
THEOREM BaselineFollowsLogins ==
  ASSUME OneAtATime
  PROVE  Spec => []BaselineIsLastLogin
<1>1. SerialInv => BaselineIsLastLogin
  BY DEF SerialInv, RowsAreLast, BaselineIsLastLogin, At, HasRow
<1> QED BY <1>1, SerialInductive, PTL DEF Spec

\* Used so, a right password is answered by a session or by the risk check's block.
THEOREM SigninServes ==
  ASSUME OneAtATime
  PROVE  Spec => []SigninWorks
<1>1. SerialInv => SigninWorks
  BY DEF SerialInv
<1> QED BY <1>1, SerialInductive, PTL DEF Spec

\* Used so, whoever is blocked shows another ip and another device than the user's
\* last successful login did.
THEOREM BlockedOnlyIfUnlike ==
  ASSUME OneAtATime
  PROVE  Spec => []BlockedIsUnlikeLast
<1>1. SerialInv => BlockedIsUnlikeLast
  BY DEF SerialInv
<1> QED BY <1>1, SerialInductive, PTL DEF Spec

\* The invariant behind the four theorems before this one.
THEOREM SerialInvariance ==
  ASSUME OneAtATime
  PROVE  Spec => []SerialInv
BY SerialInductive, PTL DEF Spec

=============================================================================
