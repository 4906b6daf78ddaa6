--------------------------- MODULE AuthSessions ---------------------------
(***************************************************************************)
(* Farklin's session service: the browsers with their two cookies, the     *)
(* requests in flight through mw_ctx_resolver and the handlers, the local  *)
(* user mirror, and the SuperTokens core behind them.                      *)
(*                                                                         *)
(* A request is a server task that gives up the processor at each await.   *)
(* Every call to the core or to the database is one step here: the answer  *)
(* arrives, and the local code up to the next call runs.  A call may also  *)
(* fail, and then its effect may or may not have taken place.              *)
(***************************************************************************)
EXTENDS SuperTokens, WebErrors, FiniteSets

CONSTANTS
  Browsers,      \* user agents; a browser is also the fingerprint it shows
  Requests,      \* slots for requests in flight
  Endpoints,     \* the routes the browsers use
  Faults,        \* what may go wrong: see FaultKinds
  Tabs,          \* how many answers one browser awaits at a time
  Threshold,     \* SLIDING_WINDOW_THRESHOLD_MS
  Second,        \* ticks of the clock in a second
  MaxTime,       \* bound on the clock
  MaxTokens      \* bound on the refreshes a browser asks of one session

Protected == {"session", "list", "revoke", "others"}  \* routes under mw_ctx_require
Routes == Protected \cup {"refresh", "logoff", "signin"}

\* call: a call to the core fails; db: a call to Postgres fails; abandon: the
\* client stops waiting for an answer; restart: the web server is restarted.
FaultKinds == {"call", "db", "abandon", "restart"}

ASSUME AuthAssumption ==
  /\ Browsers \subseteq Fingerprints
  /\ None \notin Browsers
  /\ Endpoints \subseteq Routes
  /\ Faults \subseteq FaultKinds
  /\ Tabs \in Nat
  /\ Threshold \in Nat
  /\ Threshold < RefreshValidity
  /\ Second \in Nat \ {0}
  /\ MaxTime \in Nat
  /\ MaxTokens \in Nat

VARIABLES
  jar,       \* the browsers' cookie jars: sAccessToken and sRefreshToken
  req,       \* the requests in flight
  mirror,    \* users with a row in the "user" table
  hist       \* history: which session one replaces, and what removed it

vars == <<now, sessions, jar, req, mirror, hist>>

-----------------------------------------------------------------------------
(* Requests.                                                               *)

Pcs == {"idle", "verify", "lookup", "handler", "info", "create", "drop_old",
        "lo_revoke", "dev_info", "dev_revoke", "si_create", "reply"}

Request ==
  [pc     : Pcs,                        \* the call it waits for
   b      : Browsers \cup {None},       \* the browser that sent it
   ep     : Routes \cup {"none"},
   acc    : Token \cup {NoToken},       \* the cookies it carried
   ref    : Token \cup {NoToken},
   ctx    : Handles \cup {None},        \* Ctx: the session it acts as
   user   : Users \cup {None},          \* Ctx.st_user_id, or the user signed in
   hs     : SUBSET Handles,             \* the sessions it is about to revoke, or
                                        \* those it shows
   todo   : SUBSET Handles,             \* those whose details it has yet to get
   shown  : SUBSET Handles,             \* the devices of its answer
   fp     : Fingerprints \cup {None},   \* the fingerprint for its new session
   rm     : SUBSET {"acc", "ref"},      \* cookies the answer removes
   tok    : Token \cup {NoToken},       \* tokens the answer sets
   out    : {"none", "ok", "kept"} \cup ClientErrors,
   waited : BOOLEAN,                    \* the browser still awaits the answer
   dead   : BOOLEAN]                    \* history: sent with a dead session

Idle ==
  [pc |-> "idle", b |-> None, ep |-> "none", acc |-> NoToken, ref |-> NoToken,
   ctx |-> None, user |-> None, hs |-> {}, todo |-> {}, shown |-> {},
   fp |-> None, rm |-> {}, tok |-> NoToken, out |-> "none", waited |-> FALSE,
   dead |-> FALSE]

\* The request's cookie jar (tower_cookies): what a handler reads after a removal.
AccessCookie(q)  == IF "acc" \in q.rm THEN NoToken ELSE q.acc
RefreshCookie(q) == IF "ref" \in q.rm THEN NoToken ELSE q.ref

\* clear_session_cookies: a removal reaches the browser only for a cookie that
\* came with the request, and names the cookie, not its value.
ClearCookies(q) ==
  [q EXCEPT !.rm = (IF q.acc # NoToken THEN {"acc"} ELSE {})
              \cup (IF q.ref # NoToken THEN {"ref"} ELSE {})]

\* set_session_cookies: both cookies, and they replace a removal made earlier.
SetCookies(q, t) == [q EXCEPT !.tok = t, !.rm = {}]

\* The next call the request awaits.
Await(q, pc) == [q EXCEPT !.pc = pc]

Answer(q, out) == [q EXCEPT !.pc = "reply", !.out = out]

\* The handler returns an error; the response map turns it into a client error.
Fail(q, e) == Answer(q, ClientError(e))

\* The resolver has run: mw_ctx_require turns away a request without a Ctx
\* before it reaches a protected handler.
Enter(q) ==
  IF q.ep \in Protected /\ q.ctx = None
  THEN Fail(q, "CtxExt")
  ELSE Await(q, "handler")

At(r, pc, eps) == req[r].pc = pc /\ req[r].ep \in eps

Step(r, q) == req' = [req EXCEPT ![r] = q]

\* A call to the core whose full effect on the session table is s failed.
CallFails(s) ==
  /\ "call" \in Faults
  /\ sessions' \in {sessions, s}

-----------------------------------------------------------------------------
(* The browsers.                                                           *)

\* A time as the code sees it that counts in whole seconds: unix_timestamp, and the
\* Expires attribute of a cookie.
WholeSeconds(t) == t - (t % Second)

Waiting(b) == {r \in Requests : req[r].pc # "idle" /\ req[r].b = b /\ req[r].waited}

\* An expired cookie is sent or not, as the browser's clock has it.
SentAccess(b) ==
  {jar[b].acc} \cup (IF now >= WholeSeconds(jar[b].acc.aexp) THEN {NoToken} ELSE {})

\* The cookie of this session's refresh token may have expired.
LastSecond(h) == now >= WholeSeconds(sessions[h].exp)

\* sRefreshToken has the path /api/refresh.
SentRefresh(b, ep) ==
  IF ep # "refresh" \/ jar[b].ref = NoToken THEN {NoToken}
  ELSE {jar[b].ref} \cup
       (IF LastSecond(jar[b].ref.h) THEN {NoToken} ELSE {})

\* Bounds: a request that may open a session is sent only while a handle is left
\* for it, and a token is refreshed only MaxTokens times.
WithinBounds(b, ep) ==
  /\ ep = "signin" \/ (ep = "refresh" /\ jar[b].ref # NoToken /\ Alive(jar[b].ref.h)) =>
       Cardinality(Fresh) >
         Cardinality({r \in Requests : req[r].ep \in {"signin", "refresh"}})
  /\ ep = "refresh" /\ jar[b].ref # NoToken =>
       sessions[jar[b].ref.h].last <= MaxTokens

\* A request with these cookies; the resolver has nothing to verify without an
\* access token.
Sent(b, ep, a, f) ==
  [pc |-> "verify", b |-> b, ep |-> ep, acc |-> a, ref |-> f, ctx |-> None,
   user |-> None, hs |-> {}, todo |-> {}, shown |-> {}, fp |-> None, rm |-> {},
   tok |-> NoToken, out |-> "none", waited |-> TRUE, dead |-> a # NoToken /\ ~Alive(a.h)]

Send(r, b, ep) ==
  /\ req[r].pc = "idle"
  /\ Cardinality(Waiting(b)) < Tabs
  /\ WithinBounds(b, ep)
  /\ \E a \in SentAccess(b), f \in SentRefresh(b, ep) :
       LET q == Sent(b, ep, a, f)
       IN  Step(r, IF a = NoToken THEN Enter(q) ELSE q)
  /\ UNCHANGED <<now, sessions, jar, mirror, hist>>

\* A cookie jar after the Set-Cookie headers of an answer.
ReceivedKeepsRefresh(c, q) ==                \* the refresh cookie is set at signin only
  IF q.tok # NoToken THEN [acc |-> q.tok, ref |-> IF c.ref = NoToken THEN q.tok ELSE c.ref]
  ELSE [acc |-> IF "acc" \in q.rm THEN NoToken ELSE c.acc,
        ref |-> IF "ref" \in q.rm THEN NoToken ELSE c.ref]

Received(c, q) ==
  IF q.tok # NoToken THEN [acc |-> q.tok, ref |-> q.tok]
  ELSE [acc |-> IF "acc" \in q.rm THEN NoToken ELSE c.acc,
        ref |-> IF "ref" \in q.rm THEN NoToken ELSE c.ref]

Deliver(r) ==
  /\ req[r].pc = "reply"
  /\ req[r].waited
  /\ jar' = [jar EXCEPT ![req[r].b] = Received(@, req[r])]
  /\ Step(r, Idle)
  /\ UNCHANGED <<now, sessions, mirror, hist>>

\* The client gives up; the server task goes on, or is dropped at an await.
Abandon(r) ==
  /\ "abandon" \in Faults
  /\ req[r].waited
  /\ Step(r, [req[r] EXCEPT !.waited = FALSE])
  /\ UNCHANGED <<now, sessions, jar, mirror, hist>>

Drop(r) ==
  /\ req[r].pc # "idle"
  /\ ~req[r].waited
  /\ Step(r, Idle)
  /\ UNCHANGED <<now, sessions, jar, mirror, hist>>

-----------------------------------------------------------------------------
(* The resolver, on every route.                                           *)


ResolvedDropsExpired(q, status) ==
  CASE status = "OK"                -> Await(q, "lookup")
    [] status = "TRY_REFRESH_TOKEN" -> Enter(ClearCookies(q))
    [] status = "UNAUTHORISED"      -> Enter(ClearCookies(q))

Resolved(q, status) ==
  CASE status = "OK"                -> Await(q, "lookup")
    [] status = "TRY_REFRESH_TOKEN" -> Enter(q)
    [] status = "UNAUTHORISED"      -> Enter(ClearCookies(q))

\* ctx_resolve: verify the access token.
MwVerify(r) ==
  /\ req[r].pc = "verify"
  /\ LET q == req[r] IN
     \/ /\ sessions' = Verified(q.acc)
        /\ Step(r, Resolved(q, VerifyStatus(q.acc)))
     \/ /\ CallFails(Verified(q.acc))
        /\ Step(r, Enter(q))
  /\ UNCHANGED <<now, jar, mirror, hist>>

\* ctx_resolve: map the session's user to the local mirror.
MwLookup(r) ==
  /\ req[r].pc = "lookup"
  /\ LET q == req[r]
         u == sessions[q.acc.h].user
     IN  \/ /\ u \in mirror
            /\ Step(r, Enter([q EXCEPT !.ctx = q.acc.h, !.user = u]))
         \/ /\ u \notin mirror
            /\ Step(r, Enter(ClearCookies(q)))
         \/ /\ "db" \in Faults
            /\ Step(r, Enter(q))
  /\ UNCHANGED <<now, sessions, jar, mirror, hist>>

-----------------------------------------------------------------------------
(* GET /api/session.                                                       *)

ReadSession(r) ==
  /\ At(r, "handler", {"session"})
  /\ \/ /\ req[r].user \in mirror
        /\ Step(r, Answer(req[r], "ok"))
     \/ /\ req[r].user \notin mirror
        /\ Step(r, Fail(req[r], "EntityNotFound"))
     \/ /\ "db" \in Faults
        /\ Step(r, Fail(req[r], "Model"))
  /\ UNCHANGED <<now, sessions, jar, mirror, hist>>

-----------------------------------------------------------------------------
(* POST /api/sessions/revoke and /api/sessions/revoke-others.              *)

\* The handles an answer of list_session_handles makes the handler revoke; for
\* "revoke" the payload names a handle, and it has to be on the list.
TargetsUnchecked(q) ==
  IF q.ep = "revoke" THEN {{h} : h \in Handles}
  ELSE {HandlesOf(q.user) \ {q.ctx}}

Targets(q) ==
  IF q.ep = "revoke" THEN {{h} : h \in HandlesOf(q.user)}
  ELSE {HandlesOf(q.user) \ {q.ctx}}

DevList(r) ==
  /\ At(r, "handler", {"revoke", "others"})
  /\ LET q == req[r] IN
     \/ \E hs \in Targets(q) :
          Step(r, IF hs = {} THEN Answer(q, "ok")
                  ELSE [Await(q, "dev_revoke") EXCEPT !.hs = hs])
     \/ /\ q.ep = "revoke"      \* the payload names no listed handle
        /\ Step(r, Fail(q, "SessionNotOwned"))
     \/ /\ "call" \in Faults
        /\ Step(r, Fail(q, "SuperTokens"))
  /\ UNCHANGED <<now, sessions, jar, mirror, hist>>

\* History: the route whose revocation removed a session first.
Killed(q) ==
  [h \in Handles |-> IF h \in q.hs /\ sessions[h].st = "live"
                     THEN [hist[h] EXCEPT !.killer = q.ep] ELSE hist[h]]

\* revoke_sessions takes effect, or nothing happens.
Revoke(q) ==
  /\ sessions' = Removed(q.hs)
  /\ hist' = Killed(q)

RevokeFails(q) ==
  /\ "call" \in Faults
  /\ Revoke(q) \/ UNCHANGED <<sessions, hist>>

\* The answer says "revoked" although the call failed, as in the other handlers.
DevRevokeBestEffort(r) ==
  /\ At(r, "dev_revoke", {"revoke", "others"})
  /\ Revoke(req[r]) \/ RevokeFails(req[r])
  /\ Step(r, Answer(req[r], "ok"))
  /\ UNCHANGED <<now, jar, mirror>>

DevRevoke(r) ==
  /\ At(r, "dev_revoke", {"revoke", "others"})
  /\ \/ Revoke(req[r])      /\ Step(r, Answer(req[r], "ok"))
     \/ RevokeFails(req[r]) /\ Step(r, Fail(req[r], "SuperTokens"))
  /\ UNCHANGED <<now, jar, mirror>>

-----------------------------------------------------------------------------
(* GET /api/sessions.                                                      *)

\* list_session_handles; the user may have no session left by now.
ListSessions(r) ==
  /\ At(r, "handler", {"list"})
  /\ LET q == req[r]
         hs == HandlesOf(q.user)
     IN  \/ Step(r, IF hs = {} THEN Answer(q, "ok")
                    ELSE [Await(q, "dev_info") EXCEPT !.hs = hs, !.todo = hs])
         \/ /\ "call" \in Faults
            /\ Step(r, Fail(q, "SuperTokens"))
  /\ UNCHANGED <<now, sessions, jar, mirror, hist>>

\* get_session_info, handle by handle in the core's order: one that has gone stale
\* since it was listed is skipped.
ListInfoStops(r) ==                         \* the rest of the list is given up
  /\ At(r, "dev_info", {"list"})
  /\ LET q == req[r] IN
     \E h \in q.todo :
       LET s == [q EXCEPT !.todo = @ \ {h}, !.shown = @ \cup {h}]
       IN  Step(r, IF ~Alive(h) THEN Answer(q, "ok")
                   ELSE IF s.todo = {} THEN Answer(s, "ok") ELSE s)
  /\ UNCHANGED <<now, sessions, jar, mirror, hist>>

ListInfo(r) ==
  /\ At(r, "dev_info", {"list"})
  /\ LET q == req[r] IN
     \/ \E h \in q.todo :
          LET s == [q EXCEPT !.todo = @ \ {h},
                             !.shown = IF Alive(h) THEN @ \cup {h} ELSE @]
          IN  Step(r, IF s.todo = {} THEN Answer(s, "ok") ELSE s)
     \/ /\ "call" \in Faults
        /\ Step(r, Fail(q, "SuperTokens"))
  /\ UNCHANGED <<now, sessions, jar, mirror, hist>>

-----------------------------------------------------------------------------
(* POST /api/refresh.                                                      *)

RefreshMissing(r) ==
  /\ At(r, "handler", {"refresh"})
  /\ RefreshCookie(req[r]) = NoToken
  /\ Step(r, Fail(req[r], "RefreshTokenMissing"))
  /\ UNCHANGED <<now, sessions, jar, mirror, hist>>

\* slide_window_if_needed: more than half of the refresh window is left, of a clock
\* that has stood still since the second began.
KeepsWindowLoose(t) == sessions[t.h].exp - WholeSeconds(now) >= Threshold
KeepsWindow(t) == sessions[t.h].exp - WholeSeconds(now) > Threshold

\* refresh_session, and then the tokens as they are or the first step of a slide.
RefreshCall(r) ==
  /\ At(r, "handler", {"refresh"})
  /\ RefreshCookie(req[r]) # NoToken
  /\ LET q == req[r]
         t == q.ref
     IN  \/ /\ RefreshStatus(t) = "OK"
            /\ sessions' = Refreshed(t)
            /\ Step(r, IF KeepsWindow(t)
                       THEN Answer(SetCookies(q, NextTokens(t)), "ok")
                       ELSE [Await(q, "info") EXCEPT !.hs = {t.h},
                                      !.user = sessions[t.h].user])
         \/ /\ RefreshStatus(t) = "TOKEN_THEFT_DETECTED"
            /\ sessions' = sessions
            /\ Step(r, Fail(ClearCookies(q), "SessionTokenTheftDetected"))
         \/ /\ RefreshStatus(t) = "UNAUTHORISED"
            /\ sessions' = sessions
            /\ Step(r, Fail(ClearCookies(q), "RefreshFail"))
         \/ /\ CallFails(Refreshed(t))
            /\ Step(r, Fail(q, "SuperTokens"))
  /\ UNCHANGED <<now, jar, mirror, hist>>

\* get_session_info: the fingerprint to carry forward.
SlideInfoRevokes(r) ==                      \* makes room for the new session first
  /\ At(r, "info", {"refresh"})
  /\ Revoke(req[r])
  /\ \E h \in req[r].hs :
       Step(r, [Await(req[r], "create") EXCEPT !.fp = InfoData(h)])
  /\ UNCHANGED <<now, jar, mirror>>

SlideInfo(r) ==
  /\ At(r, "info", {"refresh"})
  /\ LET q == req[r] IN
     \/ \E h \in q.hs : Step(r, [Await(q, "create") EXCEPT !.fp = InfoData(h)])
     \/ /\ "call" \in Faults
        /\ Step(r, Fail(q, "SuperTokens"))
  /\ UNCHANGED <<now, sessions, jar, mirror, hist>>

\* create_session for the user of the session being replaced.
SlideCreate(r) ==
  /\ At(r, "create", {"refresh"})
  /\ LET q == req[r] IN
     \E h \in Fresh, old \in q.hs :
       LET effect == /\ sessions' = Created(h, q.user, q.fp)
                     /\ hist' = [hist EXCEPT ![h].from = old]
       IN  \/ /\ effect
              /\ Step(r, [Await(q, "drop_old") EXCEPT !.tok = FirstTokens(h)])
           \/ /\ "call" \in Faults
              /\ effect \/ UNCHANGED <<sessions, hist>>
              /\ Step(r, Fail(q, "SuperTokens"))
  /\ UNCHANGED <<now, jar, mirror>>

\* revoke_session for the old one; whether it fails is ignored.
SlideRevoke(r) ==
  /\ At(r, "drop_old", {"refresh"})
  /\ Revoke(req[r]) \/ RevokeFails(req[r])
  /\ Step(r, Answer(SetCookies(req[r], req[r].tok), "ok"))
  /\ UNCHANGED <<now, jar, mirror>>

-----------------------------------------------------------------------------
(* POST /api/logoff.                                                       *)

\* `logoff' may be false; without an access token there is nobody to log off.
LogoffForgets(r) ==                         \* clears the cookies before it reads one
  /\ At(r, "handler", {"logoff"})
  /\ Step(r, Answer(ClearCookies(req[r]), "ok"))
  /\ UNCHANGED <<now, sessions, jar, mirror, hist>>

LogoffLocal(r) ==
  /\ At(r, "handler", {"logoff"})
  /\ \/ Step(r, Answer(req[r], "kept"))
     \/ /\ AccessCookie(req[r]) = NoToken
        /\ Step(r, Answer(ClearCookies(req[r]), "ok"))
  /\ UNCHANGED <<now, sessions, jar, mirror, hist>>

\* verify_session once more; only a valid token names a session to revoke.
LogoffVerify(r) ==
  /\ At(r, "handler", {"logoff"})
  /\ AccessCookie(req[r]) # NoToken
  /\ LET q == req[r] IN
     \/ /\ sessions' = Verified(q.acc)
        /\ Step(r, IF VerifyStatus(q.acc) = "OK"
                   THEN [Await(q, "lo_revoke") EXCEPT !.hs = {q.acc.h}]
                   ELSE Answer(ClearCookies(q), "ok"))
     \/ /\ CallFails(Verified(q.acc))
        /\ Step(r, Answer(ClearCookies(q), "ok"))
  /\ UNCHANGED <<now, jar, mirror, hist>>

LogoffRevoke(r) ==
  /\ At(r, "lo_revoke", {"logoff"})
  /\ Revoke(req[r]) \/ RevokeFails(req[r])
  /\ Step(r, Answer(ClearCookies(req[r]), "ok"))
  /\ UNCHANGED <<now, jar, mirror>>

-----------------------------------------------------------------------------
(* POST /api/signin.                                                       *)

\* sign_in, the mirror row (read, or backfilled) and the risk check, in one
\* step: what the check decides is the subject of another module, so a signin
\* it blocks, or cannot decide on, is here one that fails like one with wrong
\* credentials.  The other route that opens a session, signup, ends in the same call.
SignInUser(r) ==
  /\ At(r, "handler", {"signin"})
  /\ LET q == req[r] IN
     \/ \E u \in Users :
          /\ mirror' = mirror \cup {u}
          /\ Step(r, [Await(q, "si_create") EXCEPT !.user = u, !.fp = q.b])
     \/ /\ UNCHANGED mirror
        /\ Step(r, Fail(q, "SigninFail"))
     \/ /\ "call" \in Faults
        /\ UNCHANGED mirror
        /\ Step(r, Fail(q, "SuperTokens"))
     \/ /\ "db" \in Faults
        /\ \E u \in Users : mirror' = mirror \cup {u}
        /\ Step(r, Fail(q, "Model"))
  /\ UNCHANGED <<now, sessions, jar, hist>>

\* create_session with this browser's fingerprint, and set_session_cookies.
SignInCreate(r) ==
  /\ At(r, "si_create", {"signin"})
  /\ LET q == req[r] IN
     \E h \in Fresh :
       \/ /\ sessions' = Created(h, q.user, q.fp)
          /\ Step(r, Answer(SetCookies(q, FirstTokens(h)), "ok"))
       \/ /\ CallFails(Created(h, q.user, q.fp))
          /\ Step(r, Fail(q, "SuperTokens"))
  /\ UNCHANGED <<now, jar, mirror, hist>>

-----------------------------------------------------------------------------
(* The process and the clock.                                              *)

\* main runs init_dev on every start: the "user" table is dropped and recreated.
Restart ==
  /\ "restart" \in Faults
  /\ mirror' = {}
  /\ req' = [r \in Requests |-> Idle]
  /\ UNCHANGED <<now, sessions, jar, hist>>

Tick ==
  /\ now < MaxTime
  /\ now' = now + 1
  /\ UNCHANGED <<sessions, jar, req, mirror, hist>>

-----------------------------------------------------------------------------
Init ==
  /\ now = 0
  /\ sessions = [h \in Handles |-> Unused]
  /\ jar = [b \in Browsers |-> [acc |-> NoToken, ref |-> NoToken]]
  /\ req = [r \in Requests |-> Idle]
  /\ mirror = {}
  /\ hist = [h \in Handles |-> [from |-> None, killer |-> "none"]]

\* The server's part of a request: each step is the answer to a call it awaits.
Serve(r) ==
  \/ MwVerify(r) \/ MwLookup(r)
  \/ ReadSession(r)
  \/ ListSessions(r) \/ ListInfo(r)
  \/ DevList(r) \/ DevRevoke(r)
  \/ RefreshMissing(r) \/ RefreshCall(r)
  \/ SlideInfo(r) \/ SlideCreate(r) \/ SlideRevoke(r)
  \/ LogoffLocal(r) \/ LogoffVerify(r) \/ LogoffRevoke(r)
  \/ SignInUser(r) \/ SignInCreate(r)

Client(r) ==
  \/ \E b \in Browsers, ep \in Endpoints : Send(r, b, ep)
  \/ Deliver(r) \/ Abandon(r) \/ Drop(r)

Next ==
  \/ \E r \in Requests : Serve(r) \/ Client(r)
  \/ Restart
  \/ Tick

Spec == Init /\ [][Next]_vars

\* Every awaited call is answered or fails, every answer is delivered unless the
\* client has left, and a task nobody waits for is dropped or runs on.
FairSpec ==
  Spec /\ \A r \in Requests : WF_vars(Serve(r)) /\ WF_vars(Deliver(r)) /\ WF_vars(Drop(r))

-----------------------------------------------------------------------------
(* Properties.                                                             *)

TypeOK ==
  /\ now \in Nat
  /\ sessions \in [Handles -> Session]
  /\ jar \in [Browsers -> [acc : Token \cup {NoToken}, ref : Token \cup {NoToken}]]
  /\ req \in [Requests -> Request]
  /\ mirror \subseteq Users
  /\ hist \in [Handles -> [from : Handles \cup {None}, killer : Routes \cup {"none"}]]

\* A browser that awaits one answer at a time is never taken for a thief: while
\* its session is alive the core accepts its refresh cookie, whatever answers of
\* earlier refreshes were lost and however often it retried (the arm of
\* api_refresh_handler for TokenTheftDetected is not reached with its cookie).
RefreshCookieAccepted ==
  \A b \in Browsers :
    LET t == jar[b].ref IN
    t # NoToken /\ Alive(t.h) => RefreshStatus(t) = "OK"

\* An answer other than logoff's takes a cookie away from a browser only when
\* that cookie is worthless: its session is gone.  mw_ctx_resolver and
\* api_refresh_handler clear cookies when they learn that a session is dead; the
\* answer that says so arrives later, and names the cookies, not their values.
OnlyDeadCookiesDropped ==
  [][\A b \in Browsers, k \in {"acc", "ref"} :
       jar[b][k] # NoToken /\ jar'[b][k] = NoToken =>
         \/ ~Alive(jar[b][k].h)
         \/ \E r \in Requests : At(r, "reply", {"logoff"}) /\ req'[r].pc = "idle"]_vars

\* "Kick this device out now": a request sent after its session died is never
\* given a Ctx for it, although its access token has not expired (checkDatabase).
KickIsImmediate ==
  \A r \in Requests : req[r].dead => req[r].ctx = None

\* An answer that reports revoked sessions is final: none of the sessions it
\* revoked is alive when it arrives or later (DevRevoke reports a failed call).
AckedRevokeIsFinal ==
  \A r \in Requests :
    At(r, "reply", {"revoke", "others"}) /\ req[r].out = "ok" =>
      \A h \in req[r].hs : sessions[h].st = "removed"

\* A session is only ever removed on behalf of its own user: by a device route of
\* a session of that user, by a refresh that replaces it, by a logoff with its
\* token; and revoke-others never removes the session that asked for it.
EndsOwnSession(q, h) ==
  /\ h \in q.hs
  /\ \/ q.pc = "dev_revoke" /\ q.user = sessions[h].user /\ (q.ep = "others" => q.ctx # h)
     \/ q.pc = "drop_old" /\ q.ref.h = h
     \/ q.pc = "lo_revoke" /\ q.acc.h = h

RevokesOwnOnly ==
  [][\A h \in Handles :
       sessions[h].st = "live" /\ sessions'[h].st = "removed" =>
         \E r \in Requests : EndsOwnSession(req[r], h)]_vars

\* An answered logoff has ended the session whose access token it carried, unless
\* that token had expired: then the session goes on (api_logoff_handler revokes
\* only what verify_session calls valid).
LogoffEndsSession ==
  \A r \in Requests :
    At(r, "reply", {"logoff"}) /\ req[r].out = "ok" /\ req[r].acc # NoToken =>
      ~Alive(req[r].acc.h) \/ now >= req[r].acc.aexp

\* A session that replaces another belongs to the same user and keeps its
\* fingerprint; the fingerprint is lost only if the old session died meanwhile
\* (slide_window_if_needed's unwrap_or(Null)).
FingerprintCarried ==
  \A h \in Handles :
    LET old == hist[h].from IN
    old # None =>
      /\ sessions[h].user = sessions[old].user
      /\ sessions[h].fp = sessions[old].fp \/ (sessions[h].fp = None /\ ~Alive(old))

\* The tokens a browser holds were issued with half of the refresh window left, up
\* to the fraction of a second that slide_window_if_needed cuts off the time: less
\* than a second is missing.  A browser that is used at least that often stays
\* signed in (SLIDING_WINDOW_THRESHOLD_MS).
HalfWindow(t) ==
  t # NoToken =>
    sessions[t.h].exp + AccessValidity + (Second - 1) > t.aexp + Threshold

HalfWindowHeld == \A b \in Browsers : HalfWindow(jar[b].ref)

\* When a refresh has removed the session of a browser's cookie, the answer with
\* the tokens of the replacement is on its way: failures of the calls in between
\* never leave a browser that waits for its answers with neither session.
SlideHandsOver ==
  \A b \in Browsers :
    LET t == jar[b].ref IN
    t # NoToken /\ hist[t.h].killer = "refresh" =>
      \E r \in Requests :
        /\ req[r].b = b /\ req[r].waited
        /\ At(r, "reply", {"refresh"}) /\ req[r].tok # NoToken

\* An answer that tells the browser to sign in again (401) is given to a refresh
\* only when the session of its cookie is gone, or in the second in which it ends,
\* when the cookie may have gone first (build_cookie drops the milliseconds): a call
\* that failed, or an earlier answer that was lost, never costs the user the session.
RefusedRefreshIsFinal ==
  \A r \in Requests :
    At(r, "reply", {"refresh"}) /\ req[r].waited /\ req[r].out \in Unauthorized =>
      LET t == jar[req[r].b].ref IN t # NoToken => ~Alive(t.h) \/ LastSecond(t.h)

\* The devices page is complete, although the sessions are read one after the
\* other while others come and go: it shows every session that was there when the
\* handles were listed and is there when the page arrives, this device included,
\* and no session of anybody else.
DevicesListed ==
  \A r \in Requests :
    LET q == req[r] IN
    At(r, "reply", {"list"}) /\ q.out = "ok" =>
      /\ \A h \in q.hs \cup {q.ctx} : Alive(h) => h \in q.shown
      /\ \A h \in q.shown : sessions[h].user = q.user


-----------------------------------------------------------------------------
(* What the service promises, refined.                                     *)

\* The session on whose behalf a request makes its next call.
ActsAs(q) ==
  CASE q.pc \in {"lookup", "lo_revoke"}                -> q.acc.h
    [] q.pc \in {"handler", "dev_info", "dev_revoke"}  -> q.ctx
    [] q.pc \in {"info", "create", "drop_old"}         -> q.ref.h
    [] OTHER                                           -> None

LoginOf(s) == [st |-> s.st, user |-> s.user, data |-> s.fp, until |-> s.exp]

Service ==
  INSTANCE SessionService
  WITH now    <- now,
       login  <- [h \in Handles |-> LoginOf(sessions[h])],
       acting <- [r \in Requests |-> ActsAs(req[r])],
       Data   <- Fingerprints,
       Validity <- RefreshValidity

\* Browsers, requests and calls implement the service: whatever was read before an
\* await and is used after it, a session is opened, replaced and ended as promised.
ServiceImplemented == Service!Spec

-----------------------------------------------------------------------------
(* The inductive invariant behind the safety properties.                   *)

KnownToken(t) == t # NoToken => sessions[t.h].st # "unused"

\* Every token in circulation, and every handle about to be revoked, is of a
\* session that the core has created.
TokensKnown ==
  /\ \A b \in Browsers : KnownToken(jar[b].acc) /\ KnownToken(jar[b].ref)
  /\ \A r \in Requests :
       /\ KnownToken(req[r].acc) /\ KnownToken(req[r].ref) /\ KnownToken(req[r].tok)
       /\ \A h \in req[r].hs : sessions[h].st # "unused"

\* A request sent with a dead session never passes the resolver's check.
DeadStaysOut ==
  \A r \in Requests :
    req[r].dead =>
      /\ req[r].acc # NoToken /\ ~Alive(req[r].acc.h)
      /\ req[r].pc # "lookup" /\ req[r].ctx = None

\* What each handler that is about to revoke may revoke.
RevocationsSound ==
  \A r \in Requests :
    LET q == req[r] IN
    /\ q.pc \in {"verify", "lookup", "handler"} => q.hs = {}
    /\ q.pc = "dev_revoke" =>
         /\ \A h \in q.hs : sessions[h].user = q.user
         /\ q.ep = "others" => q.ctx \notin q.hs
    /\ q.pc \in {"info", "create", "drop_old"} =>
         q.ep = "refresh" /\ q.ref # NoToken /\ q.hs = {q.ref.h}
    /\ q.pc = "lo_revoke" => q.ep = "logoff" /\ q.hs = {q.acc.h}

\* The session a request has a Ctx for is that of its token and of its user, and a
\* protected route goes on, or is answered, with a Ctx only.
ActorsKnown ==
  \A r \in Requests :
    LET q == req[r] IN
    /\ q.pc # "idle" => q.b # None
    /\ q.pc \in {"lookup", "lo_revoke"} => q.acc # NoToken
    /\ q.pc \in {"verify", "lookup"} => q.ctx = None
    /\ q.ctx # None => q.acc # NoToken /\ q.ctx = q.acc.h
    /\ q.pc \in {"handler", "dev_info", "dev_revoke"} /\ q.ctx # None =>
         q.user = sessions[q.ctx].user
    /\ q.ep \in Protected
         /\ (q.pc \in {"handler", "dev_info", "dev_revoke"} \/ q.out = "ok") =>
         q.ctx # None
    /\ q.pc = "dev_revoke" => q.ctx \notin q.hs \/ q.hs = {q.ctx}
    /\ q.pc = "si_create" => q.user # None /\ q.fp # None

\* What the devices page has read so far.
ListsSound ==
  \A r \in Requests :
    LET q == req[r] IN
    /\ q.todo \cup q.shown \subseteq q.hs
    /\ At(r, "dev_info", {"list"}) =>
         /\ \A h \in q.hs \cup {q.ctx} : Alive(h) => h \in q.todo \cup q.shown
         /\ \A h \in q.hs : sessions[h].user = q.user

\* Tokens in a browser, or on their way to one, have half a window left.
\* set_session_cookies sets both cookies, to the tokens of one issue.
CookiePairCoherent ==
  \A b \in Browsers :
    jar[b].acc # NoToken /\ jar[b].ref # NoToken => jar[b].acc = jar[b].ref

WindowsHeld ==
  /\ \A b \in Browsers : HalfWindow(jar[b].acc) /\ HalfWindow(jar[b].ref)
  /\ \A r \in Requests : HalfWindow(req[r].tok)

\* What a slide has read of the session it replaces, and what it made of it.
ReplacementsSound ==
  /\ \A r \in Requests, h \in Handles :
       LET q == req[r] IN
       /\ q.pc \in {"info", "create"} /\ h \in q.hs => q.user = sessions[h].user
       /\ q.pc = "create" /\ h \in q.hs =>
            q.fp = sessions[h].fp \/ (q.fp = None /\ ~Alive(h))
  /\ \A h \in Handles :
       hist[h].from # None =>
         sessions[h].st # "unused" /\ sessions[hist[h].from].st # "unused"

IInv ==
  /\ TypeOK
  /\ TokensKnown
  /\ CookiePairCoherent
  /\ DeadStaysOut
  /\ RevocationsSound
  /\ ActorsKnown
  /\ ListsSound
  /\ DevicesListed
  /\ AckedRevokeIsFinal
  /\ WindowsHeld
  /\ ReplacementsSound
  /\ FingerprintCarried

-----------------------------------------------------------------------------
(* The line of tokens, while a browser awaits one answer at a time.        *)

RequestsOf(b) == {r \in Requests : req[r].b = b}

\* The tokens browser b may still show the core: those in its jar and those that
\* its requests carry, the ones it has given up included.
Carried(b) ==
  ({jar[b].acc, jar[b].ref} \cup {req[r].acc : r \in RequestsOf(b)}
                           \cup {req[r].ref : r \in RequestsOf(b)}) \ {NoToken}

\* The tokens its refresh cookie is, or will be when the answer arrives.
Awaited(b) == ({jar[b].ref} \cup {req[r].tok : r \in Waiting(b)}) \ {NoToken}

\* All its tokens: those of answers it will never get included.
Held(b) == (Carried(b) \cup {req[r].tok : r \in RequestsOf(b)}) \ {NoToken}

\* Tokens are numbered in the order the core issued them, children after parents.
TokensInLine ==
  \A b \in Browsers : \A t \in Held(b) : t.p < t.n /\ t.n <= sessions[t.h].last

OneHolder ==
  \A b1, b2 \in Browsers : \A t1 \in Held(b1), t2 \in Held(b2) :
    t1.h = t2.h => b1 = b2

\* The core has confirmed the token of the refresh cookie, or its parent.
AwaitedConfirmed ==
  \A b \in Browsers : \A t \in Awaited(b) : sessions[t.h].conf \in {t.n, t.p}

\* Nothing the browser may still show is newer than the parent of that token.
AwaitedNewest ==
  \A b \in Browsers : \A t \in Awaited(b), c \in Carried(b) :
    c.h = t.h => c = t \/ c.n <= t.p

OneAwaited == \A b \in Browsers : \A r, x \in Waiting(b) : r = x

\* The awaited request carries the cookies that are still in the jar.
CookiesCurrent ==
  \A b \in Browsers : \A r \in Waiting(b) :
    req[r].acc \in {NoToken, jar[b].acc} /\ req[r].ref \in {NoToken, jar[b].ref}

LineInv ==
  /\ TokensInLine
  /\ OneHolder
  /\ AwaitedConfirmed
  /\ AwaitedNewest
  /\ OneAwaited
  /\ CookiesCurrent

-----------------------------------------------------------------------------
(* What the repository says and the code does not do.                      *)

\* handlers_auth.rs: the logoff handler ignores a failed revocation because "an
\* already-dead session just means there's nothing left to revoke": the session
\* it tried to revoke is dead when it answers.
LogoffFailureHarmless ==
  \A r \in Requests :
    At(r, "reply", {"logoff"}) => \A h \in req[r].hs : ~Alive(h)

\* supertokens/mod.rs: revoking a session means "kick this device out now": no
\* session that replaces a session revoked from the devices page is alive.
KickedOutStaysOut ==
  \A h \in Handles :
    LET old == hist[h].from IN
    old # None /\ hist[old].killer \in {"revoke", "others"} => ~Alive(h)

=============================================================================
