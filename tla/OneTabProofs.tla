---------------------------- MODULE OneTabProofs ----------------------------
(***************************************************************************)
(* What a browser can count on while it awaits one answer at a time: the   *)
(* core takes its refresh cookie, a refresh is refused only when the       *)
(* session is gone, a cookie is dropped only when it is worthless, and a   *)
(* slide hands the new session over.  Proofs about AuthSessions, for any   *)
(* number of requests that a browser has given up and that still run.      *)
(*                                                                         *)
(* The proof does not go through the actions once per conjunct of LineInv. *)
(* Three lemmas say what any step may do: to the tokens the core has       *)
(* confirmed (NextConfirms), to the cookies of a request (ServeKeeps), and *)
(* so to what a browser holds.  The invariant follows from these.          *)
(***************************************************************************)
EXTENDS CookieProofs

OneTab == Tabs \in {0, 1} /\ IsFiniteSet(Requests)

-----------------------------------------------------------------------------
(* What a browser holds.                                                   *)

LEMMA HeldKnown ==
  ASSUME Parts, NEW b \in Browsers, NEW t \in Held(b)
  PROVE  /\ t \in Token /\ t.h \in Handles /\ t.n \in Nat /\ t.p \in Nat
         /\ sessions[t.h].st # "unused"
         /\ sessions[t.h].last \in Nat /\ sessions[t.h].conf \in Nat
<1>1. t # NoToken
  BY DEF Held
<1>2. \/ t \in {jar[b].acc, jar[b].ref}
      \/ \E r \in Requests : t \in {req[r].acc, req[r].ref, req[r].tok}
  BY DEF Held, Carried, RequestsOf
<1>3. t \in Token \cup {NoToken} /\ Known(t, sessions)
  <2>1. CASE t \in {jar[b].acc, jar[b].ref}
    BY <2>1 DEF Parts, TypeOK, JarSound
  <2>2. ASSUME NEW r \in Requests, t \in {req[r].acc, req[r].ref, req[r].tok}
        PROVE  t \in Token \cup {NoToken} /\ Known(t, sessions)
    <3>1. req[r] \in Request /\ RequestSound(req[r], sessions, now)
      BY DEF Parts, TypeOK
    <3> QED BY <2>2, <3>1 DEF RequestSound, Request
  <2> QED BY <1>2, <2>1, <2>2
<1>4. t \in Token /\ t.h \in Handles
  BY <1>1, <1>3, NoTokenFacts
<1>5. sessions[t.h] \in Session
  BY <1>4 DEF Parts, TypeOK
<1> QED BY <1>1, <1>3, <1>4, <1>5 DEF Known, Token, Session

LEMMA CarriedAwaitedHeld ==
  ASSUME NEW b
  PROVE  Carried(b) \subseteq Held(b) /\ Awaited(b) \subseteq Held(b)
BY DEF Held, Carried, Awaited, Waiting, RequestsOf

\* The tokens a request shows the core are among those its browser carries.
LEMMA RequestCarries ==
  ASSUME NEW r \in Requests, NEW t \in {req[r].acc, req[r].ref}, t # NoToken
  PROVE  t \in Carried(req[r].b)
BY DEF Carried, RequestsOf

-----------------------------------------------------------------------------
(* What a step does to the line of tokens of a session: nothing, or it     *)
(* confirms a token that a browser may show, or its child's parent.        *)

ConfirmsFor(h) ==
  /\ sessions[h].last <= sessions'[h].last
  /\ \/ sessions'[h].conf = sessions[h].conf
     \/ \E b \in Browsers : \E c \in Carried(b) :
          c.h = h /\ sessions[h].conf \in {c.n, c.p} /\ sessions'[h].conf = c.n

Confirms == \A h \in Handles : sessions[h].st # "unused" => ConfirmsFor(h)

LEMMA Unconfirmed ==
  ASSUME TypeOK, \A h \in Handles : sessions[h].st # "unused" =>
                   sessions'[h].conf = sessions[h].conf /\ sessions'[h].last = sessions[h].last
  PROVE  Confirms
<1>1. \A h \in Handles : sessions[h].last <= sessions[h].last
  BY DEF TypeOK, Session
<1> QED BY <1>1 DEF Confirms, ConfirmsFor

LEMMA VerifiedConfirms ==
  ASSUME Parts, Actors, NEW r \in Requests, req[r].pc # "idle",
         sessions' \in {sessions, Verified(req[r].acc)}
  PROVE  Confirms
<1> DEFINE q == req[r]
           t == q.acc
<1>1. q \in Request /\ sessions \in [Handles -> Session] /\ q.b \in Browsers
  BY DEF Parts, TypeOK, Request, Actors, ActorSound
<1>2. CASE sessions' = sessions \/ t = NoToken
  <2>1. t = NoToken => Verified(t) = sessions
    BY <1>1, NoTokenFacts DEF Verified
  <2> QED BY <1>2, <2>1, Unconfirmed DEF Parts
<1>3. CASE sessions' = Verified(t) /\ t # NoToken
  <2>1. t \in Token /\ t \in Carried(q.b) /\ t.h \in Handles
    BY <1>1, <1>3, CookieTyped, RequestCarries, NoTokenFacts
  <2>2. ASSUME NEW h \in Handles
        PROVE  /\ sessions'[h].last = sessions[h].last
               /\ \/ sessions'[h].conf = sessions[h].conf
                  \/ h = t.h /\ sessions[h].conf = t.p /\ sessions'[h].conf = t.n
    BY <1>1, <1>3, <2>1 DEF Verified, Session
  <2>3. \A h \in Handles : sessions[h].last <= sessions[h].last
    BY <1>1 DEF Session
  <2> QED BY <1>1, <2>1, <2>2, <2>3 DEF Confirms, ConfirmsFor
<1> QED BY <1>2, <1>3

LEMMA RefreshedConfirms ==
  ASSUME Parts, Actors, NEW r \in Requests, RefreshCall(r)
  PROVE  Confirms
<1> DEFINE q == req[r]
           t == q.ref
<1>1. q \in Request /\ sessions \in [Handles -> Session] /\ q.b \in Browsers
  BY DEF Parts, TypeOK, Request, Actors, ActorSound, RefreshCall, At
<1>2. t \in Token /\ t # NoToken /\ t \in Carried(q.b) /\ t.h \in Handles
  BY <1>1, CookieTyped, RequestCarries, NoTokenFacts DEF RefreshCall
<1>3. CASE sessions' = sessions
  BY <1>3, Unconfirmed DEF Parts
<1>4. CASE sessions' = Refreshed(t)
  <2>1. ASSUME NEW h \in Handles
        PROVE  /\ sessions[h].last <= sessions'[h].last
               /\ \/ sessions'[h].conf = sessions[h].conf
                  \/ /\ h = t.h /\ sessions[h].conf \in {t.n, t.p}
                     /\ sessions'[h].conf = t.n
    <3>1. sessions[h] \in Session /\ sessions[h].last \in Nat
      BY <1>1 DEF Session
    <3>2. CASE RefreshStatus(t) # "OK"
      BY <1>4, <3>1, <3>2 DEF Refreshed
    <3>3. CASE RefreshStatus(t) = "OK"
      <4>1. sessions[t.h].conf \in {t.n, t.p}
        BY <3>3 DEF RefreshStatus
      <4>2. sessions' = [sessions EXCEPT ![t.h].conf = t.n, ![t.h].last = @ + 1]
        BY <1>4, <3>3 DEF Refreshed
      <4> QED BY <1>1, <1>2, <3>1, <4>1, <4>2 DEF Session
    <3> QED BY <3>2, <3>3
  <2> QED BY <1>1, <1>2, <2>1 DEF Confirms, ConfirmsFor
<1> QED BY <1>3, <1>4 DEF RefreshCall, CallFails

LEMMA NextConfirms ==
  ASSUME Parts, Actors, [Next]_vars
  PROVE  Confirms
<1>t. TypeOK /\ sessions \in [Handles -> Session]
  BY DEF Parts, TypeOK
<1>1. ASSUME NEW r \in Requests, MwVerify(r) \/ LogoffVerify(r) PROVE Confirms
  BY <1>1, VerifiedConfirms DEF MwVerify, LogoffVerify, CallFails, At
<1>2. ASSUME NEW r \in Requests, RefreshCall(r) PROVE Confirms
  BY <1>2, RefreshedConfirms
<1>3. ASSUME NEW r \in Requests, SlideCreate(r) \/ SignInCreate(r) PROVE Confirms
  <2>1. \E h \in Fresh : sessions' \in {sessions, Created(h, req[r].user, req[r].fp)}
    BY <1>3 DEF SlideCreate, SignInCreate, CallFails
  <2> QED BY <1>t, <2>1, Unconfirmed DEF Created, Fresh
<1>4. ASSUME NEW r \in Requests, DevRevoke(r) \/ SlideRevoke(r) \/ LogoffRevoke(r)
      PROVE  Confirms
  <2>1. sessions' \in {sessions, Removed(req[r].hs)}
    BY <1>4 DEF DevRevoke, SlideRevoke, LogoffRevoke, Revoke, RevokeFails
  <2> QED BY <1>t, <2>1, Unconfirmed DEF Removed, Session
<1>5. ASSUME NEW r \in Requests,
             \/ MwLookup(r) \/ ReadSession(r) \/ ListSessions(r) \/ ListInfo(r)
             \/ DevList(r) \/ RefreshMissing(r) \/ SlideInfo(r) \/ LogoffLocal(r)
             \/ SignInUser(r) \/ Client(r)
      PROVE  Confirms
  <2>1. sessions' = sessions
    BY <1>5 DEF MwLookup, ReadSession, ListSessions, ListInfo, DevList, RefreshMissing,
                SlideInfo, LogoffLocal, SignInUser, Client, Send, Deliver, Abandon, Drop
  <2> QED BY <1>t, <2>1, Unconfirmed
<1>6. CASE Restart \/ Tick \/ UNCHANGED vars
  BY <1>6, <1>t, Unconfirmed DEF Restart, Tick, vars
<1> QED BY <1>1, <1>2, <1>3, <1>4, <1>5, <1>6 DEF Next, Serve

-----------------------------------------------------------------------------
(* What the server's step does to the cookies of its request: it keeps     *)
(* those it came with, and may issue tokens.                               *)

SameCookies(p, q) ==
  p.b = q.b /\ p.ep = q.ep /\ p.acc = q.acc /\ p.ref = q.ref /\ p.waited = q.waited

\* The tokens of a refresh that keeps its session, and of a session that begins.
IssuesNext(q, p) ==
  /\ q.pc = "handler" /\ q.ref # NoToken
  /\ RefreshStatus(q.ref) = "OK" /\ sessions' = Refreshed(q.ref)
  /\ p.tok = NextTokens(q.ref)

IssuesFirst(q, p) ==
  /\ q.pc \in {"create", "si_create"}
  /\ \E h \in Fresh : \E u, d : sessions' = Created(h, u, d) /\ p.tok = FirstTokens(h)

Keeps(p, q) ==
  /\ SameCookies(p, q) /\ p.pc # "idle"
  /\ p.tok = q.tok \/ IssuesNext(q, p) \/ IssuesFirst(q, p)
  /\ p.pc = "drop_old" => IssuesFirst(q, p)

LEMMA HelpersKeep ==
  ASSUME NEW q \in Request
  PROVE  /\ \A out : Keeps(Answer(q, out), q) /\ Keeps(Answer(ClearCookies(q), out), q)
         /\ \A e : Keeps(Fail(q, e), q) /\ Keeps(Fail(ClearCookies(q), e), q)
         /\ Keeps(Enter(q), q) /\ Keeps(Enter(ClearCookies(q)), q)
         /\ \A out, t : LET p == Answer(SetCookies(q, t), out)
                        IN  SameCookies(p, q) /\ p.pc = "reply" /\ p.tok = t
<1>1. ASSUME NEW out
      PROVE  Keeps(Answer(q, out), q) /\ Keeps(Answer(ClearCookies(q), out), q)
  BY DEF Keeps, SameCookies, Answer, ClearCookies, Request
<1>2. Keeps(Await(q, "handler"), q) /\ Keeps(Await(ClearCookies(q), "handler"), q)
  BY DEF Keeps, SameCookies, Await, ClearCookies, Request
<1>3. \A out, t : LET p == Answer(SetCookies(q, t), out)
                 IN  SameCookies(p, q) /\ p.pc = "reply" /\ p.tok = t
  BY DEF SameCookies, Answer, SetCookies, Request
<1> QED BY <1>1, <1>2, <1>3 DEF Fail, Enter

LEMMA ServeKeeps ==
  ASSUME TypeOK, NEW r \in Requests, Serve(r)
  PROVE  jar' = jar /\ \E p : Step(r, p) /\ Keeps(p, req[r])
<1> DEFINE q == req[r]
           Kept == \E p : Step(r, p) /\ Keeps(p, q)
<1>1. q \in Request
  BY DEF TypeOK
<1>h. /\ \A out : Keeps(Answer(q, out), q) /\ Keeps(Answer(ClearCookies(q), out), q)
      /\ \A e : Keeps(Fail(q, e), q) /\ Keeps(Fail(ClearCookies(q), e), q)
      /\ Keeps(Enter(q), q) /\ Keeps(Enter(ClearCookies(q)), q)
      /\ \A out, t : LET p == Answer(SetCookies(q, t), out)
                     IN  SameCookies(p, q) /\ p.pc = "reply" /\ p.tok = t
  BY <1>1, HelpersKeep
<1>j. jar' = jar
  BY DEF Serve, MwVerify, MwLookup, ReadSession, ListSessions, ListInfo, DevList, DevRevoke,
         RefreshMissing, RefreshCall, SlideInfo, SlideCreate, SlideRevoke,
         LogoffLocal, LogoffVerify, LogoffRevoke, SignInUser, SignInCreate
<1>5. CASE MwVerify(r)
  <2>1. Keeps(Await(q, "lookup"), q)
    BY <1>1 DEF Keeps, SameCookies, Await, Request
  <2>2. Keeps(Resolved(q, VerifyStatus(q.acc)), q)
    BY <1>h, <2>1 DEF Resolved, VerifyStatus
  <2> QED BY <1>5, <1>h, <2>2 DEF MwVerify
<1>6. CASE MwLookup(r)
  <2>1. ASSUME NEW h, NEW u PROVE Keeps(Enter([q EXCEPT !.ctx = h, !.user = u]), q)
    BY <1>1 DEF Keeps, SameCookies, Enter, Fail, Answer, Await, Request
  <2> QED BY <1>6, <1>h, <2>1 DEF MwLookup
<1>7. CASE ReadSession(r) \/ RefreshMissing(r) \/ DevRevoke(r) \/ LogoffLocal(r) \/ LogoffRevoke(r)
  BY <1>7, <1>h DEF ReadSession, RefreshMissing, DevRevoke, LogoffLocal, LogoffRevoke
<1>8. CASE SlideRevoke(r)
  <2>1. Keeps(Answer(SetCookies(q, q.tok), "ok"), q)
    BY <1>h DEF Keeps
  <2> QED BY <1>8, <2>1 DEF SlideRevoke
<1>9. CASE ListSessions(r)
  <2>1. ASSUME NEW hs PROVE Keeps([Await(q, "dev_info") EXCEPT !.hs = hs, !.todo = hs], q)
    BY <1>1 DEF Keeps, SameCookies, Await, Request
  <2> QED BY <1>9, <1>h, <2>1 DEF ListSessions
<1>10. CASE ListInfo(r)
  <2>1. ASSUME NEW td, NEW sh
        PROVE  /\ Keeps([q EXCEPT !.todo = td, !.shown = sh], q)
               /\ Keeps(Answer([q EXCEPT !.todo = td, !.shown = sh], "ok"), q)
    BY <1>1, <1>10 DEF Keeps, SameCookies, Answer, Request, ListInfo, At
  <2> DEFINE Read(h) == [q EXCEPT !.todo = @ \ {h},
                                  !.shown = IF Alive(h) THEN @ \cup {h} ELSE @]
  <2>2. ASSUME NEW h, Step(r, Read(h)) PROVE Kept
    BY <2>1, <2>2
  <2>3. ASSUME NEW h, Step(r, Answer(Read(h), "ok")) PROVE Kept
    BY <2>1, <2>3
  <2>4. ASSUME NEW e, Step(r, Fail(q, e)) PROVE Kept
    BY <1>h, <2>4
  <2> QED BY <1>10, <2>2, <2>3, <2>4 DEF ListInfo
<1>11. CASE DevList(r) \/ LogoffVerify(r)
  <2>1. ASSUME NEW pc \in {"dev_revoke", "lo_revoke"}, NEW hs
        PROVE  Keeps([Await(q, pc) EXCEPT !.hs = hs], q)
    BY <1>1 DEF Keeps, SameCookies, Await, Request
  <2>2. CASE DevList(r)
    BY <2>2, <1>h, <2>1 DEF DevList
  <2>3. CASE LogoffVerify(r)
    BY <2>3, <1>h, <2>1 DEF LogoffVerify
  <2> QED BY <1>11, <2>2, <2>3
<1>12. CASE RefreshCall(r)
  <2>1. ASSUME NEW hs, NEW u PROVE Keeps([Await(q, "info") EXCEPT !.hs = hs, !.user = u], q)
    BY <1>1 DEF Keeps, SameCookies, Await, Request
  <2>2. ASSUME RefreshStatus(q.ref) = "OK", sessions' = Refreshed(q.ref)
        PROVE  Keeps(Answer(SetCookies(q, NextTokens(q.ref)), "ok"), q)
    <3>1. q.pc = "handler" /\ q.ref # NoToken
      BY <1>12 DEF RefreshCall, At, RefreshCookie
    <3> QED BY <1>h, <2>2, <3>1 DEF Keeps, IssuesNext
  <2> QED BY <1>12, <1>h, <2>1, <2>2 DEF RefreshCall
<1>13. CASE SlideInfo(r)
  <2>1. ASSUME NEW d PROVE Keeps([Await(q, "create") EXCEPT !.fp = d], q)
    BY <1>1 DEF Keeps, SameCookies, Await, Request
  <2> QED BY <1>13, <1>h, <2>1 DEF SlideInfo
<1>14. CASE SlideCreate(r)
  <2>1. ASSUME NEW h \in Fresh, sessions' = Created(h, q.user, q.fp)
        PROVE  Keeps([Await(q, "drop_old") EXCEPT !.tok = FirstTokens(h)], q)
    <3> DEFINE p == [Await(q, "drop_old") EXCEPT !.tok = FirstTokens(h)]
    <3>1. SameCookies(p, q) /\ p.pc # "idle" /\ p.tok = FirstTokens(h)
      BY <1>1 DEF SameCookies, Await, Request
    <3>2. q.pc = "create"
      BY <1>14 DEF SlideCreate, At
    <3> HIDE DEF p
    <3> QED BY <2>1, <3>1, <3>2 DEF Keeps, IssuesFirst, p
  <2> QED BY <1>14, <1>h, <2>1 DEF SlideCreate
<1>15. CASE SignInUser(r)
  <2>1. ASSUME NEW u PROVE Keeps([Await(q, "si_create") EXCEPT !.user = u, !.fp = q.b], q)
    BY <1>1 DEF Keeps, SameCookies, Await, Request
  <2> QED BY <1>15, <1>h, <2>1 DEF SignInUser
<1>16. CASE SignInCreate(r)
  <2>1. ASSUME NEW h \in Fresh, sessions' = Created(h, q.user, q.fp)
        PROVE  Keeps(Answer(SetCookies(q, FirstTokens(h)), "ok"), q)
    <3>1. q.pc = "si_create"
      BY <1>16 DEF SignInCreate, At
    <3> QED BY <1>h, <2>1, <3>1 DEF Keeps, IssuesFirst
  <2> QED BY <1>16, <1>h, <2>1 DEF SignInCreate
<1> QED
  BY <1>j, <1>5, <1>6, <1>7, <1>8, <1>9, <1>10, <1>11, <1>12, <1>13, <1>14, <1>15, <1>16
  DEF Serve

-----------------------------------------------------------------------------
(* The line of tokens is kept by a step after which browsers hold nothing  *)
(* new but the tokens K, which browser b0 got, and which moves into a jar  *)
(* only what was awaited.                                                  *)

LEMMA LineKept ==
  ASSUME Parts, LineInv, Confirms, NEW b0, NEW K, OneAwaited', CookiesCurrent',
         \A b \in Browsers : \A t \in Held(b)' : t \in Held(b) \/ (b = b0 /\ t \in K),
         \A b \in Browsers : \A t \in Awaited(b)' : t \in Awaited(b) \/ (b = b0 /\ t \in K),
         \A b \in Browsers : \A c \in Carried(b)' :
           c \in Carried(b) \/ (c \in Awaited(b) /\ Awaited(b)' \subseteq {c}),
         \A k \in K :
           /\ k.p < k.n /\ k.n <= sessions'[k.h].last
           /\ \A b \in Browsers : \A t \in Held(b) : t.h = k.h => b = b0
           /\ k \in Awaited(b0)' =>
                /\ sessions'[k.h].conf \in {k.n, k.p}
                /\ \A c \in Carried(b0) : c.h = k.h => c.n <= k.p,
         \A k1, k2 \in K : k1 = k2,
         sessions' \in [Handles -> Session]
  PROVE  LineInv'
<1>h. ASSUME NEW b \in Browsers, NEW t \in Held(b)
      PROVE  /\ t \in Token /\ t.h \in Handles /\ t.n \in Nat /\ t.p \in Nat
             /\ sessions[t.h].last \in Nat /\ sessions[t.h].conf \in Nat
             /\ sessions'[t.h].last \in Nat /\ ConfirmsFor(t.h)
             /\ t.p < t.n /\ t.n <= sessions[t.h].last
  BY HeldKnown DEF Confirms, LineInv, TokensInLine, Session
<1>c. \A b : Carried(b) \subseteq Held(b) /\ Awaited(b) \subseteq Held(b)
  BY CarriedAwaitedHeld
<1>1. TokensInLine'
  BY <1>h DEF TokensInLine, ConfirmsFor
<1>2. OneHolder'
  BY DEF OneHolder, LineInv
<1>3. ASSUME NEW b \in Browsers, NEW t \in Awaited(b)'
      PROVE  sessions'[t.h].conf \in {t.n, t.p}
  <2>1. CASE t \in Awaited(b)
    <3>1. t \in Held(b) /\ sessions[t.h].conf \in {t.n, t.p}
      BY <1>c, <2>1 DEF LineInv, AwaitedConfirmed
    <3>2. CASE sessions'[t.h].conf = sessions[t.h].conf
      BY <3>1, <3>2
    <3>3. ASSUME NEW b2 \in Browsers, NEW c \in Carried(b2), c.h = t.h,
                 sessions[t.h].conf \in {c.n, c.p}, sessions'[t.h].conf = c.n
          PROVE  sessions'[t.h].conf \in {t.n, t.p}
      <4>1. c \in Held(b2) /\ b2 = b
        BY <1>c, <3>1, <3>3 DEF LineInv, OneHolder
      <4>2. c = t \/ c.n <= t.p
        BY <2>1, <3>3, <4>1 DEF LineInv, AwaitedNewest
      <4>3. c.n \in Nat /\ c.p \in Nat /\ c.p < c.n /\ t.n \in Nat /\ t.p \in Nat /\ t.p < t.n
        BY <1>h, <3>1, <4>1
      <4> QED BY <3>1, <3>3, <4>2, <4>3
    <3> QED BY <1>h, <3>1, <3>2, <3>3 DEF ConfirmsFor
  <2>2. CASE b = b0 /\ t \in K
    BY <2>2
  <2> QED BY <2>1, <2>2
<1>4. ASSUME NEW b \in Browsers, NEW t \in Awaited(b)', NEW c \in Carried(b)', c.h = t.h
      PROVE  c = t \/ c.n <= t.p
  BY <1>4 DEF LineInv, AwaitedNewest
<1> QED BY <1>1, <1>2, <1>3, <1>4 DEF LineInv, AwaitedConfirmed, AwaitedNewest

\* A step that gives no browser anything new.
LEMMA LineNarrows ==
  ASSUME Parts, TypeOK', LineInv, Confirms, OneAwaited', CookiesCurrent',
         \A b \in Browsers : /\ Held(b)' \subseteq Held(b)
                             /\ Awaited(b)' \subseteq Awaited(b)
                             /\ Carried(b)' \subseteq Carried(b)
  PROVE  LineInv'
<1> DEFINE b0 == None
           K == {}
<1>1. sessions' \in [Handles -> Session]
  BY DEF TypeOK
<1>2. \A k \in K : FALSE
  OBVIOUS
<1>3. \A b \in Browsers : \A t \in Held(b)' : t \in Held(b) \/ (b = b0 /\ t \in K)
  OBVIOUS
<1>4. \A b \in Browsers : \A t \in Awaited(b)' : t \in Awaited(b) \/ (b = b0 /\ t \in K)
  OBVIOUS
<1>5. \A b \in Browsers : \A c \in Carried(b)' :
        c \in Carried(b) \/ (c \in Awaited(b) /\ Awaited(b)' \subseteq {c})
  OBVIOUS
<1> HIDE DEF b0, K
<1> QED BY <1>1, <1>2, <1>3, <1>4, <1>5, LineKept

\* A request whose call is answered has been sent.
LEMMA ServeBusy ==
  ASSUME NEW r \in Requests, Serve(r)
  PROVE  req[r].pc # "idle"
BY DEF Serve, MwVerify, MwLookup, ReadSession, ListSessions, ListInfo, DevList, DevRevoke,
       RefreshMissing, RefreshCall, SlideInfo, SlideCreate, SlideRevoke,
       LogoffLocal, LogoffVerify, LogoffRevoke, SignInUser, SignInCreate, At

LEMMA ServeHoldings ==
  ASSUME TypeOK, NEW r \in Requests, NEW p, Step(r, p), Keeps(p, req[r]), jar' = jar,
         req[r].pc # "idle"
  PROVE  /\ \A b \in Browsers :
              /\ Waiting(b)' = Waiting(b) /\ Carried(b)' = Carried(b)
              /\ \A t \in Held(b)' : t \in Held(b) \/ (b = req[r].b /\ t = p.tok)
              /\ \A t \in Awaited(b)' :
                   t \in Awaited(b) \/ (b = req[r].b /\ t = p.tok /\ req[r].waited)
         /\ p.tok = req[r].tok =>
              \A b \in Browsers : Held(b)' = Held(b) /\ Awaited(b)' = Awaited(b)
         /\ OneAwaited => OneAwaited'
         /\ CookiesCurrent => CookiesCurrent'
<1> DEFINE q == req[r]
<1>1. /\ req'[r] = p /\ \A x \in Requests : x # r => req'[x] = req[x]
      /\ SameCookies(p, q) /\ p.pc # "idle"
  BY DEF Step, TypeOK, Keeps
<1>2. \A x \in Requests :
        /\ req'[x].b = req[x].b /\ req'[x].acc = req[x].acc /\ req'[x].ref = req[x].ref
        /\ req'[x].waited = req[x].waited
        /\ req'[x].pc # "idle" <=> req[x].pc # "idle"
        /\ x # r \/ p.tok = q.tok => req'[x].tok = req[x].tok
  BY <1>1 DEF SameCookies
<1>3. \A b \in Browsers : Waiting(b)' = Waiting(b)
  BY <1>2 DEF Waiting
<1>4. \A b \in Browsers : Carried(b)' = Carried(b)
  BY <1>2 DEF Carried, RequestsOf
<1>5. ASSUME NEW b \in Browsers
      PROVE  /\ \A t \in Held(b)' : t \in Held(b) \/ (b = q.b /\ t = p.tok)
             /\ \A t \in Awaited(b)' :
                  t \in Awaited(b) \/ (b = q.b /\ t = p.tok /\ q.waited)
  <2>1. \A t \in Held(b)' : t \in Held(b) \/ (b = q.b /\ t = p.tok)
    BY <1>1, <1>2, <1>4 DEF Held, RequestsOf
  <2>2. \A t \in Awaited(b)' : t \in Awaited(b) \/ (b = q.b /\ t = p.tok /\ q.waited)
    BY <1>1, <1>2 DEF Awaited, Waiting
  <2> QED BY <2>1, <2>2
<1>6. ASSUME p.tok = q.tok, NEW b \in Browsers
      PROVE  Held(b)' = Held(b) /\ Awaited(b)' = Awaited(b)
  <2>1. \A x \in Requests : req'[x].tok = req[x].tok
    BY <1>2, <1>6
  <2>2. Held(b)' = Held(b)
    BY <1>2, <1>4, <2>1 DEF Held, RequestsOf
  <2>3. Awaited(b)' = Awaited(b)
    BY <1>2, <1>3, <2>1 DEF Awaited, Waiting
  <2> QED BY <2>2, <2>3
<1>7. OneAwaited => OneAwaited'
  BY <1>3 DEF OneAwaited
<1>8. CookiesCurrent => CookiesCurrent'
  BY <1>2, <1>3 DEF CookiesCurrent, Waiting
<1> QED BY <1>3, <1>4, <1>5, <1>6, <1>7, <1>8

LEMMA ServeLine ==
  ASSUME Parts, Actors, TypeOK', LineInv, [Next]_vars, NEW r \in Requests, Serve(r)
  PROVE  LineInv'
<1> DEFINE q == req[r]
<1>1. PICK p : Step(r, p) /\ Keeps(p, q)
  BY ServeKeeps DEF Parts
<1>2. q.pc # "idle" /\ jar' = jar /\ Confirms /\ TypeOK
  BY ServeBusy, ServeKeeps, NextConfirms DEF Parts
<1>3. q \in Request /\ q.b \in Browsers /\ sessions \in [Handles -> Session]
      /\ sessions' \in [Handles -> Session] /\ now \in Nat
  BY <1>2 DEF Parts, TypeOK, Request, Actors, ActorSound
<1>4. /\ \A b \in Browsers :
           /\ Waiting(b)' = Waiting(b) /\ Carried(b)' = Carried(b)
           /\ \A t \in Held(b)' : t \in Held(b) \/ (b = q.b /\ t = p.tok)
           /\ \A t \in Awaited(b)' : t \in Awaited(b) \/ (b = q.b /\ t = p.tok /\ q.waited)
      /\ p.tok = q.tok => \A b \in Browsers : Held(b)' = Held(b) /\ Awaited(b)' = Awaited(b)
      /\ OneAwaited' /\ CookiesCurrent'
  BY <1>1, <1>2, ServeHoldings DEF LineInv
<1>5. CASE p.tok = q.tok
  BY <1>2, <1>4, <1>5, LineNarrows
<1> DEFINE k == p.tok
<1>6. ASSUME k.p < k.n, k.n <= sessions'[k.h].last, k \notin Held(q.b),
             \A b \in Browsers : \A t \in Held(b) : t.h = k.h => b = q.b,
             q.waited => /\ sessions'[k.h].conf \in {k.n, k.p}
                         /\ \A c \in Carried(q.b) : c.h = k.h => c.n <= k.p
      PROVE  LineInv'
  <2>0. PICK b0 \in Browsers : b0 = q.b
    BY <1>3
  <2>1. k \in Awaited(b0)' => q.waited
    BY <1>4, <1>6, <2>0, CarriedAwaitedHeld
  <2> DEFINE K == {k}
  <2>2. \A x \in K : x = k
    OBVIOUS
  <2>3. \A b \in Browsers : \A t \in Held(b)' : t \in Held(b) \/ (b = b0 /\ t \in K)
    BY <1>4, <2>0
  <2>4. \A b \in Browsers : \A t \in Awaited(b)' : t \in Awaited(b) \/ (b = b0 /\ t \in K)
    BY <1>4, <2>0
  <2>5. \A b \in Browsers : \A c \in Carried(b)' :
          c \in Carried(b) \/ (c \in Awaited(b) /\ Awaited(b)' \subseteq {c})
    BY <1>4
  <2>6. \A x \in K :
          /\ x.p < x.n /\ x.n <= sessions'[x.h].last
          /\ \A b \in Browsers : \A t \in Held(b) : t.h = x.h => b = b0
          /\ x \in Awaited(b0)' =>
               /\ sessions'[x.h].conf \in {x.n, x.p}
               /\ \A c \in Carried(b0) : c.h = x.h => c.n <= x.p
    BY <1>6, <2>0, <2>1, <2>2
  <2>7. \A k1, k2 \in K : k1 = k2
    BY <2>2
  <2>8. OneAwaited' /\ CookiesCurrent' /\ Confirms /\ sessions' \in [Handles -> Session]
    BY <1>2, <1>3, <1>4
  <2> HIDE DEF K, k
  <2> QED BY <2>3, <2>4, <2>5, <2>6, <2>7, <2>8, LineKept
<1>7. CASE IssuesNext(q, p)
  <2> DEFINE t == q.ref
  <2>1. t \in Token /\ t \in Carried(q.b) /\ t \in Held(q.b)
    BY <1>3, <1>7, CookieTyped, RequestCarries, CarriedAwaitedHeld DEF IssuesNext
  <2>2. /\ t.h \in Handles /\ t.n \in Nat /\ sessions[t.h].last \in Nat
        /\ t.n <= sessions[t.h].last
    BY <1>3, <2>1, HeldKnown DEF LineInv, TokensInLine
  <2>3. k.h = t.h /\ k.p = t.n /\ k.n = sessions[t.h].last + 1
    BY <1>7 DEF IssuesNext, NextTokens
  <2>4. sessions'[t.h].last = sessions[t.h].last + 1 /\ sessions'[t.h].conf = t.n
    <3>1. sessions' = [sessions EXCEPT ![t.h].conf = t.n, ![t.h].last = @ + 1]
      BY <1>7 DEF IssuesNext, Refreshed
    <3>2. sessions[t.h] \in Session
      BY <1>3, <2>2
    <3> QED BY <1>3, <2>2, <3>1, <3>2 DEF Session
  <2>5. k \notin Held(q.b)
    BY <1>3, <2>2, <2>3 DEF LineInv, TokensInLine
  <2>6. \A b \in Browsers : \A c \in Held(b) : c.h = t.h => b = q.b
    BY <1>3, <2>1 DEF LineInv, OneHolder
  <2>7. ASSUME q.waited, NEW c \in Carried(q.b), c.h = t.h
        PROVE  c.n <= t.n
    <3>1. t = jar[q.b].ref
      BY <1>2, <1>3, <1>7, <2>7 DEF LineInv, CookiesCurrent, Waiting, IssuesNext
    <3>2. t \in Awaited(q.b)
      BY <1>7, <3>1 DEF Awaited, IssuesNext
    <3>3. c = t \/ c.n <= t.p
      BY <1>3, <2>7, <3>2 DEF LineInv, AwaitedNewest
    <3>4. c.n \in Nat /\ t.p \in Nat /\ t.p < t.n
      BY <1>3, <2>1, <2>7, HeldKnown, CarriedAwaitedHeld DEF LineInv, TokensInLine
    <3> QED BY <2>2, <3>3, <3>4
  <2> HIDE DEF k, t
  <2> QED BY <1>6, <2>2, <2>3, <2>4, <2>5, <2>6, <2>7
<1>8. CASE IssuesFirst(q, p)
  <2>1. PICK h \in Fresh :
            \E u, d : sessions' = Created(h, u, d) /\ k = FirstTokens(h)
    BY <1>8 DEF IssuesFirst
  <2>2. /\ k.h = h /\ k.n = 1 /\ k.p = 0
        /\ sessions'[h].last = 1 /\ sessions'[h].conf = 1
    BY <1>3, <2>1 DEF FirstTokens, Created, Fresh
  <2>3. \A b \in Browsers : \A t \in Held(b) : t.h # h
    BY <2>1, HeldKnown DEF Fresh
  <2>4. \A c \in Carried(q.b) : c.h # h
    BY <1>3, <2>3, CarriedAwaitedHeld
  <2> HIDE DEF k
  <2> QED BY <1>3, <1>6, <2>2, <2>3, <2>4
<1> QED BY <1>1, <1>5, <1>7, <1>8 DEF Keeps

\* A request that a browser sends: it awaits nothing else, and shows its jar.
LEMMA SentFacts ==
  ASSUME OneTab, Parts, NEW r \in Requests, NEW b \in Browsers, NEW ep \in Endpoints,
         Send(r, b, ep)
  PROVE  /\ Waiting(b) = {} /\ req[r].pc = "idle"
         /\ \E p : /\ Step(r, p) /\ p.b = b /\ p.ep = ep /\ p.waited /\ p.tok = NoToken
                  /\ p.rm = {} /\ p.acc \in SentAccess(b) /\ p.ref \in SentRefresh(b, ep)
                  /\ \/ p.pc = "verify"
                     \/ p.pc = "handler"
                     \/ p.pc = "reply" /\ ep \in Protected
<1>1. Waiting(b) = {}
  <2>1. Waiting(b) \subseteq Requests /\ Cardinality(Waiting(b)) < Tabs
    BY DEF Waiting, Send
  <2>2. IsFiniteSet(Waiting(b)) /\ Cardinality(Waiting(b)) \in Nat
    BY <2>1, FS_Subset, FS_CardinalityType DEF OneTab
  <2>3. Cardinality(Waiting(b)) = 0
    BY <2>1, <2>2 DEF OneTab
  <2> QED BY <2>2, <2>3, FS_EmptySet
<1>2. PICK a \in SentAccess(b), f \in SentRefresh(b, ep) :
        LET q == Sent(b, ep, a, f)
        IN  Step(r, IF a = NoToken THEN Enter(q) ELSE q)
  BY DEF Send
<1> DEFINE q == Sent(b, ep, a, f)
<1>3. /\ q.b = b /\ q.ep = ep /\ q.waited = TRUE /\ q.tok = NoToken /\ q.rm = {}
      /\ q.acc = a /\ q.ref = f /\ q.pc = "verify"
  BY DEF Sent
<1>4. LET p == Enter(q)
      IN  /\ p.b = b /\ p.ep = ep /\ p.waited = TRUE /\ p.tok = NoToken /\ p.rm = {}
          /\ p.acc = a /\ p.ref = f
          /\ p.pc = "handler" \/ (p.pc = "reply" /\ ep \in Protected)
  BY DEF Sent, Enter, Fail, Answer, Await
<1>5. req[r].pc = "idle"
  BY DEF Send
<1> HIDE DEF q
<1>6. CASE a = NoToken
  <2>1. Step(r, Enter(q))
    BY <1>2, <1>6 DEF q
  <2> QED BY <1>1, <1>4, <1>5, <2>1
<1>7. CASE a # NoToken
  <2>1. Step(r, q)
    BY <1>2, <1>7 DEF q
  <2> QED BY <1>1, <1>3, <1>5, <2>1
<1> QED BY <1>6, <1>7

LEMMA SendLine ==
  ASSUME OneTab, Parts, TypeOK', LineInv, Confirms, NEW r \in Requests,
         NEW b0 \in Browsers, NEW ep \in Endpoints, Send(r, b0, ep)
  PROVE  LineInv'
<1>1. PICK p : /\ Step(r, p) /\ p.b = b0 /\ p.waited /\ p.tok = NoToken
               /\ p.acc \in SentAccess(b0) /\ p.ref \in SentRefresh(b0, ep)
  BY SentFacts
<1>2. Waiting(b0) = {} /\ jar' = jar
  BY SentFacts DEF Send
<1>3. /\ req'[r] = p /\ \A x \in Requests : x # r => req'[x] = req[x]
      /\ p.acc \in {NoToken, jar[b0].acc} /\ p.ref \in {NoToken, jar[b0].ref}
  BY <1>1 DEF Step, Parts, TypeOK, SentAccess, SentRefresh
<1>4. ASSUME NEW b \in Browsers
      PROVE  /\ Carried(b)' \subseteq Carried(b)
             /\ Held(b)' \subseteq Held(b) /\ Awaited(b)' \subseteq Awaited(b)
  <2>1. Carried(b)' \subseteq Carried(b)
    BY <1>1, <1>2, <1>3 DEF Carried, RequestsOf
  <2>2. Held(b)' \subseteq Held(b)
    BY <1>1, <1>3, <2>1 DEF Held, RequestsOf
  <2>3. Awaited(b)' \subseteq Awaited(b)
    BY <1>1, <1>2, <1>3 DEF Awaited, Waiting
  <2> QED BY <2>1, <2>2, <2>3
<1>5. \A b \in Browsers : Waiting(b)' \subseteq (IF b = b0 THEN {r} ELSE Waiting(b))
  BY <1>1, <1>2, <1>3 DEF Waiting
<1>6. OneAwaited'
  BY <1>5 DEF LineInv, OneAwaited
<1>7. CookiesCurrent'
  <2>1. ASSUME NEW b \in Browsers, NEW x \in Waiting(b)', x # r
        PROVE  x \in Waiting(b) /\ req'[x] = req[x]
    BY <1>3, <1>5, <2>1 DEF Waiting
  <2>2. ASSUME NEW b \in Browsers, r \in Waiting(b)'
        PROVE  b = b0
    BY <1>1, <1>3, <2>2 DEF Waiting
  <2> QED BY <1>2, <1>3, <2>1, <2>2 DEF LineInv, CookiesCurrent
<1> QED BY <1>4, <1>6, <1>7, LineNarrows

\* An answer arrives: what was awaited is now in the jar, and nothing is awaited.
LEMMA DeliverLine ==
  ASSUME Parts, Actors, TypeOK', LineInv, Confirms, NEW r \in Requests, Deliver(r)
  PROVE  LineInv'
<1> DEFINE q == req[r]
<1>1. q \in Request /\ q.pc = "reply" /\ q.waited /\ q.b # None
  BY DEF Deliver, Parts, TypeOK, Actors, ActorSound
<1>2. PICK b0 \in Browsers : b0 = q.b
  BY <1>1 DEF Request
<1>3. /\ req'[r] = Idle /\ \A x \in Requests : x # r => req'[x] = req[x]
      /\ jar'[b0] = Received(jar[b0], q)
      /\ \A b \in Browsers : b # b0 => jar'[b] = jar[b]
  BY <1>2 DEF Deliver, Step, Parts, TypeOK
<1>4. Idle.pc = "idle" /\ Idle.tok = NoToken /\ Idle.acc = NoToken /\ Idle.ref = NoToken
  BY DEF Idle
<1>5. r \in Waiting(b0) /\ Waiting(b0)' = {}
  <2>1. r \in Waiting(b0)
    BY <1>1, <1>2 DEF Waiting
  <2>2. \A x \in Waiting(b0) : x = r
    BY <2>1 DEF LineInv, OneAwaited
  <2> QED BY <1>3, <1>4, <2>1, <2>2 DEF Waiting
<1>6. \A b \in Browsers : b # b0 => Waiting(b)' = Waiting(b)
  BY <1>1, <1>2, <1>3, <1>4 DEF Waiting
<1>7. OneAwaited' /\ CookiesCurrent'
  <2>1. OneAwaited'
    BY <1>5, <1>6 DEF LineInv, OneAwaited
  <2>2. ASSUME NEW b \in Browsers, NEW x \in Waiting(b)'
        PROVE  b # b0 /\ x \in Waiting(b) /\ req'[x] = req[x] /\ jar'[b] = jar[b]
    BY <1>3, <1>4, <1>5, <1>6, <2>2 DEF Waiting
  <2>3. CookiesCurrent'
    BY <2>2 DEF LineInv, CookiesCurrent
  <2> QED BY <2>1, <2>3
<1>8. /\ jar'[b0].acc \in {jar[b0].acc, NoToken, q.tok}
      /\ jar'[b0].ref \in {jar[b0].ref, NoToken, q.tok}
      /\ q.tok # NoToken => jar'[b0].acc = q.tok /\ jar'[b0].ref = q.tok
      /\ q.tok # NoToken => q.tok \in Awaited(b0) /\ q.tok \in Held(b0)
  <2>1. q.tok # NoToken => q.tok \in Awaited(b0)
    BY <1>5 DEF Awaited
  <2>2. q.tok # NoToken => q.tok \in Held(b0)
    BY <2>1, CarriedAwaitedHeld
  <2> QED BY <1>3, <2>1, <2>2 DEF Received
<1>9. ASSUME NEW b \in Browsers
      PROVE  /\ \A c \in Carried(b)' : c \in Carried(b) \/ (b = b0 /\ c = q.tok /\ c # NoToken)
             /\ Held(b)' \subseteq Held(b) /\ Awaited(b)' \subseteq Awaited(b)
  <2>1. \A c \in Carried(b)' : c \in Carried(b) \/ (b = b0 /\ c = q.tok /\ c # NoToken)
    BY <1>3, <1>4, <1>8 DEF Carried, RequestsOf
  <2>2. Held(b)' \subseteq Held(b)
    BY <1>3, <1>4, <1>8, <2>1 DEF Held, RequestsOf
  <2>3. Awaited(b)' \subseteq Awaited(b)
    <3>1. CASE b = b0
      BY <1>5, <1>8, <3>1 DEF Awaited
    <3>2. CASE b # b0
      BY <1>3, <1>4, <1>6, <3>2 DEF Awaited, Waiting
    <3> QED BY <3>1, <3>2
  <2> QED BY <2>1, <2>2, <2>3
<1>10. ASSUME NEW b \in Browsers, NEW c \in Carried(b)'
       PROVE  c \in Carried(b) \/ (c \in Awaited(b) /\ Awaited(b)' \subseteq {c})
  <2>1. CASE b = b0 /\ c = q.tok /\ c # NoToken
    BY <1>5, <1>8, <2>1 DEF Awaited
  <2> QED BY <1>9, <2>1
<1> DEFINE K == {}
<1>11. \A k \in K : FALSE
  OBVIOUS
<1>12. \A b \in Browsers : /\ \A t \in Held(b)' : t \in Held(b) \/ (b = b0 /\ t \in K)
                           /\ \A t \in Awaited(b)' : t \in Awaited(b) \/ (b = b0 /\ t \in K)
  BY <1>9
<1>13. sessions' \in [Handles -> Session]
  BY DEF TypeOK
<1> HIDE DEF K, q
<1> QED BY <1>7, <1>10, <1>11, <1>12, <1>13, LineKept

\* Requests that are given up or lost take what they hold with them.
LEMMA LossLine ==
  ASSUME Parts, TypeOK', LineInv, Confirms,
         (\E r \in Requests : Abandon(r) \/ Drop(r)) \/ Restart \/ Tick \/ UNCHANGED vars
  PROVE  LineInv'
<1>1. Idle.pc = "idle" /\ Idle.b = None /\ Idle.tok = NoToken /\ Idle.acc = NoToken
      /\ Idle.ref = NoToken /\ None \notin Browsers
  BY AuthAssumption DEF Idle
<1>2. jar' = jar /\ \A x \in Requests :
        \/ req'[x] = req[x]
        \/ req'[x] = Idle
        \/ /\ req'[x].b = req[x].b /\ req'[x].pc = req[x].pc /\ ~req'[x].waited
           /\ req'[x].acc = req[x].acc /\ req'[x].ref = req[x].ref /\ req'[x].tok = req[x].tok
  <2>1. ASSUME NEW r \in Requests, Abandon(r)
        PROVE  /\ \A x \in Requests : x # r => req'[x] = req[x]
               /\ req'[r] = [req[r] EXCEPT !.waited = FALSE] /\ req[r] \in Request
    BY <2>1 DEF Abandon, Step, Parts, TypeOK
  <2>2. ASSUME NEW r \in Requests, Drop(r)
        PROVE  \A x \in Requests : req'[x] \in {req[x], Idle}
    BY <2>2 DEF Drop, Step, Parts, TypeOK
  <2>3. jar' = jar
    BY DEF Abandon, Drop, Restart, Tick, vars
  <2>4. ASSUME NEW r \in Requests, Abandon(r)
        PROVE  /\ req'[r].b = req[r].b /\ req'[r].pc = req[r].pc /\ ~req'[r].waited
               /\ req'[r].acc = req[r].acc /\ req'[r].ref = req[r].ref
               /\ req'[r].tok = req[r].tok
    <3>1. req'[r] = [req[r] EXCEPT !.waited = FALSE] /\ req[r] \in Request
      BY <2>1, <2>4
    <3> QED BY <3>1 DEF Request
  <2>5. CASE Restart \/ Tick \/ UNCHANGED vars
    BY <2>3, <2>5 DEF Restart, Tick, vars
  <2> QED BY <2>1, <2>2, <2>3, <2>4, <2>5
<1>3. ASSUME NEW b \in Browsers
      PROVE  /\ Carried(b)' \subseteq Carried(b)
             /\ Held(b)' \subseteq Held(b) /\ Awaited(b)' \subseteq Awaited(b)
  <2>1. Carried(b)' \subseteq Carried(b)
    BY <1>1, <1>2 DEF Carried, RequestsOf
  <2>2. Held(b)' \subseteq Held(b)
    BY <1>1, <1>2, <2>1 DEF Held, RequestsOf
  <2>3. Awaited(b)' \subseteq Awaited(b)
    BY <1>1, <1>2 DEF Awaited, Waiting
  <2> QED BY <2>1, <2>2, <2>3
<1>4. \A b \in Browsers : \A x \in Waiting(b)' : x \in Waiting(b) /\ req'[x] = req[x]
  BY <1>1, <1>2 DEF Waiting
<1>5. OneAwaited' /\ CookiesCurrent'
  BY <1>2, <1>4 DEF LineInv, OneAwaited, CookiesCurrent
<1> QED BY <1>3, <1>5, LineNarrows

LEMMA NextLine ==
  ASSUME OneTab, Parts, Actors, LineInv, [Next]_vars
  PROVE  LineInv'
<1>1. TypeOK' /\ Confirms
  BY NextTyped, NextConfirms DEF Parts
<1>2. ASSUME NEW r \in Requests, Serve(r) PROVE LineInv'
  BY <1>1, <1>2, ServeLine
<1>3. ASSUME NEW r \in Requests, NEW b \in Browsers, NEW ep \in Endpoints, Send(r, b, ep)
      PROVE  LineInv'
  BY <1>1, <1>3, SendLine
<1>4. ASSUME NEW r \in Requests, Deliver(r) PROVE LineInv'
  BY <1>1, <1>4, DeliverLine
<1> QED BY <1>1, <1>2, <1>3, <1>4, LossLine DEF Next, Client

LEMMA InitLine == Init => LineInv
<1> SUFFICES ASSUME Init PROVE LineInv
  OBVIOUS
<1>1. \A r \in Requests : /\ req[r].pc = "idle" /\ req[r].acc = NoToken
                         /\ req[r].ref = NoToken /\ req[r].tok = NoToken
  BY DEF Init, Idle
<1>2. ASSUME NEW b \in Browsers
      PROVE  Carried(b) = {} /\ Held(b) = {} /\ Awaited(b) = {} /\ Waiting(b) = {}
  <2>1. jar[b].acc = NoToken /\ jar[b].ref = NoToken
    BY DEF Init
  <2>2. Carried(b) = {}
    BY <1>1, <2>1 DEF Carried, RequestsOf
  <2>3. Waiting(b) = {}
    BY <1>1 DEF Waiting
  <2> QED BY <1>1, <2>1, <2>2, <2>3 DEF Held, Awaited, RequestsOf
<1> QED BY <1>2 DEF LineInv, TokensInLine, OneHolder, AwaitedConfirmed, AwaitedNewest,
                    OneAwaited, CookiesCurrent

LEMMA OneTabInductive ==
  ASSUME OneTab
  PROVE  Spec => [](Parts /\ Actors /\ LineInv)
<1>1. Init => Parts /\ Actors /\ LineInv
  BY InitSound, InitActors, InitLine
<1>2. Parts /\ Actors /\ LineInv /\ [Next]_vars => (Parts /\ Actors /\ LineInv)'
  BY NextSound, NextActors, NextLine
<1> QED BY <1>1, <1>2, PTL DEF Spec

-----------------------------------------------------------------------------
(* A refresh that is refused, and the cookies that an answer removes: where *)
(* the server is not restarted, both mean that the session is gone (or, for *)
(* a refresh, about to be).                                                *)

Gone(t, s, n) == t # NoToken => ~AliveAt(t.h, s, n)

\* Its cookie may be gone as well: it counts in whole seconds.
Spent(t, s, n) ==
  t # NoToken => ~AliveAt(t.h, s, n) \/ n >= WholeSeconds(s[t.h].exp)

\* Of a request that its browser, whose refresh cookie is c, still waits for.
RefusalSound(q, c, s, n) ==
  /\ "acc" \in q.rm => q.acc # NoToken
  /\ "ref" \in q.rm => q.ref # NoToken
  /\ q.rm # {} /\ (q.pc # "reply" \/ q.ep # "logoff") => Gone(q.acc, s, n) /\ Gone(q.ref, s, n)
  /\ /\ q.ep = "refresh"
     /\ q.ref = NoToken \/ (q.pc = "reply" /\ q.out \in Unauthorized)
     => Spent(c, s, n)

RefusalsSound ==
  \A b \in Browsers : \A r \in Waiting(b) : RefusalSound(req[r], jar[b].ref, sessions, now)

Worthless == Restless /\ Actors /\ LineInv /\ RefusalsSound

LEMMA RefusalAging ==
  ASSUME NEW q \in Request, NEW c \in Token \cup {NoToken},
         NEW s \in [Handles -> Session], NEW s2 \in [Handles -> Session],
         NEW n \in Nat, NEW n2 \in Nat, Ages(s, n, s2, n2),
         Known(q.acc, s), Known(q.ref, s), Known(c, s), RefusalSound(q, c, s, n)
  PROVE  RefusalSound(q, c, s2, n2)
<1>1. ASSUME NEW t \in Token \cup {NoToken}, Known(t, s), Gone(t, s, n)
      PROVE  Gone(t, s2, n2)
  <2> SUFFICES ASSUME t # NoToken PROVE ~AliveAt(t.h, s2, n2)
    BY DEF Gone
  <2>1. t.h \in Handles /\ s[t.h].st # "unused" /\ ~AliveAt(t.h, s, n)
    BY <1>1, NoTokenFacts DEF Known, Gone
  <2>2. s[t.h].exp \in Nat
    BY <2>1 DEF Session
  <2> QED BY <2>1, <2>2 DEF Ages, AliveAt
<1>2. q.acc \in Token \cup {NoToken} /\ q.ref \in Token \cup {NoToken}
  BY DEF Request
<1>3. /\ Gone(q.acc, s, n) => Gone(q.acc, s2, n2)
      /\ Gone(q.ref, s, n) => Gone(q.ref, s2, n2)
  BY <1>1, <1>2
<1>4. ASSUME Spent(c, s, n) PROVE Spent(c, s2, n2)
  <2> SUFFICES ASSUME c # NoToken, AliveAt(c.h, s2, n2)
               PROVE  n2 >= WholeSeconds(s2[c.h].exp)
    BY DEF Spent
  <2>1. AliveAt(c.h, s, n)
    BY <1>1 DEF Gone
  <2>2. n >= WholeSeconds(s[c.h].exp)
    BY <1>4, <2>1 DEF Spent
  <2>3. c.h \in Handles /\ s[c.h].exp \in Nat /\ s2[c.h].exp = s[c.h].exp /\ n <= n2
    <3>1. c.h \in Handles /\ s[c.h].st # "unused"
      BY NoTokenFacts DEF Known
    <3> QED BY <3>1 DEF Ages, Session
  <2>4. WholeSeconds(s[c.h].exp) \in Nat
    BY <2>3, WholeSecondsFacts
  <2> QED BY <2>2, <2>3, <2>4
<1> QED BY <1>3, <1>4 DEF RefusalSound

LEMMA RefusalFacts ==
  ASSUME Worthless, TypeOK', [Next]_vars, NEW b \in Browsers, NEW r \in Waiting(b)
  PROVE  /\ r \in Requests /\ req[r] \in Request /\ req[r].b = b /\ req[r].pc # "idle"
         /\ req[r].waited
         /\ RequestSound(req[r], sessions, now) /\ ClearedSound(req[r], sessions, now)
         /\ RefusalSound(req[r], jar[b].ref, sessions, now)
         /\ RefusalSound(req[r], jar[b].ref, sessions', now')
         /\ req[r].acc \in {NoToken, jar[b].acc} /\ req[r].ref \in {NoToken, jar[b].ref}
<1>1. /\ r \in Requests /\ req[r] \in Request /\ req[r].b = b /\ req[r].pc # "idle"
      /\ req[r].waited
      /\ RequestSound(req[r], sessions, now) /\ ClearedSound(req[r], sessions, now)
      /\ RefusalSound(req[r], jar[b].ref, sessions, now)
      /\ jar[b].ref \in Token \cup {NoToken} /\ Known(jar[b].ref, sessions)
  BY DEF Waiting, Worthless, Restless, Parts, TypeOK, JarSound, Cleared, RefusalsSound
<1>2. /\ sessions \in [Handles -> Session] /\ sessions' \in [Handles -> Session]
      /\ now \in Nat /\ now' \in Nat /\ Ages(sessions, now, sessions', now')
  BY NextAges DEF Worthless, Restless, Parts, TypeOK
<1>3. RefusalSound(req[r], jar[b].ref, sessions', now')
  BY <1>1, <1>2, RefusalAging DEF RequestSound
<1>4. req[r].acc \in {NoToken, jar[b].acc} /\ req[r].ref \in {NoToken, jar[b].ref}
  BY DEF Worthless, LineInv, CookiesCurrent
<1> QED BY <1>1, <1>3, <1>4

\* One request takes a step of the server; the others see sessions age.
LEMMA RefusalStep ==
  ASSUME Worthless, TypeOK', [Next]_vars, jar' = jar, NEW r \in Requests, NEW p, Step(r, p),
         req[r].pc # "idle", p.b = req[r].b, p.waited = req[r].waited,
         \A b \in Browsers :
           r \in Waiting(b) => RefusalSound(p, jar[b].ref, sessions', now')
  PROVE  RefusalsSound'
<1>1. req'[r] = p /\ \A x \in Requests : x # r => req'[x] = req[x]
  BY DEF Step, Worthless, Restless, Parts, TypeOK
<1>2. ASSUME NEW b \in Browsers, NEW x \in Waiting(b)'
      PROVE  RefusalSound(req'[x], jar'[b].ref, sessions', now')
  <2>1. x \in Waiting(b)
    BY <1>1 DEF Waiting
  <2>2. CASE x = r
    BY <1>1, <2>1, <2>2
  <2>3. CASE x # r
    BY <1>1, <2>1, <2>3, RefusalFacts
  <2> QED BY <2>2, <2>3
<1> QED BY <1>2 DEF RefusalsSound

\* A step that removes no further cookie, and refuses no refresh.
Mild(p, q) ==
  /\ SameCookies(p, q) /\ p.rm \in {q.rm, {}}
  /\ p.pc # "reply" \/ p.ep # "refresh" \/ p.out \notin Unauthorized

LEMMA MildStep ==
  ASSUME Worthless, TypeOK', [Next]_vars, jar' = jar, NEW r \in Requests, NEW p, Step(r, p),
         req[r].pc \notin {"idle", "reply"}, Mild(p, req[r])
  PROVE  RefusalsSound'
<1>1. ASSUME NEW b \in Browsers, r \in Waiting(b)
      PROVE  RefusalSound(p, jar[b].ref, sessions', now')
  <2>1. RefusalSound(req[r], jar[b].ref, sessions', now')
    BY <1>1, RefusalFacts
  <2> QED BY <2>1 DEF RefusalSound, Mild, SameCookies
<1> QED BY <1>1, RefusalStep DEF Mild, SameCookies

LEMMA HelpersMild ==
  ASSUME NEW q \in Request
  PROVE  /\ Mild(Answer(q, "ok"), q) /\ Mild(Answer(q, "kept"), q)
         /\ \A t : Mild(Answer(SetCookies(q, t), "ok"), q)
         /\ Mild(Fail(q, "SuperTokens"), q)
         /\ q.ep # "refresh" => \A e : Mild(Fail(q, e), q)
         /\ Mild(Enter(q), q)
<1>1. Mild(Answer(q, "ok"), q) /\ Mild(Answer(q, "kept"), q)
  BY DEF Mild, SameCookies, Answer, Request, Unauthorized
<1>2. \A t : Mild(Answer(SetCookies(q, t), "ok"), q)
  BY DEF Mild, SameCookies, Answer, SetCookies, Request, Unauthorized
<1>3. ASSUME NEW out, out \notin Unauthorized \/ q.ep # "refresh"
      PROVE  Mild(Answer(q, out), q)
  BY <1>3 DEF Mild, SameCookies, Answer, Request
<1>4. ClientError("SuperTokens") \notin Unauthorized
  BY DEF ClientError, Unauthorized
<1>e. q.ep = "refresh" => Enter(q) = Await(q, "handler")
  BY DEF Enter, Protected
<1>5. Mild(Await(q, "handler"), q)
  BY DEF Mild, SameCookies, Await, Request
<1>6. Mild(Fail(q, "SuperTokens"), q) /\ (q.ep # "refresh" => \A e : Mild(Fail(q, e), q))
  BY <1>3, <1>4 DEF Fail
<1>7. Mild(Enter(q), q)
  BY <1>5, <1>6, <1>e DEF Enter
<1> QED BY <1>1, <1>2, <1>6, <1>7

LEMMA ClearCookiesRemoves ==
  ASSUME NEW q \in Request
  PROVE  LET c == ClearCookies(q)
         IN  /\ SameCookies(c, q)
             /\ "acc" \in c.rm => q.acc # NoToken
             /\ "ref" \in c.rm => q.ref # NoToken
<1> DEFINE R == (IF q.acc # NoToken THEN {"acc"} ELSE {})
                  \cup (IF q.ref # NoToken THEN {"ref"} ELSE {})
<1>1. /\ "acc" \in R => q.acc # NoToken
      /\ "ref" \in R => q.ref # NoToken
  <2>1. "acc" # "ref"
    OBVIOUS
  <2> QED BY <2>1
<1> HIDE DEF R
<1>2. ClearCookies(q) = [q EXCEPT !.rm = R]
  BY DEF ClearCookies, R
<1> QED BY <1>1, <1>2 DEF SameCookies, Request

LEMMA MwRefusals ==
  ASSUME Worthless, TypeOK', [Next]_vars, NEW r \in Requests, MwVerify(r) \/ MwLookup(r)
  PROVE  RefusalsSound'
<1> DEFINE q == req[r]
<1>1. /\ q \in Request /\ q.pc \in {"verify", "lookup"} /\ jar' = jar /\ now' = now
      /\ ClearedSound(q, sessions, now) /\ RequestSound(q, sessions, now)
  BY DEF MwVerify, MwLookup, At, Worthless, Restless, Parts, TypeOK, Cleared
<1>2. Mild(Enter(q), q) /\ Mild(Await(q, "lookup"), q)
  BY <1>1, HelpersMild DEF Mild, SameCookies, Await, Request
<1>3. CASE Step(r, Enter(q)) \/ Step(r, Await(q, "lookup"))
  BY <1>1, <1>2, <1>3, MildStep
<1>4. CASE VerifyStatus(q.acc) = "UNAUTHORISED" /\ Step(r, Enter(ClearCookies(q)))
  <2> DEFINE c == ClearCookies(q)
             p == Enter(c)
  <2>1. c \in Request
    BY <1>1, ClearCookiesTyped
  <2>2. /\ SameCookies(c, q)
        /\ "acc" \in c.rm => q.acc # NoToken
        /\ "ref" \in c.rm => q.ref # NoToken
    BY <1>1, ClearCookiesRemoves
  <2>3. q.acc # NoToken /\ ~AliveAt(q.acc.h, sessions, now)
    <3>1. q.acc \in Token \cup {NoToken} /\ now \in Nat
      BY <1>1 DEF Request, Worthless, Restless, Parts, TypeOK
    <3> QED BY <1>4, <3>1 DEF VerifyStatus, Alive, AliveAt, NoToken
  <2>4. q.ref # NoToken => q.acc.h = q.ref.h
    BY <1>1, <2>3 DEF ClearedSound
  <2>5. ~AliveAt(q.acc.h, sessions', now')
    <3>1. q.acc.h \in Handles /\ sessions[q.acc.h].st # "unused"
      BY <1>1, <2>3, CookieTyped, NoTokenFacts DEF RequestSound, Known
    <3>2. sessions[q.acc.h].exp \in Nat /\ now \in Nat
      BY <3>1 DEF Worthless, Restless, Parts, TypeOK, Session
    <3>3. Ages(sessions, now, sessions', now')
      BY NextAges DEF Worthless, Restless
    <3> QED BY <1>1, <2>3, <3>1, <3>2, <3>3 DEF Ages, AliveAt
  <2> HIDE DEF c
  <2>6. Mild(p, c)
    BY <2>1, HelpersMild
  <2>7. /\ p.b = q.b /\ p.waited = q.waited /\ p.acc = q.acc /\ p.ref = q.ref /\ p.ep = q.ep
        /\ p.rm \in {c.rm, {}}
        /\ p.pc # "reply" \/ p.ep # "refresh" \/ p.out \notin Unauthorized
    BY <2>2, <2>6 DEF Mild, SameCookies
  <2> HIDE DEF p
  <2>8. ASSUME NEW b \in Browsers, r \in Waiting(b)
        PROVE  RefusalSound(p, jar[b].ref, sessions', now')
    <3>1. RefusalSound(q, jar[b].ref, sessions', now')
      BY <2>8, RefusalFacts
    <3> QED BY <2>2, <2>3, <2>4, <2>5, <2>7, <3>1 DEF RefusalSound, Gone
  <2>9. Step(r, p)
    BY <1>4 DEF p, c
  <2> QED BY <1>1, <2>7, <2>8, <2>9, RefusalStep
<1>5. CASE MwLookup(r)
  <2> DEFINE u == sessions[q.acc.h].user
  <2>1. q.acc # NoToken /\ q.acc.h \in Handles /\ sessions[q.acc.h].st # "unused"
    BY <1>1, <1>5, CookieTyped, NoTokenFacts
    DEF Worthless, Actors, ActorSound, MwLookup, RequestSound, Known
  <2>2. u \in mirror
    BY <2>1 DEF Worthless, Restless, Mirrored
  <2>3. Mild(Enter([q EXCEPT !.ctx = q.acc.h, !.user = u]), q)
    <3>1. \A h, v : Mild(Enter([q EXCEPT !.ctx = h, !.user = v]), q)
      BY <1>1 DEF Mild, SameCookies, Enter, Fail, Answer, Await, Request, Protected
    <3> QED BY <3>1
  <2> QED BY <1>1, <1>3, <1>5, <2>2, <2>3, MildStep DEF MwLookup
<1>6. CASE MwVerify(r)
  <2>1. VerifyStatus(q.acc) \in {"OK", "TRY_REFRESH_TOKEN", "UNAUTHORISED"}
    BY DEF VerifyStatus
  <2> QED BY <1>3, <1>4, <1>6, <2>1 DEF MwVerify, Resolved
<1> QED BY <1>5, <1>6

\* The actions that clear no cookie and refuse no refresh.
LEMMA MildRefusals ==
  ASSUME Worthless, TypeOK', [Next]_vars, NEW r \in Requests,
         \/ ReadSession(r) \/ ListSessions(r) \/ ListInfo(r) \/ DevList(r) \/ DevRevoke(r)
         \/ SlideInfo(r) \/ SlideCreate(r) \/ SlideRevoke(r) \/ SignInUser(r) \/ SignInCreate(r)
  PROVE  RefusalsSound'
<1> DEFINE q == req[r]
<1>1. q \in Request /\ q.pc \notin {"idle", "reply"} /\ jar' = jar
  BY DEF Worthless, Restless, Parts, TypeOK, At, ReadSession, ListSessions, ListInfo, DevList,
         DevRevoke, SlideInfo, SlideCreate, SlideRevoke, SignInUser, SignInCreate
<1>2. ASSUME NEW p, Step(r, p), Mild(p, q) PROVE RefusalsSound'
  BY <1>1, <1>2, MildStep
<1>h. /\ Mild(Answer(q, "ok"), q) /\ Mild(Answer(q, "kept"), q)
      /\ \A t : Mild(Answer(SetCookies(q, t), "ok"), q)
      /\ Mild(Fail(q, "SuperTokens"), q)
      /\ q.ep # "refresh" => \A e : Mild(Fail(q, e), q)
  BY <1>1, HelpersMild
<1>3. CASE ReadSession(r) \/ DevRevoke(r)
  <2>1. q.ep # "refresh"
    BY <1>3 DEF ReadSession, DevRevoke, At
  <2> QED BY <1>2, <1>3, <1>h, <2>1 DEF ReadSession, DevRevoke
<1>4. CASE ListSessions(r)
  <2>1. ASSUME NEW hs PROVE Mild([Await(q, "dev_info") EXCEPT !.hs = hs, !.todo = hs], q)
    BY <1>1 DEF Mild, SameCookies, Await, Request
  <2> QED BY <1>2, <1>4, <1>h, <2>1 DEF ListSessions
<1>5. CASE ListInfo(r)
  <2>1. ASSUME NEW td, NEW sh
        PROVE  /\ Mild([q EXCEPT !.todo = td, !.shown = sh], q)
               /\ Mild(Answer([q EXCEPT !.todo = td, !.shown = sh], "ok"), q)
    BY <1>1, <1>5 DEF Mild, SameCookies, Answer, Request, ListInfo, At
  <2> DEFINE Read(h) == [q EXCEPT !.todo = @ \ {h},
                                  !.shown = IF Alive(h) THEN @ \cup {h} ELSE @]
  <2>2. ASSUME NEW h, Step(r, Read(h)) PROVE RefusalsSound'
    BY <1>2, <2>1, <2>2
  <2>3. ASSUME NEW h, Step(r, Answer(Read(h), "ok")) PROVE RefusalsSound'
    BY <1>2, <2>1, <2>3
  <2> QED BY <1>2, <1>5, <1>h, <2>2, <2>3 DEF ListInfo
<1>6. CASE DevList(r)
  <2>1. ASSUME NEW hs PROVE Mild([Await(q, "dev_revoke") EXCEPT !.hs = hs], q)
    BY <1>1 DEF Mild, SameCookies, Await, Request
  <2>2. q.ep # "refresh"
    BY <1>6 DEF DevList, At
  <2> QED BY <1>2, <1>6, <1>h, <2>1, <2>2 DEF DevList
<1>7. CASE SlideInfo(r)
  <2>1. ASSUME NEW d PROVE Mild([Await(q, "create") EXCEPT !.fp = d], q)
    BY <1>1 DEF Mild, SameCookies, Await, Request
  <2> QED BY <1>2, <1>7, <1>h, <2>1 DEF SlideInfo
<1>8. CASE SlideCreate(r)
  <2>1. ASSUME NEW t PROVE Mild([Await(q, "drop_old") EXCEPT !.tok = t], q)
    BY <1>1 DEF Mild, SameCookies, Await, Request
  <2> QED BY <1>2, <1>8, <1>h, <2>1 DEF SlideCreate
<1>9. CASE SlideRevoke(r)
  BY <1>2, <1>9, <1>h DEF SlideRevoke
<1>10. CASE SignInUser(r)
  <2>1. ASSUME NEW u PROVE Mild([Await(q, "si_create") EXCEPT !.user = u, !.fp = q.b], q)
    BY <1>1 DEF Mild, SameCookies, Await, Request
  <2>2. q.ep # "refresh"
    BY <1>10 DEF SignInUser, At
  <2> QED BY <1>2, <1>10, <1>h, <2>1, <2>2 DEF SignInUser
<1>11. CASE SignInCreate(r)
  BY <1>2, <1>11, <1>h DEF SignInCreate
<1> QED BY <1>3, <1>4, <1>5, <1>6, <1>7, <1>8, <1>9, <1>10, <1>11

\* Logoff clears cookies that may be good: it is asked to.
LEMMA LogoffRefusals ==
  ASSUME Worthless, TypeOK', [Next]_vars, NEW r \in Requests,
         LogoffLocal(r) \/ LogoffVerify(r) \/ LogoffRevoke(r)
  PROVE  RefusalsSound'
<1> DEFINE q == req[r]
           c == ClearCookies(q)
           p == Answer(c, "ok")
<1>1. /\ q \in Request /\ q.pc \notin {"idle", "reply"} /\ q.ep = "logoff" /\ jar' = jar
  BY DEF Worthless, Restless, Parts, TypeOK, At, LogoffLocal, LogoffVerify, LogoffRevoke
<1>2. CASE Step(r, Answer(q, "kept"))
  BY <1>1, <1>2, HelpersMild, MildStep
<1>3. CASE Step(r, [Await(q, "lo_revoke") EXCEPT !.hs = {q.acc.h}])
  <2>1. \A hs : Mild([Await(q, "lo_revoke") EXCEPT !.hs = hs], q)
    BY <1>1 DEF Mild, SameCookies, Await, Request
  <2> QED BY <1>1, <1>3, <2>1, MildStep
<1>4. CASE Step(r, p)
  <2>1. /\ c \in Request /\ SameCookies(c, q)
        /\ "acc" \in c.rm => q.acc # NoToken
        /\ "ref" \in c.rm => q.ref # NoToken
    BY <1>1, ClearCookiesTyped, ClearCookiesRemoves
  <2> HIDE DEF c
  <2>2. SameCookies(p, c) /\ p.rm = c.rm /\ p.pc = "reply"
    BY <2>1 DEF Answer, SameCookies, Request
  <2> HIDE DEF p
  <2>3. p.b = q.b /\ p.waited = q.waited /\ \A f : RefusalSound(p, f, sessions', now')
    BY <1>1, <2>1, <2>2 DEF RefusalSound, SameCookies
  <2> QED BY <1>1, <1>4, <2>3, RefusalStep
<1> QED BY <1>2, <1>3, <1>4 DEF LogoffLocal, LogoffVerify, LogoffRevoke

\* There is no refresh cookie only when the browser has none that it may still show.
LEMMA MissingRefusals ==
  ASSUME Worthless, TypeOK', [Next]_vars, NEW r \in Requests, RefreshMissing(r)
  PROVE  RefusalsSound'
<1> DEFINE q == req[r]
           p == Fail(q, "RefreshTokenMissing")
<1>1. /\ q \in Request /\ q.pc = "handler" /\ q.ep = "refresh" /\ jar' = jar
      /\ Step(r, p) /\ RefreshCookie(q) = NoToken
  BY DEF Worthless, Restless, Parts, TypeOK, At, RefreshMissing
<1>2. SameCookies(p, q) /\ p.rm = q.rm
  BY <1>1 DEF SameCookies, Fail, Answer, Request
<1> HIDE DEF p
<1>3. ASSUME NEW b \in Browsers, r \in Waiting(b)
      PROVE  RefusalSound(p, jar[b].ref, sessions', now')
  <2>1. /\ RefusalSound(q, jar[b].ref, sessions', now')
        /\ q.ref \in {NoToken, jar[b].ref}
    BY <1>3, RefusalFacts
  <2>2. Spent(jar[b].ref, sessions', now')
    BY <1>1, <2>1 DEF RefusalSound, Gone, Spent, RefreshCookie
  <2> QED BY <1>1, <1>2, <2>1, <2>2 DEF RefusalSound, SameCookies
<1> QED BY <1>1, <1>2, <1>3, RefusalStep DEF SameCookies

\* The core refuses an awaited refresh only because the session is gone: it would
\* take the token of a session that is alive for good.
LEMMA RefreshRefusals ==
  ASSUME Worthless, TypeOK', [Next]_vars, NEW r \in Requests, RefreshCall(r)
  PROVE  RefusalsSound'
<1> DEFINE q == req[r]
           t == q.ref
           c == ClearCookies(q)
<1>1. /\ q \in Request /\ q.pc = "handler" /\ q.ep = "refresh" /\ jar' = jar /\ now' = now
      /\ t # NoToken
  BY DEF Worthless, Restless, Parts, TypeOK, At, RefreshCall, RefreshCookie
<1>2. CASE Step(r, Fail(q, "SuperTokens")) \/ Step(r, Answer(SetCookies(q, NextTokens(t)), "ok"))
  BY <1>1, <1>2, HelpersMild, MildStep
<1>3. CASE Step(r, [Await(q, "info") EXCEPT !.hs = {t.h}, !.user = sessions[t.h].user])
  <2>1. \A hs, u : Mild([Await(q, "info") EXCEPT !.hs = hs, !.user = u], q)
    BY <1>1 DEF Mild, SameCookies, Await, Request
  <2> QED BY <1>1, <1>3, <2>1, MildStep
<1>4. ASSUME RefreshStatus(t) # "OK", sessions' = sessions, NEW e, Step(r, Fail(c, e))
      PROVE  RefusalsSound'
  <2> DEFINE p == Fail(c, e)
  <2>1. /\ c \in Request /\ SameCookies(c, q)
        /\ "acc" \in c.rm => q.acc # NoToken
        /\ "ref" \in c.rm => q.ref # NoToken
    BY <1>1, ClearCookiesTyped, ClearCookiesRemoves
  <2> HIDE DEF c
  <2>2. SameCookies(p, c) /\ p.rm = c.rm
    BY <2>1 DEF Fail, Answer, SameCookies, Request
  <2> HIDE DEF p
  <2>3. ASSUME NEW b \in Browsers, r \in Waiting(b)
        PROVE  RefusalSound(p, jar[b].ref, sessions', now')
    <3>1. jar[b].ref = t /\ ClearedSound(q, sessions, now)
      BY <1>1, <2>3, RefusalFacts
    <3>2. sessions[t.h].conf \in {t.n, t.p}
      BY <1>1, <3>1 DEF Worthless, LineInv, AwaitedConfirmed, Awaited
    <3>3. ~AliveAt(t.h, sessions', now')
      BY <1>1, <1>4, <3>2 DEF RefreshStatus, Alive, AliveAt
    <3>4. q.acc # NoToken => q.acc.h = t.h
      BY <1>1, <3>1 DEF ClearedSound
    <3> QED BY <2>1, <2>2, <3>1, <3>3, <3>4 DEF RefusalSound, SameCookies, Gone, Spent
  <2>4. p.b = q.b /\ p.waited = q.waited
    BY <2>1, <2>2 DEF SameCookies
  <2>5. Step(r, p)
    BY <1>4 DEF p
  <2> QED BY <1>1, <2>3, <2>4, <2>5, RefusalStep
<1> QED BY <1>2, <1>3, <1>4 DEF RefreshCall

\* A step after which browsers wait only for requests they waited for before.
LEMMA RefusalsRest ==
  ASSUME Worthless, TypeOK', [Next]_vars,
         \A b \in Browsers : \A x \in Waiting(b)' :
           x \in Waiting(b) /\ req'[x] = req[x] /\ jar'[b] = jar[b]
  PROVE  RefusalsSound'
<1>1. ASSUME NEW b \in Browsers, NEW x \in Waiting(b)'
      PROVE  RefusalSound(req'[x], jar'[b].ref, sessions', now')
  <2>1. x \in Waiting(b) /\ req'[x] = req[x] /\ jar'[b] = jar[b]
    BY <1>1
  <2>2. RefusalSound(req[x], jar[b].ref, sessions', now')
    BY <2>1, RefusalFacts
  <2> QED BY <2>1, <2>2
<1> QED BY <1>1 DEF RefusalsSound

\* The browser keeps back a refresh cookie whose last second has begun, and no other.
LEMMA SendRefusals ==
  ASSUME OneTab, Worthless, TypeOK', [Next]_vars, NEW r \in Requests,
         NEW b0 \in Browsers, NEW ep \in Endpoints, Send(r, b0, ep)
  PROVE  RefusalsSound'
<1>1. PICK p : /\ Step(r, p) /\ p.b = b0 /\ p.ep = ep /\ p.rm = {}
               /\ p.ref \in SentRefresh(b0, ep)
               /\ p.pc \in {"verify", "handler"} \/ ep \in Protected
  BY SentFacts DEF Worthless, Restless
<1>2. /\ req'[r] = p /\ \A x \in Requests : x # r => req'[x] = req[x]
      /\ jar' = jar /\ sessions' = sessions /\ now' = now
  BY <1>1 DEF Step, Send, Worthless, Restless, Parts, TypeOK
<1>3. RefusalSound(p, jar[b0].ref, sessions', now')
  <2>1. p.ep = "refresh" => p.pc # "reply"
    BY <1>1 DEF Protected
  <2>2. p.ep = "refresh" /\ p.ref = NoToken => Spent(jar[b0].ref, sessions, now)
    BY <1>1 DEF SentRefresh, LastSecond, Spent
  <2> QED BY <1>1, <1>2, <2>1, <2>2 DEF RefusalSound
<1>4. ASSUME NEW b \in Browsers, NEW x \in Waiting(b)'
      PROVE  RefusalSound(req'[x], jar'[b].ref, sessions', now')
  <2>1. CASE x = r
    <3>1. b = b0
      BY <1>1, <1>2, <1>4, <2>1 DEF Waiting
    <3> QED BY <1>2, <1>3, <2>1, <3>1
  <2>2. CASE x # r
    <3>1. x \in Waiting(b) /\ req'[x] = req[x]
      BY <1>2, <1>4, <2>2 DEF Waiting
    <3>2. RefusalSound(req[x], jar[b].ref, sessions', now')
      BY <3>1, RefusalFacts
    <3> QED BY <1>2, <3>1, <3>2
  <2> QED BY <2>1, <2>2
<1> QED BY <1>4 DEF RefusalsSound

LEMMA RestRefusals ==
  ASSUME Worthless, TypeOK', [Next]_vars,
         (\E r \in Requests : Deliver(r) \/ Abandon(r) \/ Drop(r)) \/ Tick \/ UNCHANGED vars
  PROVE  RefusalsSound'
<1>t. req \in [Requests -> Request] /\ \A r \in Requests : req[r] \in Request
  BY DEF Worthless, Restless, Parts, TypeOK
<1>1. ASSUME NEW r \in Requests, Deliver(r) PROVE RefusalsSound'
  <2>1. /\ req'[r] = Idle /\ \A x \in Requests : x # r => req'[x] = req[x]
        /\ req[r].pc = "reply" /\ req[r].waited
    BY <1>1, <1>t DEF Deliver, Step
  <2>2. \A b \in Browsers : b # req[r].b => jar'[b] = jar[b]
    BY <1>1 DEF Deliver, Worthless, Restless, Parts, TypeOK
  <2>3. ASSUME NEW b \in Browsers, NEW x \in Waiting(b)'
        PROVE  x \in Waiting(b) /\ req'[x] = req[x] /\ jar'[b] = jar[b]
    <3>1. x # r /\ x \in Requests
      BY <2>1, <2>3 DEF Waiting, Idle
    <3>2. x \in Waiting(b) /\ req'[x] = req[x]
      BY <2>1, <2>3, <3>1 DEF Waiting
    <3>3. b # req[r].b
      <4> SUFFICES ASSUME b = req[r].b PROVE FALSE
        OBVIOUS
      <4>1. r \in Waiting(b)
        BY <2>1 DEF Waiting
      <4> QED BY <3>1, <3>2, <4>1 DEF Worthless, LineInv, OneAwaited
    <3> QED BY <2>2, <3>2, <3>3
  <2> QED BY <2>3, RefusalsRest
<1>2. ASSUME NEW r \in Requests, Abandon(r) \/ Drop(r) PROVE RefusalsSound'
  <2>1. /\ \A x \in Requests : x # r => req'[x] = req[x]
        /\ req'[r].pc = "idle" \/ ~req'[r].waited
    <3>1. CASE Abandon(r)
      BY <1>t, <3>1 DEF Abandon, Step, Request
    <3>2. CASE Drop(r)
      BY <1>t, <3>2 DEF Drop, Step, Idle
    <3> QED BY <1>2, <3>1, <3>2
  <2>2. jar' = jar
    BY <1>2 DEF Abandon, Drop
  <2>3. ASSUME NEW b \in Browsers, NEW x \in Waiting(b)'
        PROVE  x \in Waiting(b) /\ req'[x] = req[x] /\ jar'[b] = jar[b]
    BY <2>1, <2>2, <2>3 DEF Waiting
  <2> QED BY <2>3, RefusalsRest
<1>3. CASE Tick \/ UNCHANGED vars
  <2>1. jar' = jar /\ req' = req
    BY <1>3 DEF Tick, vars
  <2>2. ASSUME NEW b \in Browsers, NEW x \in Waiting(b)'
        PROVE  x \in Waiting(b) /\ req'[x] = req[x] /\ jar'[b] = jar[b]
    BY <2>1, <2>2 DEF Waiting
  <2> QED BY <2>2, RefusalsRest
<1> QED BY <1>1, <1>2, <1>3

LEMMA NextRefusals ==
  ASSUME OneTab, NoRestart, Worthless, TypeOK', [Next]_vars
  PROVE  RefusalsSound'
<1>1. ASSUME NEW r \in Requests, Serve(r) PROVE RefusalsSound'
  BY <1>1, MwRefusals, MildRefusals, MissingRefusals, RefreshRefusals, LogoffRefusals DEF Serve
<1>2. ASSUME NEW r \in Requests, NEW b \in Browsers, NEW ep \in Endpoints, Send(r, b, ep)
      PROVE  RefusalsSound'
  BY <1>2, SendRefusals
<1> QED BY <1>1, <1>2, RestRefusals DEF Next, Client, Restart, NoRestart

LEMMA WorthlessInvariant ==
  ASSUME OneTab, NoRestart
  PROVE  Spec => []Worthless
<1>1. Init => Worthless
  <2>1. Init => Mirrored /\ Cleared
    BY DEF Init, Mirrored, Cleared, ClearedSound, Idle, Unused
  <2>2. Init => RefusalsSound
    BY DEF Init, RefusalsSound, Waiting, Idle
  <2> QED BY <2>1, <2>2, InitSound, InitActors, InitLine DEF Restless, Worthless
<1>2. Worthless /\ [Next]_vars => Worthless'
  <2> SUFFICES ASSUME Worthless, [Next]_vars PROVE Worthless'
    OBVIOUS
  <2>1. Parts' /\ Actors' /\ TypeOK' /\ LineInv'
    BY NextSound, NextActors, NextTyped, NextLine DEF Worthless, Restless, Parts
  <2>2. Mirrored' /\ Cleared'
    BY <2>1, NextMirrored, NextCleared DEF Worthless, Restless
  <2>3. RefusalsSound'
    BY <2>1, NextRefusals
  <2> QED BY <2>1, <2>2, <2>3 DEF Worthless, Restless
<1> QED BY <1>1, <1>2, PTL DEF Spec

-----------------------------------------------------------------------------
(* A slide hands the new session over: where no browser gives a request up *)
(* and the server is not restarted, the tokens of the replacement wait for *)
(* the browser from the moment its old session is removed.                 *)

Patient == Faults \cap {"abandon", "restart"} = {}

\* Only a removed session has a killer.
KillersSound == \A h \in Handles : hist[h].killer # "none" => sessions[h].st = "removed"

\* Of a request, when hs says what removed the sessions.
HandsSound(q, hs) ==
  /\ q.pc # "idle" => q.waited
  /\ q.tok # NoToken => q.pc # "idle" /\ hs[q.tok.h].killer # "refresh"
  /\ q.pc = "drop_old" => q.tok # NoToken /\ q.tok.h # q.ref.h

Handing == \A r \in Requests : HandsSound(req[r], hist)

Handover == Parts /\ Actors /\ LineInv /\ KillersSound /\ Handing /\ SlideHandsOver

\* What a step may do to the killers: it names one for a session that it removes,
\* and a refresh is named by a slide that drops its old session.
LEMMA NextKillers ==
  ASSUME Parts, [Next]_vars, NEW h \in Handles
  PROVE  \/ hist'[h].killer = hist[h].killer
         \/ /\ sessions'[h].st = "removed"
            /\ hist'[h].killer = "refresh" =>
                 \E r \in Requests : SlideRevoke(r) /\ h = req[r].ref.h
<1>t. /\ TypeOK /\ hist[h].killer \in Routes \cup {"none"}
      /\ \A r \in Requests : req[r] \in Request /\ RequestSound(req[r], sessions, now)
  BY DEF Parts, TypeOK
<1>1. ASSUME NEW r \in Requests, Revoke(req[r]) \/ RevokeFails(req[r])
      PROVE  \/ hist'[h].killer = hist[h].killer
             \/ /\ sessions'[h].st = "removed" /\ h \in req[r].hs
                /\ hist'[h].killer = req[r].ep
  <2>1. CASE Revoke(req[r])
    <3>1. CASE h \in req[r].hs /\ sessions[h].st = "live"
      <4>1. sessions'[h] = [sessions[h] EXCEPT !.st = "removed"] /\ sessions[h] \in Session
        BY <1>t, <2>1, <3>1 DEF Revoke, Removed, TypeOK
      <4>2. hist'[h] = [hist[h] EXCEPT !.killer = req[r].ep]
        BY <2>1, <3>1 DEF Revoke, Killed
      <4>3. sessions'[h].st = "removed"
        BY <4>1 DEF Session
      <4>4. hist'[h].killer = req[r].ep
        BY <1>t, <4>2 DEF TypeOK
      <4> QED BY <3>1, <4>3, <4>4
    <3>2. CASE ~(h \in req[r].hs /\ sessions[h].st = "live")
      BY <2>1, <3>2 DEF Revoke, Killed
    <3> QED BY <3>1, <3>2
  <2>2. CASE UNCHANGED <<sessions, hist>>
    BY <2>2
  <2> QED BY <1>1, <2>1, <2>2 DEF RevokeFails
<1>2. ASSUME NEW r \in Requests, DevRevoke(r) \/ LogoffRevoke(r)
      PROVE  \/ hist'[h].killer = hist[h].killer
             \/ sessions'[h].st = "removed" /\ hist'[h].killer # "refresh"
  <2>1. req[r].ep # "refresh"
    BY <1>2 DEF DevRevoke, LogoffRevoke, At
  <2>2. Revoke(req[r]) \/ RevokeFails(req[r])
    BY <1>2 DEF DevRevoke, LogoffRevoke
  <2> QED BY <1>1, <2>1, <2>2
<1>3. ASSUME NEW r \in Requests, SlideRevoke(r)
      PROVE  \/ hist'[h].killer = hist[h].killer
             \/ sessions'[h].st = "removed" /\ h = req[r].ref.h
  <2>1. req[r].hs = {req[r].ref.h} /\ (Revoke(req[r]) \/ RevokeFails(req[r]))
    BY <1>t, <1>3 DEF SlideRevoke, At, RequestSound
  <2> QED BY <1>1, <2>1
<1>4. ASSUME NEW r \in Requests, SlideCreate(r) PROVE hist'[h].killer = hist[h].killer
  <2>1. hist[h] \in [from : Handles \cup {None}, killer : Routes \cup {"none"}]
    BY <1>t DEF TypeOK
  <2>2. \A old : [hist[h] EXCEPT !.from = old].killer = hist[h].killer
    BY <2>1
  <2>3. ASSUME NEW g, NEW old, hist' = [hist EXCEPT ![g].from = old]
        PROVE  hist'[h].killer = hist[h].killer
    <3>1. hist'[h] = hist[h] \/ hist'[h] = [hist[h] EXCEPT !.from = old]
      BY <1>t, <2>3 DEF TypeOK
    <3> QED BY <2>2, <3>1
  <2> QED BY <1>4, <2>3 DEF SlideCreate
<1>5. ASSUME NEW r \in Requests,
             \/ MwVerify(r) \/ MwLookup(r) \/ ReadSession(r) \/ ListSessions(r) \/ ListInfo(r)
             \/ DevList(r) \/ RefreshMissing(r) \/ RefreshCall(r) \/ SlideInfo(r)
             \/ LogoffLocal(r) \/ LogoffVerify(r) \/ SignInUser(r) \/ SignInCreate(r)
             \/ Client(r)
      PROVE  hist' = hist
  BY <1>5 DEF MwVerify, MwLookup, ReadSession, ListSessions, ListInfo, DevList, RefreshMissing,
              RefreshCall, SlideInfo, LogoffLocal, LogoffVerify, SignInUser, SignInCreate,
              Client, Send, Deliver, Abandon, Drop
<1>6. Restart \/ Tick \/ UNCHANGED vars => hist' = hist
  BY DEF Restart, Tick, vars
<1> QED BY <1>2, <1>3, <1>4, <1>5, <1>6 DEF Next, Serve

LEMMA NextKillersSound ==
  ASSUME Parts, TypeOK', KillersSound, [Next]_vars
  PROVE  KillersSound'
<1>1. ASSUME NEW h \in Handles, hist'[h].killer # "none" PROVE sessions'[h].st = "removed"
  <2>1. CASE hist'[h].killer = hist[h].killer
    BY <1>1, <2>1, NextAges DEF KillersSound, Ages
  <2> QED BY <2>1, NextKillers
<1> QED BY <1>1 DEF KillersSound

\* What one request holds does not lose its session to another request's slide.
LEMMA HandsKept ==
  ASSUME Handover, [Next]_vars, NEW r \in Requests
  PROVE  req[r].tok # NoToken => hist'[req[r].tok.h].killer # "refresh"
<1> SUFFICES ASSUME req[r].tok # NoToken, hist'[req[r].tok.h].killer = "refresh"
             PROVE  FALSE
  OBVIOUS
<1> DEFINE h == req[r].tok.h
<1>1. /\ req[r].pc # "idle" /\ hist[h].killer # "refresh"
      /\ req[r] \in Request /\ req[r].b \in Browsers /\ h \in Handles
  <2>1. req[r].pc # "idle" /\ hist[h].killer # "refresh"
    BY DEF Handover, Handing, HandsSound
  <2>2. req[r] \in Request /\ req[r].b \in Browsers
    BY <2>1 DEF Handover, Parts, TypeOK, Request, Actors, ActorSound
  <2>3. h \in Handles
    BY <2>2, CookieTyped, NoTokenFacts
  <2> QED BY <2>1, <2>2, <2>3
<1>2. PICK x \in Requests : SlideRevoke(x) /\ h = req[x].ref.h
  BY <1>1, NextKillers DEF Handover
<1>3. x # r
  BY <1>2 DEF Handover, Handing, HandsSound, SlideRevoke, At
<1>4. req[x].pc = "drop_old" /\ req[x].b \in Browsers /\ req[x].ref # NoToken
  BY <1>2 DEF SlideRevoke, At, Handover, Parts, TypeOK, Request, Actors, ActorSound, RequestSound
<1>5. req[r].tok \in Held(req[r].b) /\ req[x].ref \in Held(req[x].b)
  BY <1>4 DEF Held, Carried, RequestsOf
<1>6. req[r].b = req[x].b
  BY <1>1, <1>2, <1>4, <1>5 DEF Handover, LineInv, OneHolder
<1>7. r \in Waiting(req[r].b) /\ x \in Waiting(req[r].b)
  BY <1>1, <1>4, <1>6 DEF Waiting, Handover, Handing, HandsSound
<1> QED BY <1>1, <1>3, <1>7 DEF Handover, LineInv, OneAwaited

\* The server's step: it may name new tokens, and a slide drops the old session.
LEMMA ServeHands ==
  ASSUME Handover, TypeOK', KillersSound', [Next]_vars, NEW r \in Requests, Serve(r)
  PROVE  Handing'
<1> DEFINE q == req[r]
<1>1. PICK p : Step(r, p) /\ Keeps(p, q)
  BY ServeKeeps DEF Handover, Parts
<1>2. /\ req'[r] = p /\ \A x \in Requests : x # r => req'[x] = req[x]
      /\ p.pc # "idle" /\ SameCookies(p, q)
  BY <1>1 DEF Step, Handover, Parts, TypeOK, Keeps
<1>3. /\ q \in Request /\ q.pc # "idle" /\ RequestSound(q, sessions, now)
      /\ \A x \in Requests : HandsSound(req[x], hist)
      /\ sessions \in [Handles -> Session] /\ now \in Nat
  BY ServeBusy DEF Handover, Parts, TypeOK, Handing
<1>4. ASSUME IssuesFirst(q, p)
      PROVE  /\ p.tok # NoToken /\ hist'[p.tok.h].killer # "refresh"
             /\ p.tok.h # q.ref.h
  <2>1. PICK h \in Fresh :
            \E u, d : sessions' = Created(h, u, d) /\ p.tok = FirstTokens(h)
    BY <1>4 DEF IssuesFirst
  <2>2. h \in Handles /\ sessions[h].st = "unused" /\ sessions'[h].st = "live"
    BY <1>3, <2>1 DEF Fresh, Created
  <2>3. p.tok.h = h /\ p.tok # NoToken /\ hist'[h].killer # "refresh"
    BY <2>1, <2>2, CoreAssumption DEF FirstTokens, NoToken, KillersSound
  <2>4. q.ref.h # h
    <3>1. CASE q.ref = NoToken
      BY <2>2, <3>1, CoreAssumption DEF NoToken
    <3>2. CASE q.ref # NoToken
      BY <1>3, <2>2, <3>2 DEF RequestSound, Known
    <3> QED BY <3>1, <3>2
  <2> QED BY <2>3, <2>4
<1>5. ASSUME IssuesNext(q, p) PROVE hist'[p.tok.h].killer # "refresh"
  <2>1. /\ q.ref \in Token /\ q.ref.h \in Handles /\ p.tok.h = q.ref.h
        /\ sessions[q.ref.h].st = "live" /\ sessions' = Refreshed(q.ref)
    <3>1. q.ref \in Token /\ q.ref.h \in Handles
      BY <1>3, <1>5, CookieTyped, NoTokenFacts DEF IssuesNext
    <3> QED BY <1>5, <3>1 DEF IssuesNext, NextTokens, RefreshStatus, Alive
  <2>2. sessions'[q.ref.h].st = "live"
    BY <1>3, <1>5, <2>1 DEF Refreshed, Session
  <2> QED BY <2>1, <2>2 DEF KillersSound
<1>6. HandsSound(p, hist')
  <2>1. p.waited
    BY <1>2, <1>3 DEF HandsSound, SameCookies
  <2>2. p.tok # NoToken => hist'[p.tok.h].killer # "refresh"
    BY <1>1, <1>4, <1>5, HandsKept DEF Keeps
  <2>3. p.pc = "drop_old" => p.tok # NoToken /\ p.tok.h # p.ref.h
    BY <1>1, <1>2, <1>4 DEF Keeps, SameCookies
  <2> QED BY <1>2, <2>1, <2>2, <2>3 DEF HandsSound
<1>7. ASSUME NEW x \in Requests, x # r PROVE HandsSound(req[x], hist')
  BY <1>3, <1>7, HandsKept DEF HandsSound
<1> QED BY <1>2, <1>6, <1>7 DEF Handing

LEMMA ClientHands ==
  ASSUME OneTab, Handover, TypeOK', [Next]_vars, NEW r \in Requests,
         Deliver(r) \/ \E b \in Browsers, ep \in Endpoints : Send(r, b, ep)
  PROVE  Handing'
<1>1. hist' = hist /\ \A x \in Requests : HandsSound(req[x], hist)
  BY DEF Deliver, Send, Handover, Handing
<1>2. \E p : Step(r, p) /\ HandsSound(p, hist)
  <2>1. CASE Deliver(r)
    <3>1. HandsSound(Idle, hist)
      BY DEF HandsSound, Idle
    <3> QED BY <2>1, <3>1 DEF Deliver
  <2>2. ASSUME NEW b \in Browsers, NEW ep \in Endpoints, Send(r, b, ep)
        PROVE  \E p : Step(r, p) /\ HandsSound(p, hist)
    <3>1. PICK p : /\ Step(r, p) /\ p.waited /\ p.tok = NoToken
                   /\ p.pc \in {"verify", "handler", "reply"}
      BY <2>2, SentFacts DEF Handover
    <3>2. HandsSound(p, hist)
      BY <3>1 DEF HandsSound
    <3> QED BY <3>1, <3>2
  <2> QED BY <2>1, <2>2
<1> QED BY <1>1, <1>2 DEF Handing, Step, Handover, Parts, TypeOK

\* Between its removal and the answer, the old session's browser waits for the new one.
LEMMA ServeHandsOver ==
  ASSUME Handover, TypeOK', [Next]_vars, NEW r \in Requests, Serve(r)
  PROVE  SlideHandsOver'
<1>1. PICK p : Step(r, p) /\ Keeps(p, req[r])
  BY ServeKeeps DEF Handover, Parts
<1>2. /\ req'[r] = p /\ \A x \in Requests : x # r => req'[x] = req[x]
      /\ jar' = jar /\ req[r].pc # "reply" /\ SameCookies(p, req[r])
  <2>1. req[r].pc # "reply"
    BY DEF Serve, At, MwVerify, MwLookup, ReadSession, ListSessions, ListInfo, DevList,
           DevRevoke, RefreshMissing, RefreshCall, SlideInfo, SlideCreate, SlideRevoke,
           LogoffLocal, LogoffVerify, LogoffRevoke, SignInUser, SignInCreate
  <2> QED BY <1>1, <2>1, ServeKeeps DEF Step, Handover, Parts, TypeOK, Keeps
<1> DEFINE Hands(x, b) == /\ req[x].b = b /\ req[x].waited
                          /\ At(x, "reply", {"refresh"}) /\ req[x].tok # NoToken
<1>3. ASSUME NEW b \in Browsers, jar[b].ref # NoToken, hist'[jar[b].ref.h].killer = "refresh"
      PROVE  \E x \in Requests : /\ req'[x].b = b /\ req'[x].waited
                                 /\ req'[x].pc = "reply" /\ req'[x].ep = "refresh"
                                 /\ req'[x].tok # NoToken
  <2> DEFINE h == jar[b].ref.h
  <2>1. h \in Handles
    BY <1>3, NoTokenFacts DEF Handover, Parts, TypeOK
  <2>2. CASE hist[h].killer = "refresh"
    <3>1. PICK x \in Requests : Hands(x, b)
      BY <1>3, <2>2 DEF Handover, SlideHandsOver
    <3>2. x # r
      BY <1>2, <3>1 DEF At
    <3> QED BY <1>2, <3>1, <3>2 DEF At
  <2>3. CASE hist[h].killer # "refresh"
    <3>1. PICK x \in Requests : SlideRevoke(x) /\ h = req[x].ref.h
      BY <1>3, <2>1, <2>3, NextKillers DEF Handover
    <3>2. /\ req[x].pc = "drop_old" /\ req[x].ep = "refresh" /\ req[x].ref # NoToken
          /\ req[x] \in Request /\ req[x].b \in Browsers
          /\ req[x].waited /\ req[x].tok # NoToken
      BY <3>1 DEF SlideRevoke, At, Handover, Parts, TypeOK, Request, Actors, ActorSound,
                  RequestSound, Handing, HandsSound
    <3>3. req[x].b = b
      <4>1. req[x].ref \in Held(req[x].b) /\ jar[b].ref \in Held(b)
        BY <1>3, <3>2 DEF Held, Carried, RequestsOf
      <4> QED BY <3>1, <3>2, <4>1 DEF Handover, LineInv, OneHolder
    <3>4. LET a == Answer(SetCookies(req[x], req[x].tok), "ok")
          IN  SameCookies(a, req[x]) /\ a.pc = "reply" /\ a.tok = req[x].tok
      BY <3>2, HelpersKeep
    <3>5. req'[x] = Answer(SetCookies(req[x], req[x].tok), "ok")
      BY <3>1 DEF SlideRevoke, Step, Handover, Parts, TypeOK
    <3> QED BY <3>2, <3>3, <3>4, <3>5 DEF SameCookies
  <2> QED BY <2>2, <2>3
<1> QED BY <1>2, <1>3 DEF SlideHandsOver, At

\* The answer arrives, and the browser has the new session.
LEMMA DeliverHandsOver ==
  ASSUME Handover, TypeOK', NEW r \in Requests, Deliver(r)
  PROVE  SlideHandsOver'
<1> DEFINE q == req[r]
<1>1. q \in Request /\ q.pc = "reply" /\ q.waited /\ q.b \in Browsers /\ hist' = hist
  BY DEF Deliver, Handover, Parts, TypeOK, Request, Actors, ActorSound
<1>2. /\ req'[r] = Idle /\ \A x \in Requests : x # r => req'[x] = req[x]
      /\ jar'[q.b] = Received(jar[q.b], q)
      /\ \A b \in Browsers : b # q.b => jar'[b] = jar[b]
  BY <1>1 DEF Deliver, Step, Handover, Parts, TypeOK
<1>3. ASSUME NEW b \in Browsers, jar'[b].ref # NoToken, hist[jar'[b].ref.h].killer = "refresh"
      PROVE  \E x \in Requests : /\ req'[x].b = b /\ req'[x].waited
                                 /\ req'[x].pc = "reply" /\ req'[x].ep = "refresh"
                                 /\ req'[x].tok # NoToken
  <2>1. q.tok # NoToken => hist[q.tok.h].killer # "refresh"
    BY DEF Handover, Handing, HandsSound
  <2>2. jar'[b].ref = jar[b].ref /\ (b = q.b => q.tok = NoToken)
    <3>1. CASE b = q.b
      BY <1>2, <1>3, <2>1, <3>1 DEF Received
    <3>2. CASE b # q.b
      BY <1>2, <3>2
    <3> QED BY <3>1, <3>2
  <2>3. PICK x \in Requests : /\ req[x].b = b /\ req[x].waited
                              /\ At(x, "reply", {"refresh"}) /\ req[x].tok # NoToken
    BY <1>3, <2>2 DEF Handover, SlideHandsOver
  <2>4. x # r
    BY <2>2, <2>3
  <2> QED BY <1>2, <2>3, <2>4 DEF At
<1> QED BY <1>1, <1>3 DEF SlideHandsOver, At

LEMMA NextHandover ==
  ASSUME OneTab, Patient, Handover, [Next]_vars
  PROVE  Handover'
<1>1. Parts' /\ Actors' /\ TypeOK' /\ LineInv'
  BY NextSound, NextActors, NextTyped, NextLine DEF Handover, Parts
<1>2. KillersSound'
  BY <1>1, NextKillersSound DEF Handover
<1>3. ~Restart /\ \A r \in Requests : ~Abandon(r) /\ ~Drop(r)
  BY DEF Restart, Abandon, Drop, Patient, Handover, Handing, HandsSound
<1>4. ASSUME NEW r \in Requests, Serve(r) PROVE Handing' /\ SlideHandsOver'
  BY <1>1, <1>2, <1>4, ServeHands, ServeHandsOver
<1>5. ASSUME NEW r \in Requests, Deliver(r) PROVE Handing' /\ SlideHandsOver'
  BY <1>1, <1>5, ClientHands, DeliverHandsOver
<1>6. ASSUME NEW r \in Requests, NEW b \in Browsers, NEW ep \in Endpoints, Send(r, b, ep)
      PROVE  Handing' /\ SlideHandsOver'
  <2>1. Handing'
    BY <1>1, <1>6, ClientHands
  <2>2. /\ jar' = jar /\ hist' = hist /\ req[r].pc = "idle"
        /\ \A x \in Requests : x # r => req'[x] = req[x]
    BY <1>6 DEF Send, Step, Handover, Parts, TypeOK
  <2>3. SlideHandsOver'
    <3> SUFFICES ASSUME NEW c \in Browsers, jar[c].ref # NoToken,
                        hist[jar[c].ref.h].killer = "refresh"
                 PROVE  \E x \in Requests : /\ req'[x].b = c /\ req'[x].waited
                                            /\ req'[x].pc = "reply" /\ req'[x].ep = "refresh"
                                            /\ req'[x].tok # NoToken
      BY <2>2 DEF SlideHandsOver, At
    <3>1. PICK x \in Requests : /\ req[x].b = c /\ req[x].waited
                                /\ At(x, "reply", {"refresh"}) /\ req[x].tok # NoToken
      BY DEF Handover, SlideHandsOver
    <3> QED BY <2>2, <3>1 DEF At
  <2> QED BY <2>1, <2>3
<1>7. ASSUME Tick \/ UNCHANGED vars PROVE Handing' /\ SlideHandsOver'
  <2>1. jar' = jar /\ req' = req /\ hist' = hist
    BY <1>7 DEF Tick, vars
  <2>2. Handing'
    BY <2>1 DEF Handover, Handing
  <2>3. SlideHandsOver'
    BY <2>1 DEF Handover, SlideHandsOver, At
  <2> QED BY <2>2, <2>3
<1>8. Handing' /\ SlideHandsOver'
  <2>1. ASSUME NEW r \in Requests, Client(r) PROVE Handing' /\ SlideHandsOver'
    <3>1. Deliver(r) \/ \E b \in Browsers, ep \in Endpoints : Send(r, b, ep)
      BY <1>3, <2>1 DEF Client
    <3> QED BY <1>5, <1>6, <3>1
  <2>2. (\E r \in Requests : Serve(r) \/ Client(r)) \/ Tick \/ UNCHANGED vars
    BY <1>3 DEF Next
  <2> QED BY <1>4, <1>7, <2>1, <2>2
<1> QED BY <1>1, <1>2, <1>8 DEF Handover

LEMMA InitHandover == Init => Handover
<1>1. Init => KillersSound /\ Handing /\ SlideHandsOver
  BY DEF Init, KillersSound, Handing, HandsSound, SlideHandsOver, Idle
<1> QED BY <1>1, InitSound, InitActors, InitLine DEF Handover

-----------------------------------------------------------------------------
(* The theorems.                                                           *)

\* The line of tokens: a browser's refresh cookie is the newest token it can show,
\* and the core has confirmed that token or its parent.
THEOREM LineInvariance ==
  ASSUME OneTab
  PROVE  Spec => []LineInv
BY OneTabInductive, PTL

\* Whatever answers are lost and however often a browser retries, the core takes its
\* refresh cookie (refresh_session, the arm of TokenTheftDetected is for others).
THEOREM NeverTakenForThief ==
  ASSUME OneTab
  PROVE  Spec => []RefreshCookieAccepted
<1>1. LineInv => RefreshCookieAccepted
  <2> SUFFICES ASSUME LineInv, NEW b \in Browsers, jar[b].ref # NoToken, Alive(jar[b].ref.h)
               PROVE  RefreshStatus(jar[b].ref) = "OK"
    BY DEF RefreshCookieAccepted
  <2>1. jar[b].ref \in Awaited(b)
    BY DEF Awaited
  <2> QED BY <2>1 DEF LineInv, AwaitedConfirmed, RefreshStatus
<1> QED BY <1>1, LineInvariance, PTL

\* An answer that asks for a new signin is the truth: no failed call and no lost
\* answer turns a browser away from a session that is alive (api_refresh_handler),
\* before the second in which it ends.
THEOREM RefusalIsFinal ==
  ASSUME OneTab, NoRestart
  PROVE  Spec => []RefusedRefreshIsFinal
<1>1. Worthless => RefusedRefreshIsFinal
  <2> SUFFICES ASSUME Worthless, NEW r \in Requests, At(r, "reply", {"refresh"}),
                      req[r].waited, req[r].out \in Unauthorized, jar[req[r].b].ref # NoToken
               PROVE  \/ ~Alive(jar[req[r].b].ref.h)
                      \/ LastSecond(jar[req[r].b].ref.h)
    BY DEF RefusedRefreshIsFinal
  <2>1. req[r].b \in Browsers /\ r \in Waiting(req[r].b)
    BY DEF Worthless, Restless, Parts, TypeOK, Request, Actors, ActorSound, At, Waiting
  <2>2. RefusalSound(req[r], jar[req[r].b].ref, sessions, now)
    BY <2>1 DEF Worthless, RefusalsSound
  <2> QED BY <2>2 DEF RefusalSound, Spent, At, Alive, AliveAt, LastSecond
<1> QED BY <1>1, WorthlessInvariant, PTL

\* A browser loses a cookie to an answer other than logoff's only when its session is
\* gone: the resolver and the refresh handler never sign anybody out by mistake.
THEOREM CookiesDroppedDead ==
  ASSUME OneTab, NoRestart
  PROVE  Spec => OnlyDeadCookiesDropped
<1> DEFINE Dropped(b, k) == jar[b][k] # NoToken /\ jar'[b][k] = NoToken
           Excused(b, k) ==
             \/ ~Alive(jar[b][k].h)
             \/ \E r \in Requests : At(r, "reply", {"logoff"}) /\ req'[r].pc = "idle"
<1>1. ASSUME Worthless, [Next]_vars, NEW b \in Browsers, NEW k \in {"acc", "ref"}, Dropped(b, k)
      PROVE  Excused(b, k)
  <2>1. PICK r \in Requests : Deliver(r)
    <3>1. ASSUME NEW r \in Requests, Serve(r) PROVE jar' = jar
      BY <1>1, <3>1, ServeKeeps DEF Worthless, Restless, Parts
    <3>2. ASSUME NEW r \in Requests, Client(r), ~Deliver(r) PROVE jar' = jar
      BY <3>2 DEF Client, Send, Abandon, Drop
    <3>3. jar' # jar
      BY <1>1
    <3>4. ~Restart /\ ~Tick /\ ~UNCHANGED vars
      BY <3>3 DEF Restart, Tick, vars
    <3> QED BY <1>1, <3>1, <3>2, <3>3, <3>4 DEF Next
  <2> DEFINE q == req[r]
  <2>2. /\ q \in Request /\ q.pc = "reply" /\ q.waited /\ req'[r] = Idle
        /\ \A x \in Browsers : x # q.b => jar'[x] = jar[x]
        /\ q.b = b => jar'[b] = Received(jar[b], q)
    BY <1>1, <2>1 DEF Deliver, Step, Worthless, Restless, Parts, TypeOK
  <2>3. q.b = b
    BY <1>1, <2>2
  <2>4. r \in Waiting(b)
    BY <2>2, <2>3 DEF Waiting
  <2>5. /\ RefusalSound(q, jar[b].ref, sessions, now)
        /\ q.acc \in {NoToken, jar[b].acc} /\ q.ref \in {NoToken, jar[b].ref}
    BY <1>1, <2>4 DEF Worthless, RefusalsSound, LineInv, CookiesCurrent
  <2>6. CASE q.ep = "logoff"
    BY <2>2, <2>6 DEF At, Idle
  <2>7. CASE q.ep # "logoff"
    <3>1. jar'[b][k] = Received(jar[b], q)[k]
      BY <2>2, <2>3
    <3>2. k \in q.rm
      <4>1. CASE k = "acc"
        BY <1>1, <3>1, <4>1 DEF Received
      <4>2. CASE k = "ref"
        BY <1>1, <3>1, <4>2 DEF Received
      <4> QED BY <4>1, <4>2
    <3>3. q[k] # NoToken /\ Gone(q[k], sessions, now) /\ q[k] = jar[b][k]
      <4>1. Gone(q.acc, sessions, now) /\ Gone(q.ref, sessions, now)
        BY <2>5, <2>7, <3>2 DEF RefusalSound
      <4>2. CASE k = "acc"
        BY <2>5, <3>2, <4>1, <4>2 DEF RefusalSound
      <4>3. CASE k = "ref"
        BY <2>5, <3>2, <4>1, <4>3 DEF RefusalSound
      <4> QED BY <4>2, <4>3
    <3> QED BY <3>3 DEF Gone, Alive, AliveAt
  <2> QED BY <2>6, <2>7
<1>2. Worthless /\ [Next]_vars =>
        [\A b \in Browsers, k \in {"acc", "ref"} : Dropped(b, k) => Excused(b, k)]_vars
  BY <1>1
<1> QED BY <1>2, WorthlessInvariant, PTL DEF Spec, OnlyDeadCookiesDropped

\* Sliding the refresh window never loses the browser: from the moment its session is
\* removed the answer with the new one is on its way (slide_window_if_needed creates
\* first and revokes last), whatever calls fail in between.
THEOREM SlideCompletes ==
  ASSUME OneTab, Patient
  PROVE  Spec => []SlideHandsOver
<1>1. Handover /\ [Next]_vars => Handover'
  BY NextHandover
<1>2. Handover => SlideHandsOver
  BY DEF Handover
<1> QED BY <1>1, <1>2, InitHandover, PTL DEF Spec

=============================================================================
