--------------------------- MODULE CookieProofs ---------------------------
(***************************************************************************)
(* What a browser's cookies are worth, for any numbers of everything else: *)
(* proofs about AuthSessions that need some of the faults not to occur.    *)
(* Each theorem says which.                                                *)
(***************************************************************************)
EXTENDS AuthSessionsProofs, FiniteSetTheorems

-----------------------------------------------------------------------------
(* The server is not restarted: every session's user has a row, and the    *)
(* resolver clears the cookies of dead sessions only.                      *)

NoRestart == "restart" \notin Faults

\* The users with a session, or about to get one, are in the mirror.
Mirrored ==
  /\ \A h \in Handles : sessions[h].st # "unused" => sessions[h].user \in mirror
  /\ \A r \in Requests : req[r].pc = "si_create" => req[r].user \in mirror

\* What the resolver, and an answered logoff, say of the session of a request.
ClearedSound(q, s, n) ==
  /\ q.acc # NoToken /\ q.ref # NoToken => q.acc.h = q.ref.h
  /\ q.pc \in {"verify", "lookup"} => q.rm = {}
  /\ q.pc = "handler" /\ q.rm # {} => q.acc # NoToken /\ ~AliveAt(q.acc.h, s, n)
  /\ q.pc = "reply" /\ q.ep = "logoff" /\ q.out = "ok" /\ q.acc # NoToken
       /\ "call" \notin Faults =>
       ~AliveAt(q.acc.h, s, n) \/ n >= q.acc.aexp

Cleared == \A r \in Requests : ClearedSound(req[r], sessions, now)

LEMMA ClearedAging ==
  ASSUME NEW q \in Request, NEW s \in [Handles -> Session], NEW s2 \in [Handles -> Session],
         NEW n \in Nat, NEW n2 \in Nat, Ages(s, n, s2, n2),
         RequestSound(q, s, n), ClearedSound(q, s, n)
  PROVE  ClearedSound(q, s2, n2)
<1>1. q.acc # NoToken => q.acc.h \in Handles /\ s[q.acc.h].st # "unused" /\ q.acc.aexp \in Nat
  BY CookieTyped, NoTokenFacts DEF RequestSound, Known, Token
<1>2. ASSUME q.acc # NoToken, ~AliveAt(q.acc.h, s, n) PROVE ~AliveAt(q.acc.h, s2, n2)
  <2>1. s[q.acc.h].exp \in Nat
    BY <1>1, <1>2 DEF Session
  <2> QED BY <1>1, <1>2, <2>1 DEF Ages, AliveAt
<1>3. q.acc # NoToken /\ n >= q.acc.aexp => n2 >= q.acc.aexp
  BY <1>1 DEF Ages
<1> QED BY <1>2, <1>3 DEF ClearedSound

Restless == Parts /\ Mirrored /\ Cleared

LEMMA ClearedFacts ==
  ASSUME Restless, TypeOK', [Next]_vars, NEW r \in Requests
  PROVE  /\ req[r] \in Request /\ RequestSound(req[r], sessions, now)
         /\ ClearedSound(req[r], sessions, now)
         /\ ClearedSound(req[r], sessions', now')
<1>1. /\ req[r] \in Request /\ RequestSound(req[r], sessions, now)
      /\ ClearedSound(req[r], sessions, now)
  BY DEF Restless, Parts, TypeOK, Cleared
<1>2. /\ sessions \in [Handles -> Session] /\ sessions' \in [Handles -> Session]
      /\ now \in Nat /\ now' \in Nat /\ Ages(sessions, now, sessions', now')
  BY NextAges DEF Restless, Parts, TypeOK
<1> QED BY <1>1, <1>2, ClearedAging

LEMMA ClearedStep ==
  ASSUME Restless, TypeOK', [Next]_vars, NEW r \in Requests, NEW p, Step(r, p),
         ClearedSound(p, sessions', now')
  PROVE  Cleared'
<1>1. ASSUME NEW x \in Requests
      PROVE  ClearedSound(req'[x], sessions', now')
  <2>1. CASE x = r
    BY <2>1 DEF Step, Restless, Parts, TypeOK
  <2>2. CASE x # r
    BY <2>2, ClearedFacts DEF Step, Restless, Parts, TypeOK
  <2> QED BY <2>1, <2>2
<1> QED BY <1>1 DEF Cleared

\* A request that goes on past the resolver with the same cookies.
LEMMA ClearedMoves ==
  ASSUME Restless, TypeOK', [Next]_vars, NEW r \in Requests, NEW p, Step(r, p),
         p.acc = req[r].acc, p.ref = req[r].ref,
         p.pc \notin {"verify", "lookup", "handler"},
         p.pc # "reply" \/ p.ep # "logoff" \/ p.out # "ok"
  PROVE  Cleared'
<1>1. ClearedSound(p, sessions', now')
  BY ClearedFacts DEF ClearedSound
<1> QED BY <1>1, ClearedStep

LEMMA EnterCleared ==
  ASSUME Restless, TypeOK', [Next]_vars, NEW r \in Requests, NEW c \in Request,
         Step(r, Enter(c)), c.acc = req[r].acc, c.ref = req[r].ref,
         c.rm # {} => c.acc # NoToken /\ ~AliveAt(c.acc.h, sessions', now')
  PROVE  Cleared'
<1> DEFINE p == Enter(c)
<1>1. p.acc = c.acc /\ p.ref = c.ref
  BY EnterFields DEF SameButPc
<1>2. p.rm = c.rm
  BY DEF Enter, Fail, Answer, Await, Request
<1>3. p.pc = "handler" \/ (p.pc = "reply" /\ p.out # "ok")
  BY EnterFields DEF ClientErrors, Unauthorized, Refusals
<1> HIDE DEF p
<1>4. ClearedSound(p, sessions', now')
  BY <1>1, <1>2, <1>3, ClearedFacts DEF ClearedSound
<1> QED BY <1>4, ClearedStep DEF p

LEMMA MwVerifyCleared ==
  ASSUME Restless, TypeOK', [Next]_vars, NEW r \in Requests, MwVerify(r)
  PROVE  Cleared'
<1> DEFINE q == req[r]
           c == ClearCookies(q)
<1>1. /\ q \in Request /\ ClearedSound(q, sessions, now) /\ q.rm = {} /\ q.pc = "verify"
      /\ ClearedSound(q, sessions', now') /\ q.acc \in Token \cup {NoToken}
      /\ now \in Nat /\ RequestSound(q, sessions, now)
  BY ClearedFacts, CookieTyped DEF MwVerify, ClearedSound, Restless, Parts, TypeOK
<1>2. CASE Step(r, Enter(q))
  BY <1>1, <1>2, EnterCleared
<1>3. CASE VerifyStatus(q.acc) = "UNAUTHORISED" /\ Step(r, Enter(c))
  <2>1. q.acc # NoToken /\ ~Alive(q.acc.h)
    BY <1>1, <1>3 DEF VerifyStatus, NoToken
  <2>2. c \in Request /\ c.acc = q.acc /\ c.ref = q.ref
    BY <1>1, ClearCookiesTyped, ClearCookiesFields DEF SameButPc
  <2>3. ~AliveAt(q.acc.h, sessions', now')
    <3>1. q.acc.h \in Handles /\ sessions[q.acc.h].exp \in Nat /\ sessions[q.acc.h].st # "unused"
      BY <1>1, <2>1, NoTokenFacts DEF Restless, Parts, TypeOK, Session, RequestSound, Known
    <3>2. Ages(sessions, now, sessions', now') /\ now' \in Nat
      BY NextAges DEF Restless, TypeOK
    <3> QED BY <2>1, <3>1, <3>2, <1>1 DEF Ages, AliveAt, Alive
  <2> QED BY <1>3, <2>1, <2>2, <2>3, EnterCleared
<1>4. CASE Step(r, Await(q, "lookup"))
  <2> DEFINE p == Await(q, "lookup")
  <2>1. p.pc = "lookup" /\ p.acc = q.acc /\ p.ref = q.ref /\ p.rm = {}
    BY <1>1 DEF Await, Request
  <2> HIDE DEF p
  <2>2. ClearedSound(p, sessions', now')
    BY <1>1, <2>1 DEF ClearedSound
  <2> QED BY <1>4, <2>2, ClearedStep DEF p
<1>5. VerifyStatus(q.acc) \in {"OK", "TRY_REFRESH_TOKEN", "UNAUTHORISED"}
  BY DEF VerifyStatus
<1> QED BY <1>2, <1>3, <1>4, <1>5 DEF MwVerify, Resolved

\* The user of a session that was verified is found: nothing is cleared for it.
LEMMA MwLookupCleared ==
  ASSUME Restless, Actors, TypeOK', [Next]_vars, NEW r \in Requests, MwLookup(r)
  PROVE  Cleared'
<1> DEFINE q == req[r]
           u == sessions[q.acc.h].user
           w == [q EXCEPT !.ctx = q.acc.h, !.user = u]
<1>1. q \in Request /\ ClearedSound(q, sessions, now) /\ q.rm = {} /\ q.pc = "lookup"
  BY ClearedFacts DEF MwLookup, ClearedSound
<1>2. q.acc # NoToken /\ q.acc.h \in Handles /\ sessions[q.acc.h].st # "unused"
  BY <1>1, CookieTyped, NoTokenFacts
  DEF Restless, Parts, RequestSound, Known, Actors, ActorSound
<1>3. u \in mirror
  BY <1>2 DEF Restless, Mirrored
<1>4. CASE Step(r, Enter(q))
  BY <1>1, <1>4, EnterCleared
<1>5. CASE Step(r, Enter(w))
  <2>1. u \in Users \cup {None} /\ q.acc.h \in Handles \cup {None}
    BY <1>2, <1>3 DEF Restless, Parts, TypeOK
  <2>2. w \in Request
    <3> HIDE DEF q, u
    <3> QED BY <1>1, <2>1, TwoFieldsTyped
  <2>3. w.acc = q.acc /\ w.ref = q.ref /\ w.rm = {}
    BY <1>1 DEF Request
  <2> HIDE DEF w
  <2> QED BY <1>5, <2>2, <2>3, EnterCleared
<1> QED BY <1>3, <1>4, <1>5 DEF MwLookup

\* A handler's answer, whatever it does to the cookies.
LEMMA AnswerCleared ==
  ASSUME Restless, TypeOK', [Next]_vars, NEW r \in Requests, NEW out,
         \/ Step(r, Answer(req[r], out)) \/ Step(r, Answer(ClearCookies(req[r]), out))
         \/ \E t : Step(r, Answer(SetCookies(req[r], t), out)),
         req[r].ep # "logoff" \/ out # "ok"
  PROVE  Cleared'
<1> DEFINE q == req[r]
<1>1. q \in Request
  BY ClearedFacts
<1>2. ASSUME NEW p \in {Answer(q, out), Answer(ClearCookies(q), out)}
      PROVE  p.acc = q.acc /\ p.ref = q.ref /\ p.ep = q.ep /\ p.pc = "reply" /\ p.out = out
  BY <1>1 DEF Answer, ClearCookies, Request
<1>3. \A t : LET p == Answer(SetCookies(q, t), out)
             IN  p.acc = q.acc /\ p.ref = q.ref /\ p.ep = q.ep /\ p.pc = "reply" /\ p.out = out
  BY <1>1 DEF Answer, SetCookies, Request
<1> QED BY <1>2, <1>3, ClearedMoves

LEMMA FailCleared ==
  ASSUME Restless, TypeOK', [Next]_vars, NEW r \in Requests, NEW e,
         Step(r, Fail(req[r], e)) \/ Step(r, Fail(ClearCookies(req[r]), e))
  PROVE  Cleared'
<1>1. ClientError(e) # "ok"
  BY ClientErrorTyped DEF ClientErrors, Unauthorized, Refusals
<1> QED BY <1>1, AnswerCleared DEF Fail

\* An answered logoff: the session is revoked, or its token was of no use.
LEMMA LogoffCleared ==
  ASSUME Restless, Actors, TypeOK', [Next]_vars, NEW r \in Requests,
         LogoffLocal(r) \/ LogoffVerify(r) \/ LogoffRevoke(r)
  PROVE  Cleared'
<1> DEFINE q == req[r]
           p == Answer(ClearCookies(q), "ok")
<1>1. /\ q \in Request /\ ClearedSound(q, sessions, now) /\ ClearedSound(q, sessions', now')
      /\ RequestSound(q, sessions, now) /\ RequestSound(q, sessions', now')
      /\ now \in Nat /\ Ages(sessions, now, sessions', now')
  BY ClearedFacts, NextAges, Aging DEF Restless, Parts, TypeOK
<1>2. /\ p.acc = q.acc /\ p.ref = q.ref /\ p.ep = q.ep /\ p.pc = "reply" /\ p.out = "ok"
  BY <1>1 DEF Answer, ClearCookies, Request
<1>3. q.acc # NoToken => q.acc.h \in Handles /\ sessions[q.acc.h].st # "unused"
  BY <1>1, CookieTyped, NoTokenFacts DEF RequestSound, Known
<1>4. ASSUME Step(r, p),
             q.acc # NoToken /\ "call" \notin Faults =>
               ~AliveAt(q.acc.h, sessions', now') \/ now' >= q.acc.aexp
      PROVE  Cleared'
  <2> HIDE DEF p
  <2>1. ClearedSound(p, sessions', now')
    BY <1>1, <1>2, <1>4 DEF ClearedSound
  <2> QED BY <1>4, <2>1, ClearedStep
<1>5. CASE LogoffLocal(r)
  <2>1. CASE Step(r, Answer(q, "kept"))
    BY <2>1, AnswerCleared
  <2>2. CASE AccessCookie(q) = NoToken /\ Step(r, p)
    <3>1. q.acc # NoToken => ~AliveAt(q.acc.h, sessions', now')
      BY <1>1, <1>5, <2>2 DEF ClearedSound, AccessCookie, LogoffLocal, At
    <3> QED BY <1>4, <2>2, <3>1
  <2> QED BY <1>5, <2>1, <2>2 DEF LogoffLocal
<1>6. CASE LogoffVerify(r)
  <2>1. CASE VerifyStatus(q.acc) = "OK" /\ Step(r, [Await(q, "lo_revoke") EXCEPT !.hs = {q.acc.h}])
    <3> DEFINE a == Await(q, "lo_revoke")
               w == [a EXCEPT !.hs = {q.acc.h}]
    <3>1. SameButPc(a, q) /\ a.pc = "lo_revoke" /\ a \in Request
      BY <1>1, AwaitFields, AwaitTyped DEF Pcs
    <3>2. w.pc = "lo_revoke" /\ w.acc = q.acc /\ w.ref = q.ref
      <4> HIDE DEF a
      <4> QED BY <3>1 DEF Request, SameButPc
    <3> HIDE DEF w
    <3> QED BY <2>1, <3>2, ClearedMoves DEF w
  <2>2. CASE VerifyStatus(q.acc) # "OK" /\ Step(r, p) /\ "call" \notin Faults
    <3>1. now' = now /\ sessions' = sessions
      BY <1>6, <2>2 DEF LogoffVerify, Verified, CallFails
    <3>2. ~AliveAt(q.acc.h, sessions', now') \/ now' >= q.acc.aexp
      BY <2>2, <3>1 DEF VerifyStatus, Alive, AliveAt
    <3> QED BY <1>4, <2>2, <3>2
  <2>3. CASE "call" \in Faults /\ Step(r, p)
    BY <1>4, <2>3
  <2> QED BY <1>6, <2>1, <2>2, <2>3 DEF LogoffVerify, CallFails
<1>7. CASE LogoffRevoke(r)
  <2>1. q.hs = {q.acc.h} /\ Step(r, p) /\ q.acc # NoToken /\ now' = now
    BY <1>1, <1>7 DEF LogoffRevoke, At, RequestSound, Actors, ActorSound
  <2>2. CASE Revoke(q)
    <3>1. sessions'[q.acc.h].st = "removed"
      BY <1>1, <1>3, <2>1, <2>2, RevokeAges DEF Restless, Parts
    <3> QED BY <1>4, <2>1, <3>1 DEF AliveAt
  <2>3. CASE "call" \in Faults
    BY <1>4, <2>1, <2>3
  <2> QED BY <1>7, <2>2, <2>3 DEF LogoffRevoke, RevokeFails
<1> QED BY <1>5, <1>6, <1>7

LEMMA SendCleared ==
  ASSUME Restless, TypeOK', [Next]_vars, NEW r \in Requests,
         NEW b \in Browsers, NEW ep \in Endpoints, Send(r, b, ep)
  PROVE  Cleared'
<1>1. PICK a \in SentAccess(b), f \in SentRefresh(b, ep) :
        LET q == Sent(b, ep, a, f)
        IN  Step(r, IF a = NoToken THEN Enter(q) ELSE q)
  BY DEF Send
<1> DEFINE q == Sent(b, ep, a, f)
<1>2. q \in Request
  BY <1>1, SentTyped DEF Restless, Parts
<1>3. q.acc # NoToken /\ q.ref # NoToken => q.acc.h = q.ref.h
  <2>1. a \in {jar[b].acc, NoToken} /\ f \in {jar[b].ref, NoToken}
    BY DEF SentAccess, SentRefresh
  <2> QED BY <2>1 DEF Sent, Restless, Parts, JarSound
<1>4. q.pc = "verify" /\ q.rm = {}
  BY DEF Sent
<1> HIDE DEF q
<1>5. ClearedSound(q, sessions', now')
  BY <1>3, <1>4 DEF ClearedSound
<1>6. CASE Step(r, q)
  BY <1>5, <1>6, ClearedStep
<1>7. CASE Step(r, Enter(q))
  <2> DEFINE p == Enter(q)
  <2>1. p.acc = q.acc /\ p.ref = q.ref
    BY <1>2, EnterFields DEF SameButPc
  <2>2. p.rm = {}
    BY <1>2, <1>4 DEF Enter, Fail, Answer, Await, Request
  <2>3. p.pc = "handler" \/ (p.pc = "reply" /\ p.out # "ok")
    BY <1>2, EnterFields DEF ClientErrors, Unauthorized, Refusals
  <2> HIDE DEF p
  <2>4. ClearedSound(p, sessions', now')
    BY <1>3, <2>1, <2>2, <2>3 DEF ClearedSound
  <2> QED BY <1>7, <2>4, ClearedStep DEF p
<1> QED BY <1>1, <1>6, <1>7 DEF q

LEMMA NextCleared ==
  ASSUME NoRestart, Restless, Actors, TypeOK', [Next]_vars
  PROVE  Cleared'
<1>f. ASSUME NEW r \in Requests
      PROVE  req[r] \in Request /\ ClearedSound(req[r], sessions', now')
  BY ClearedFacts
<1>1. ASSUME NEW r \in Requests, MwVerify(r) \/ MwLookup(r) PROVE Cleared'
  BY <1>1, MwVerifyCleared, MwLookupCleared
<1>2. ASSUME NEW r \in Requests,
             ReadSession(r) \/ RefreshMissing(r) \/ DevRevoke(r) \/ SlideRevoke(r)
      PROVE  Cleared'
  <2>1. req[r].ep # "logoff"
    BY <1>2 DEF ReadSession, RefreshMissing, DevRevoke, SlideRevoke, At
  <2> QED BY <1>2, <2>1, AnswerCleared, FailCleared
      DEF ReadSession, RefreshMissing, DevRevoke, SlideRevoke
<1>3. ASSUME NEW r \in Requests, LogoffLocal(r) \/ LogoffVerify(r) \/ LogoffRevoke(r)
      PROVE  Cleared'
  BY <1>3, LogoffCleared
<1>4. ASSUME NEW r \in Requests, NEW b \in Browsers, NEW ep \in Endpoints, Send(r, b, ep)
      PROVE  Cleared'
  BY <1>4, SendCleared
<1>5. ASSUME NEW r \in Requests,
             \/ ListSessions(r) \/ ListInfo(r) \/ DevList(r) \/ RefreshCall(r)
             \/ SlideInfo(r) \/ SlideCreate(r) \/ SignInUser(r) \/ SignInCreate(r)
      PROVE  Cleared'
  <2> DEFINE q == req[r]
  <2>1. q \in Request /\ q.ep # "logoff"
    BY <1>5, <1>f DEF ListSessions, ListInfo, DevList, RefreshCall, SlideInfo, SlideCreate,
                      SignInUser, SignInCreate, At
  <2>2. ASSUME NEW out, \/ Step(r, Answer(q, out)) \/ Step(r, Answer(ClearCookies(q), out))
                        \/ \E t : Step(r, Answer(SetCookies(q, t), out))
        PROVE  Cleared'
    BY <2>1, <2>2, AnswerCleared
  <2>4. ASSUME NEW e, Step(r, Fail(q, e)) \/ Step(r, Fail(ClearCookies(q), e))
        PROVE  Cleared'
    BY <2>4, FailCleared
  <2>5. CASE ListSessions(r)
    <3> DEFINE p == [Await(q, "dev_info") EXCEPT !.hs = HandlesOf(q.user), !.todo = HandlesOf(q.user)]
    <3>1. p.pc = "dev_info" /\ p.acc = q.acc /\ p.ref = q.ref
      BY <2>1 DEF Await, Request
    <3> QED BY <2>1, <2>2, <2>4, <2>5, <3>1, ClearedMoves DEF ListSessions
  <2>6. CASE ListInfo(r)
    <3> DEFINE Read(h) == [q EXCEPT !.todo = @ \ {h},
                                    !.shown = IF Alive(h) THEN @ \cup {h} ELSE @]
    <3>1. ASSUME NEW h PROVE Read(h).pc = q.pc /\ Read(h).acc = q.acc /\ Read(h).ref = q.ref
                             /\ Read(h).ep = q.ep
      BY <2>1 DEF Request
    <3>2. ASSUME NEW h, Step(r, Read(h)) PROVE Cleared'
      BY <2>1, <2>6, <3>1, <3>2, ClearedMoves DEF ListInfo, At
    <3>3. ASSUME NEW h, Step(r, Answer(Read(h), "ok")) PROVE Cleared'
      <4> DEFINE p == Answer(Read(h), "ok")
      <4>1. p.pc = "reply" /\ p.acc = q.acc /\ p.ref = q.ref /\ p.ep = q.ep
        BY <2>1 DEF Answer, Request
      <4> QED BY <2>1, <3>3, <4>1, ClearedMoves
    <3> QED BY <2>4, <2>6, <3>2, <3>3 DEF ListInfo
  <2>7. CASE DevList(r)
    <3>1. ASSUME NEW hs, Step(r, [Await(q, "dev_revoke") EXCEPT !.hs = hs]) PROVE Cleared'
      <4> DEFINE p == [Await(q, "dev_revoke") EXCEPT !.hs = hs]
      <4>1. p.pc = "dev_revoke" /\ p.acc = q.acc /\ p.ref = q.ref
        BY <2>1 DEF Await, Request
      <4> QED BY <3>1, <4>1, ClearedMoves
    <3> QED BY <2>2, <2>4, <2>7, <3>1 DEF DevList
  <2>8. CASE RefreshCall(r)
    <3> DEFINE p == [Await(q, "info") EXCEPT !.hs = {q.ref.h}, !.user = sessions[q.ref.h].user]
    <3>1. p.pc = "info" /\ p.acc = q.acc /\ p.ref = q.ref
      BY <2>1 DEF Await, Request
    <3> QED BY <2>2, <2>4, <2>8, <3>1, ClearedMoves DEF RefreshCall
  <2>9. CASE SlideInfo(r)
    <3>1. ASSUME NEW d, Step(r, [Await(q, "create") EXCEPT !.fp = d]) PROVE Cleared'
      <4> DEFINE p == [Await(q, "create") EXCEPT !.fp = d]
      <4>1. p.pc = "create" /\ p.acc = q.acc /\ p.ref = q.ref
        BY <2>1 DEF Await, Request
      <4> QED BY <3>1, <4>1, ClearedMoves
    <3> QED BY <2>4, <2>9, <3>1 DEF SlideInfo
  <2>10. CASE SlideCreate(r)
    <3>1. ASSUME NEW t, Step(r, [Await(q, "drop_old") EXCEPT !.tok = t]) PROVE Cleared'
      <4> DEFINE p == [Await(q, "drop_old") EXCEPT !.tok = t]
      <4>1. p.pc = "drop_old" /\ p.acc = q.acc /\ p.ref = q.ref
        BY <2>1 DEF Await, Request
      <4> QED BY <3>1, <4>1, ClearedMoves
    <3> QED BY <2>4, <2>10, <3>1 DEF SlideCreate
  <2>11. CASE SignInUser(r)
    <3>1. ASSUME NEW u, Step(r, [Await(q, "si_create") EXCEPT !.user = u, !.fp = q.b]) PROVE Cleared'
      <4> DEFINE p == [Await(q, "si_create") EXCEPT !.user = u, !.fp = q.b]
      <4>1. p.pc = "si_create" /\ p.acc = q.acc /\ p.ref = q.ref
        BY <2>1 DEF Await, Request
      <4> QED BY <3>1, <4>1, ClearedMoves
    <3> QED BY <2>4, <2>11, <3>1 DEF SignInUser
  <2>12. CASE SignInCreate(r)
    BY <2>2, <2>4, <2>12 DEF SignInCreate
  <2> QED BY <1>5, <2>5, <2>6, <2>7, <2>8, <2>9, <2>10, <2>11, <2>12
<1>6. ASSUME NEW r \in Requests, Deliver(r) \/ Drop(r) PROVE Cleared'
  <2>1. ClearedSound(Idle, sessions', now')
    BY DEF ClearedSound, Idle
  <2> QED BY <1>6, <2>1, ClearedStep DEF Deliver, Drop
<1>7. ASSUME NEW r \in Requests, Abandon(r) PROVE Cleared'
  <2> DEFINE p == [req[r] EXCEPT !.waited = FALSE]
  <2>1. /\ p.pc = req[r].pc /\ p.acc = req[r].acc /\ p.ref = req[r].ref /\ p.ep = req[r].ep
        /\ p.rm = req[r].rm /\ p.out = req[r].out
    BY <1>f DEF Request
  <2> HIDE DEF p
  <2>2. ClearedSound(p, sessions', now')
    BY <1>f, <2>1 DEF ClearedSound
  <2> QED BY <1>7, <2>2, ClearedStep DEF Abandon, p
<1>8. CASE Tick \/ UNCHANGED vars
  BY <1>8, <1>f DEF Tick, vars, Cleared
<1>9. ~Restart
  BY DEF Restart, NoRestart
<1> QED BY <1>1, <1>2, <1>3, <1>4, <1>5, <1>6, <1>7, <1>8, <1>9 DEF Next, Serve, Client

\* Only a signin waits for the session of a signin.
LEMMA SignInOnly ==
  ASSUME TypeOK, NEW r \in Requests, Serve(r), ~SignInUser(r)
  PROVE  \E p : Step(r, p) /\ p.pc # "si_create"
<1> DEFINE q == req[r]
<1>1. q \in Request /\ q.pc \in Pcs
  BY DEF TypeOK, Request
<1>2. ASSUME NEW out, NEW t
      PROVE  /\ Answer(q, out).pc = "reply" /\ Answer(ClearCookies(q), out).pc = "reply"
             /\ Answer(SetCookies(q, t), out).pc = "reply"
  BY <1>1 DEF Answer, ClearCookies, SetCookies, Request
<1>3. ASSUME NEW e
      PROVE  Fail(q, e).pc = "reply" /\ Fail(ClearCookies(q), e).pc = "reply"
  BY <1>2 DEF Fail
<1>4. ASSUME NEW c \in Request PROVE Enter(c).pc # "si_create"
  BY EnterFields
<1>5. CASE MwVerify(r)
  <2>1. Enter(q).pc # "si_create" /\ Enter(ClearCookies(q)).pc # "si_create"
    BY <1>1, <1>4, ClearCookiesTyped
  <2>2. Await(q, "lookup").pc # "si_create"
    BY <1>1, AwaitFields
  <2>3. Resolved(q, VerifyStatus(q.acc)).pc # "si_create"
    BY <2>1, <2>2 DEF Resolved, VerifyStatus
  <2> QED BY <1>5, <2>1, <2>3 DEF MwVerify
<1>6. CASE MwLookup(r)
  <2> DEFINE u == sessions[q.acc.h].user
             w == [q EXCEPT !.ctx = q.acc.h, !.user = u]
  <2>1. Enter(q).pc # "si_create" /\ Enter(ClearCookies(q)).pc # "si_create"
    BY <1>1, <1>4, ClearCookiesTyped
  <2>2. Enter(w).pc # "si_create"
    BY <1>1 DEF Enter, Fail, Answer, Await, Request
  <2> QED BY <1>6, <2>1, <2>2 DEF MwLookup
<1>7. CASE ReadSession(r) \/ RefreshMissing(r) \/ DevRevoke(r) \/ SlideRevoke(r)
  BY <1>2, <1>3, <1>7 DEF ReadSession, RefreshMissing, DevRevoke, SlideRevoke
<1>8. CASE SignInCreate(r)
  BY <1>2, <1>3, <1>8 DEF SignInCreate
<1>9. CASE ListSessions(r) \/ ListInfo(r)
  <2>1. ASSUME NEW hs
        PROVE  [Await(q, "dev_info") EXCEPT !.hs = hs, !.todo = hs].pc # "si_create"
    BY <1>1 DEF Await, Request
  <2>2. ASSUME NEW td, NEW sh, ListInfo(r)
        PROVE  /\ [q EXCEPT !.todo = td, !.shown = sh].pc # "si_create"
               /\ Answer([q EXCEPT !.todo = td, !.shown = sh], "ok").pc # "si_create"
    BY <1>1, <2>2 DEF Answer, Request, ListInfo, At
  <2>3. CASE ListSessions(r)
    BY <1>2, <1>3, <2>1, <2>3 DEF ListSessions
  <2>4. CASE ListInfo(r)
    BY <1>3, <2>2, <2>4 DEF ListInfo
  <2> QED BY <1>9, <2>3, <2>4
<1>10. CASE DevList(r) \/ LogoffVerify(r)
  <2>1. ASSUME NEW pc \in {"dev_revoke", "lo_revoke"}, NEW hs
        PROVE  [Await(q, pc) EXCEPT !.hs = hs].pc # "si_create"
    BY <1>1 DEF Await, Request
  <2>2. CASE DevList(r)
    BY <1>2, <1>3, <2>1, <2>2 DEF DevList
  <2>3. CASE LogoffVerify(r)
    BY <1>2, <2>1, <2>3 DEF LogoffVerify
  <2> QED BY <1>10, <2>2, <2>3
<1>11. CASE LogoffLocal(r) \/ LogoffRevoke(r)
  BY <1>2, <1>11 DEF LogoffLocal, LogoffRevoke
<1>12. CASE RefreshCall(r)
  <2>1. ASSUME NEW hs, NEW u
        PROVE  [Await(q, "info") EXCEPT !.hs = hs, !.user = u].pc # "si_create"
    BY <1>1 DEF Await, Request
  <2> QED BY <1>2, <1>3, <1>12, <2>1 DEF RefreshCall
<1>13. CASE SlideInfo(r)
  <2>1. ASSUME NEW d PROVE [Await(q, "create") EXCEPT !.fp = d].pc # "si_create"
    BY <1>1 DEF Await, Request
  <2> QED BY <1>3, <1>13, <2>1 DEF SlideInfo
<1>14. CASE SlideCreate(r)
  <2>1. ASSUME NEW t PROVE [Await(q, "drop_old") EXCEPT !.tok = t].pc # "si_create"
    BY <1>1 DEF Await, Request
  <2> QED BY <1>3, <1>14, <2>1 DEF SlideCreate
<1> QED
  BY <1>5, <1>6, <1>7, <1>8, <1>9, <1>10, <1>11, <1>12, <1>13, <1>14 DEF Serve

\* A session that comes into being is of a user in the mirror.
LEMMA NewSessionMirrored ==
  ASSUME Parts, Mirrored, TypeOK', [Next]_vars, NEW h \in Handles, sessions'[h].st # "unused"
  PROVE  sessions'[h].user \in mirror
<1>1. CASE sessions[h].st # "unused"
  BY <1>1, NextAges DEF Mirrored, Ages
<1>2. CASE sessions[h].st = "unused"
  <2>t. /\ sessions \in [Handles -> Session]
        /\ \A r \in Requests : req[r] \in Request /\ RequestSound(req[r], sessions, now)
    BY DEF Parts, TypeOK
  <2>1. ASSUME NEW r \in Requests, MwVerify(r) \/ LogoffVerify(r) PROVE FALSE
    BY <1>2, <2>1, <2>t, CookieTyped, NoTokenFacts
    DEF MwVerify, LogoffVerify, CallFails, Verified, Session
  <2>2. ASSUME NEW r \in Requests, RefreshCall(r) PROVE FALSE
    BY <1>2, <2>2, <2>t, CookieTyped DEF RefreshCall, CallFails, Refreshed, Session
  <2>3. ASSUME NEW r \in Requests, SlideCreate(r) PROVE sessions'[h].user \in mirror
    <3>1. req[r].user = sessions[req[r].ref.h].user /\ req[r].ref.h \in Handles
          /\ sessions[req[r].ref.h].st # "unused"
      BY <2>3, <2>t, CookieTyped DEF SlideCreate, At, RequestSound
    <3>2. \E g \in Fresh : sessions' \in {sessions, Created(g, req[r].user, req[r].fp)}
      BY <2>3 DEF SlideCreate
    <3> QED BY <1>2, <2>t, <3>1, <3>2 DEF Created, Fresh, Mirrored
  <2>4. ASSUME NEW r \in Requests, SignInCreate(r) PROVE sessions'[h].user \in mirror
    <3>1. req[r].user \in mirror
      BY <2>4 DEF SignInCreate, At, Mirrored
    <3>2. \E g \in Fresh : sessions' \in {sessions, Created(g, req[r].user, req[r].fp)}
      BY <2>4 DEF SignInCreate, CallFails
    <3> QED BY <1>2, <2>t, <3>1, <3>2 DEF Created, Fresh
  <2>5. ASSUME NEW r \in Requests, DevRevoke(r) \/ SlideRevoke(r) \/ LogoffRevoke(r) PROVE FALSE
    <3>1. sessions' \in {sessions, Removed(req[r].hs)}
      BY <2>5 DEF DevRevoke, SlideRevoke, LogoffRevoke, Revoke, RevokeFails
    <3> QED BY <1>2, <2>t, <3>1 DEF Removed
  <2>6. ASSUME NEW r \in Requests,
               \/ MwLookup(r) \/ ReadSession(r) \/ ListSessions(r) \/ ListInfo(r)
               \/ DevList(r) \/ RefreshMissing(r) \/ SlideInfo(r) \/ LogoffLocal(r)
               \/ SignInUser(r) \/ Client(r)
        PROVE  FALSE
    BY <1>2, <2>6 DEF MwLookup, ReadSession, ListSessions, ListInfo, DevList, RefreshMissing,
                SlideInfo, LogoffLocal, SignInUser, Client, Send, Deliver, Abandon, Drop
  <2>7. CASE Restart \/ Tick \/ UNCHANGED vars
    BY <1>2, <2>7 DEF Restart, Tick, vars
  <2> QED BY <2>1, <2>2, <2>3, <2>4, <2>5, <2>6, <2>7 DEF Next, Serve
<1> QED BY <1>1, <1>2

LEMMA NextMirrored ==
  ASSUME NoRestart, Parts, Mirrored, TypeOK', [Next]_vars
  PROVE  Mirrored'
<1>t. \A r \in Requests : req[r] \in Request
  BY DEF Parts, TypeOK
<1>1. mirror \subseteq mirror'
  <2>1. ASSUME NEW r \in Requests, SignInUser(r) PROVE mirror \subseteq mirror'
    BY <2>1 DEF SignInUser
  <2>2. ASSUME NEW r \in Requests, Serve(r), ~SignInUser(r) PROVE mirror' = mirror
    BY <2>2 DEF Serve, MwVerify, MwLookup, ReadSession, ListSessions, ListInfo, DevList, DevRevoke,
                RefreshMissing, RefreshCall, SlideInfo, SlideCreate, SlideRevoke,
                LogoffLocal, LogoffVerify, LogoffRevoke, SignInCreate
  <2>3. ASSUME NEW r \in Requests, Client(r) PROVE mirror' = mirror
    BY <2>3 DEF Client, Send, Deliver, Abandon, Drop
  <2> QED BY <2>1, <2>2, <2>3 DEF Next, Restart, NoRestart, Tick, vars
<1>2. ASSUME NEW x \in Requests, req'[x].pc = "si_create"
      PROVE  req'[x].user \in mirror'
  <2>1. ASSUME NEW r \in Requests, NEW p, Step(r, p), p.pc # "si_create"
        PROVE  req[x].pc = "si_create" /\ req'[x] = req[x]
    <3>1. x # r
      BY <1>2, <2>1 DEF Step, Parts, TypeOK
    <3> QED BY <1>2, <2>1, <3>1 DEF Step, Parts, TypeOK
  <2>2. ASSUME NEW r \in Requests, NEW p, Step(r, p), p.pc # "si_create"
        PROVE  req'[x].user \in mirror'
    BY <1>1, <2>1, <2>2 DEF Mirrored
  <2>3. ASSUME NEW r \in Requests, SignInUser(r) PROVE req'[x].user \in mirror'
    <3> DEFINE q == req[r]
    <3>1. ASSUME NEW e PROVE Fail(q, e).pc = "reply"
      BY <1>t, AnswerFields DEF Fail
    <3>2. ASSUME NEW u \in Users, mirror' = mirror \cup {u},
                 Step(r, [Await(q, "si_create") EXCEPT !.user = u, !.fp = q.b])
          PROVE  req'[x].user \in mirror'
      <4> DEFINE p == [Await(q, "si_create") EXCEPT !.user = u, !.fp = q.b]
      <4>1. p.user = u
        BY <1>t DEF Await, Request
      <4>2. CASE x = r
        BY <3>2, <4>1, <4>2 DEF Step, Parts, TypeOK
      <4>3. CASE x # r
        BY <1>1, <1>2, <3>2, <4>3 DEF Step, Parts, TypeOK, Mirrored
      <4> QED BY <4>2, <4>3
    <3> QED BY <2>2, <2>3, <3>1, <3>2 DEF SignInUser
  <2>4. ASSUME NEW r \in Requests, Serve(r), ~SignInUser(r) PROVE req'[x].user \in mirror'
    BY <2>2, <2>4, SignInOnly DEF Parts
  <2>5. ASSUME NEW r \in Requests, NEW b \in Browsers, NEW ep \in Endpoints, Send(r, b, ep)
        PROVE  req'[x].user \in mirror'
    <3>1. PICK a \in SentAccess(b), f \in SentRefresh(b, ep) :
            LET q == Sent(b, ep, a, f)
            IN  Step(r, IF a = NoToken THEN Enter(q) ELSE q)
      BY <2>5 DEF Send
    <3> DEFINE q == Sent(b, ep, a, f)
    <3>2. q.pc # "si_create" /\ Enter(q).pc # "si_create"
      BY DEF Sent, Enter, Fail, Answer, Await
    <3> QED BY <2>2, <3>1, <3>2
  <2>6. ASSUME NEW r \in Requests, Deliver(r) \/ Drop(r) PROVE req'[x].user \in mirror'
    BY <2>2, <2>6 DEF Deliver, Drop, Idle
  <2>7. ASSUME NEW r \in Requests, Abandon(r) PROVE req'[x].user \in mirror'
    <3>1. req'[x].pc = req[x].pc /\ req'[x].user = req[x].user
      BY <1>t, <2>7 DEF Abandon, Step, Parts, TypeOK, Request
    <3> QED BY <1>1, <1>2, <3>1 DEF Mirrored
  <2>8. CASE Tick \/ UNCHANGED vars
    BY <1>1, <1>2, <2>8 DEF Tick, vars, Mirrored
  <2> QED BY <2>3, <2>4, <2>5, <2>6, <2>7, <2>8 DEF Next, Client, Restart, NoRestart
<1>3. \A h \in Handles : sessions'[h].st # "unused" => sessions'[h].user \in mirror'
  BY <1>1, NewSessionMirrored
<1> QED BY <1>2, <1>3 DEF Mirrored

\* Without restarts, all of it holds in every reachable state.
LEMMA RestlessInvariant == NoRestart => (Spec => [](Restless /\ Actors))
<1> SUFFICES ASSUME NoRestart PROVE Spec => [](Restless /\ Actors)
  OBVIOUS
<1>1. Init => Restless /\ Actors
  <2>1. Init => Mirrored /\ Cleared
    BY DEF Init, Mirrored, Cleared, ClearedSound, Idle, Unused
  <2> QED BY <2>1, InitSound, InitActors DEF Restless
<1>2. Restless /\ Actors /\ [Next]_vars => (Restless /\ Actors)'
  <2> SUFFICES ASSUME Restless, Actors, [Next]_vars PROVE (Restless /\ Actors)'
    OBVIOUS
  <2>1. Parts' /\ Actors' /\ TypeOK'
    BY NextSound, NextActors, NextTyped DEF Restless, Parts
  <2>2. Mirrored' /\ Cleared'
    BY <2>1, NextMirrored, NextCleared DEF Restless
  <2> QED BY <2>1, <2>2 DEF Restless
<1> QED BY <1>1, <1>2, PTL DEF Spec

\* An answered logoff has ended the session whose access token it carried, unless
\* the token had expired (api_logoff_handler): where no call to the core fails and
\* the server is not restarted.  A failed call does break it: see LogoffFailureHarmless.
THEOREM LogoffEnds ==
  ASSUME Faults \cap {"call", "restart"} = {}
  PROVE  Spec => []LogoffEndsSession
<1>1. NoRestart /\ "call" \notin Faults
  BY DEF NoRestart
<1>2. Restless /\ Actors => LogoffEndsSession
  BY <1>1 DEF Restless, Cleared, ClearedSound, LogoffEndsSession, At, Alive, AliveAt
<1> QED BY <1>1, <1>2, RestlessInvariant, PTL

=============================================================================
