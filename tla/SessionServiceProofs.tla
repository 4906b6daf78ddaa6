----------------------- MODULE SessionServiceProofs -----------------------
(***************************************************************************)
(* AuthSessions implements SessionService: every step of the browsers, the *)
(* handlers and the core is, seen through the sessions and through whom    *)
(* each request acts as, a step the service promises, or none at all.      *)
(***************************************************************************)
EXTENDS AuthSessionsProofs

\* What the refinement mapping shows of a state.
Logins == [h \in Handles |-> LoginOf(sessions[h])]

Acting == [r \in Requests |-> ActsAs(req[r])]

Promised == [Service!Next]_(Service!vars)

-----------------------------------------------------------------------------
(* Seen through the mapping.                                               *)

\* Verifying and refreshing tokens shows in nothing the service speaks of.
LEMMA LoginsKept ==
  ASSUME \A h \in Handles : /\ sessions'[h].st = sessions[h].st
                            /\ sessions'[h].user = sessions[h].user
                            /\ sessions'[h].fp = sessions[h].fp
                            /\ sessions'[h].exp = sessions[h].exp
  PROVE  Logins' = Logins
BY DEF Logins, LoginOf

LEMMA VerifiedKeepsLogins ==
  ASSUME TypeOK, NEW t \in Token \cup {NoToken}, sessions' \in {sessions, Verified(t)}
  PROVE  Logins' = Logins
<1>1. \A h \in Handles : /\ Verified(t)[h].st = sessions[h].st
                         /\ Verified(t)[h].user = sessions[h].user
                         /\ Verified(t)[h].fp = sessions[h].fp
                         /\ Verified(t)[h].exp = sessions[h].exp
  BY DEF Verified, Session, TypeOK
<1> QED BY <1>1, LoginsKept

LEMMA RefreshedKeepsLogins ==
  ASSUME TypeOK, NEW t \in Token, sessions' \in {sessions, Refreshed(t)}
  PROVE  Logins' = Logins
<1>1. \A h \in Handles : /\ Refreshed(t)[h].st = sessions[h].st
                         /\ Refreshed(t)[h].user = sessions[h].user
                         /\ Refreshed(t)[h].fp = sessions[h].fp
                         /\ Refreshed(t)[h].exp = sessions[h].exp
  BY DEF Refreshed, Session, TypeOK
<1> QED BY <1>1, LoginsKept

LEMMA StepActs ==
  ASSUME TypeOK, NEW r \in Requests, NEW p, Step(r, p)
  PROVE  Acting' = [Acting EXCEPT ![r] = ActsAs(p)]
BY DEF Acting, Step, TypeOK

-----------------------------------------------------------------------------
(* The steps of the service.                                               *)

LEMMA Stutters ==
  ASSUME UNCHANGED now, Logins' = Logins, Acting' = Acting
  PROVE  Promised
BY DEF Promised, Service!vars, Logins, Acting

LEMMA Leaves ==
  ASSUME UNCHANGED now, Logins' = Logins, NEW R \in SUBSET Requests,
         Acting' = [r \in Requests |-> IF r \in R THEN None ELSE Acting[r]]
  PROVE  Promised
<1>1. Service!Leave(R)
  BY DEF Service!Leave, Logins, Acting
<1> QED BY <1>1 DEF Promised, Service!Next

LEMMA OneLeaves ==
  ASSUME UNCHANGED now, Logins' = Logins, NEW r \in Requests,
         Acting' = [Acting EXCEPT ![r] = None]
  PROVE  Promised
<1>1. Acting' = [x \in Requests |-> IF x \in {r} THEN None ELSE Acting[x]]
  BY DEF Acting
<1> QED BY <1>1, Leaves

LEMMA Admits ==
  ASSUME TypeOK, UNCHANGED now, Logins' = Logins, NEW r \in Requests, NEW h \in Handles,
         Alive(h), Acting' = [Acting EXCEPT ![r] = h]
  PROVE  Promised
<1>1. Service!Admit(r, h)
  BY DEF Service!Admit, Service!Lasts, Alive, Logins, Acting, LoginOf
<1> QED BY <1>1 DEF Promised, Service!Next

LEMMA SignsIn ==
  ASSUME TypeOK, UNCHANGED now, Acting' = Acting, NEW h \in Fresh, NEW u \in Users,
         NEW d \in Fingerprints, sessions' = Created(h, u, d)
  PROVE  Promised
<1>1. h \in Handles /\ sessions[h].st = "unused"
  BY DEF Fresh
<1>2. Logins' = [Logins EXCEPT ![h] = [st |-> "live", user |-> u, data |-> d,
                                       until |-> now + RefreshValidity]]
  BY <1>1 DEF Logins, LoginOf, Created, TypeOK
<1>3. Service!SignIn(h, u, d)
  BY <1>1, <1>2 DEF Service!SignIn, Service!Opened, Logins, Acting, LoginOf
<1> QED BY <1>1, <1>3 DEF Promised, Service!Next

LEMMA Replaces ==
  ASSUME TypeOK, UNCHANGED now, NEW r \in Requests, NEW h \in Fresh, NEW d \in Fingerprints \cup {None},
         NEW old \in Handles, Acting[r] = old,
         d = sessions[old].fp \/ (d = None /\ ~Alive(old)),
         sessions' = Created(h, sessions[old].user, d),
         Acting' = Acting \/ Acting' = [Acting EXCEPT ![r] = None]
  PROVE  Promised
<1>1. h \in Handles /\ sessions[h].st = "unused" /\ old # None
  BY CoreAssumption DEF Fresh
<1>2. Logins' = [Logins EXCEPT ![h] = [st |-> "live", user |-> sessions[old].user, data |-> d,
                                       until |-> now + RefreshValidity]]
  BY <1>1 DEF Logins, LoginOf, Created, TypeOK
<1>3. Service!Replace(r, h, d)
  BY <1>1, <1>2
  DEF Service!Replace, Service!Opened, Service!Lasts, Service!GoesOn, Alive, Logins,
      Acting, LoginOf
<1> QED BY <1>1, <1>3 DEF Promised, Service!Next

LEMMA Ends ==
  ASSUME TypeOK, UNCHANGED now, NEW r \in Requests, NEW hs \in SUBSET Handles,
         NEW self \in Handles, Acting[r] = self,
         \A h \in hs : sessions[h].user = sessions[self].user,
         hs = {self} \/ self \notin hs,
         sessions' = Removed(hs),
         Acting' = Acting \/ Acting' = [Acting EXCEPT ![r] = None]
  PROVE  Promised
<1>1. Logins' = [h \in Handles |-> IF h \in hs /\ Logins[h].st = "live"
                                   THEN [Logins[h] EXCEPT !.st = "removed"]
                                   ELSE Logins[h]]
  <2>1. \A h \in Handles : LoginOf([sessions[h] EXCEPT !.st = "removed"])
                             = [LoginOf(sessions[h]) EXCEPT !.st = "removed"]
    BY DEF LoginOf, TypeOK, Session
  <2> QED BY <2>1 DEF Logins, Removed, LoginOf
<1>2. self # None
  BY CoreAssumption
<1>3. Service!End(r, hs)
  BY <1>1, <1>2
  DEF Service!End, Service!Ended, Service!GoesOn, Logins, Acting, LoginOf
<1> QED BY <1>3 DEF Promised, Service!Next

\* A revocation that fails takes effect or does nothing.
LEMMA EndsOrLeaves ==
  ASSUME TypeOK, UNCHANGED now, NEW r \in Requests, Acting[r] # None,
         Revoke(req[r]) \/ RevokeFails(req[r]),
         NEW p, Step(r, p), ActsAs(p) = None,
         NEW self \in Handles, Acting[r] = self,
         \A h \in req[r].hs : sessions[h].user = sessions[self].user,
         req[r].hs = {self} \/ self \notin req[r].hs
  PROVE  Promised
<1>1. Acting' = [Acting EXCEPT ![r] = None]
  BY StepActs
<1>2. CASE sessions' = Removed(req[r].hs)
  <2>1. req[r].hs \in SUBSET Handles
    BY CookieTyped DEF TypeOK
  <2> QED BY <1>1, <1>2, <2>1, Ends
<1>3. CASE UNCHANGED sessions
  <2>1. Logins' = Logins
    BY <1>3 DEF Logins
  <2> QED BY <1>1, <2>1, OneLeaves
<1> QED BY <1>2, <1>3 DEF Revoke, RevokeFails

-----------------------------------------------------------------------------
(* The steps of AuthSessions.                                              *)

LEMMA ActsOf ==
  ASSUME NEW q
  PROVE  /\ q.pc \in {"idle", "verify", "si_create", "reply"} => ActsAs(q) = None
         /\ q.pc \in {"lookup", "lo_revoke"} => ActsAs(q) = q.acc.h
         /\ q.pc \in {"handler", "dev_info", "dev_revoke"} => ActsAs(q) = q.ctx
         /\ q.pc \in {"info", "create", "drop_old"} => ActsAs(q) = q.ref.h
BY DEF ActsAs

LEMMA RequestFacts ==
  ASSUME IInv, NEW r \in Requests
  PROVE  /\ TypeOK
         /\ req[r] \in Request /\ Acting[r] = ActsAs(req[r])
         /\ RequestSound(req[r], sessions, now) /\ ActorSound(req[r], sessions, now)
BY IInvIsParts DEF Parts, TypeOK, Actors, Acting

LEMMA AnswerLeaves ==
  ASSUME IInv, UNCHANGED now, Logins' = Logins, NEW r \in Requests, NEW c \in Request,
         NEW out, Step(r, Answer(c, out))
  PROVE  Promised
<1>1. ActsAs(Answer(c, out)) = None
  BY AnswerFields, ActsOf
<1> QED BY <1>1, RequestFacts, StepActs, OneLeaves

LEMMA EnterLeaves ==
  ASSUME IInv, UNCHANGED now, Logins' = Logins, NEW r \in Requests, NEW c \in Request,
         c.ctx = None, Step(r, Enter(c))
  PROVE  Promised
<1>1. ActsAs(Enter(c)) = None
  BY EnterFields, ActsOf DEF SameButPc
<1> QED BY <1>1, RequestFacts, StepActs, OneLeaves

\* The resolver admits a request with a token of a session that is alive.
LEMMA MwVerifyPromised ==
  ASSUME IInv, NEW r \in Requests, MwVerify(r)
  PROVE  Promised
<1> DEFINE q == req[r]
<1>1. /\ TypeOK /\ q \in Request /\ q.ctx = None /\ q.acc \in Token \cup {NoToken}
      /\ now \in Nat
  BY RequestFacts, CookieTyped DEF MwVerify, ActorSound, TypeOK
<1>2. Logins' = Logins /\ UNCHANGED now
  BY <1>1, VerifiedKeepsLogins DEF MwVerify, CallFails
<1>3. ClearCookies(q) \in Request /\ ClearCookies(q).ctx = None
  BY <1>1, ClearCookiesTyped, ClearCookiesFields DEF SameButPc
<1>4. CASE VerifyStatus(q.acc) = "OK" /\ Step(r, Await(q, "lookup"))
  <2>1. Alive(q.acc.h) /\ q.acc # NoToken
    BY <1>1, <1>4 DEF VerifyStatus, NoToken
  <2>2. q.acc.h \in Handles
    BY <1>1, <2>1, NoTokenFacts
  <2>3. ActsAs(Await(q, "lookup")) = q.acc.h
    BY <1>1, AwaitFields, ActsOf DEF SameButPc
  <2> QED BY <1>1, <1>2, <1>4, <2>1, <2>2, <2>3, StepActs, Admits
<1>5. CASE Step(r, Enter(q)) \/ Step(r, Enter(ClearCookies(q)))
  BY <1>1, <1>2, <1>3, <1>5, EnterLeaves
<1>6. VerifyStatus(q.acc) \in {"OK", "TRY_REFRESH_TOKEN", "UNAUTHORISED"}
  BY DEF VerifyStatus
<1> QED BY <1>4, <1>5, <1>6 DEF MwVerify, Resolved

LEMMA MwLookupPromised ==
  ASSUME IInv, NEW r \in Requests, MwLookup(r)
  PROVE  Promised
<1> DEFINE q == req[r]
           u == sessions[q.acc.h].user
           w == [q EXCEPT !.ctx = q.acc.h, !.user = u]
<1>1. /\ TypeOK /\ q \in Request /\ q.ctx = None /\ q.acc # NoToken
      /\ Acting[r] = q.acc.h /\ q.acc.h \in Handles
  BY RequestFacts, CookieTyped, NoTokenFacts, ActsOf DEF MwLookup, ActorSound
<1>2. Logins' = Logins /\ UNCHANGED now
  BY DEF MwLookup, Logins
<1>3. ClearCookies(q) \in Request /\ ClearCookies(q).ctx = None
  BY <1>1, ClearCookiesTyped, ClearCookiesFields DEF SameButPc
<1>4. CASE Step(r, Enter(q)) \/ Step(r, Enter(ClearCookies(q)))
  BY <1>1, <1>2, <1>3, <1>4, EnterLeaves
<1>5. CASE u \in mirror /\ Step(r, Enter(w))
  <2>1. u \in Users \cup {None}
    BY <1>1, <1>5 DEF TypeOK
  <2>2. w \in Request
    <3> HIDE DEF q, u
    <3> QED BY <1>1, <2>1, TwoFieldsTyped
  <2>3. w.ctx = q.acc.h
    BY <1>1 DEF Request
  <2> HIDE DEF w
  <2>4. ActsAs(Enter(w)) \in {None, q.acc.h}
    BY <2>2, <2>3, EnterFields, ActsOf DEF SameButPc
  <2>5. Acting' = [Acting EXCEPT ![r] = ActsAs(Enter(w))]
    BY <1>1, <1>5, StepActs
  <2>6. Acting' = Acting \/ Acting' = [Acting EXCEPT ![r] = None]
    BY <1>1, <2>4, <2>5 DEF Acting
  <2> QED BY <1>2, <2>6, Stutters, OneLeaves
<1> QED BY <1>4, <1>5 DEF MwLookup

\* The device routes act as the session of their Ctx, on sessions of its user.
LEMMA DevicesPromised ==
  ASSUME IInv, NEW r \in Requests,
         \/ ReadSession(r) \/ ListSessions(r) \/ ListInfo(r) \/ DevList(r) \/ DevRevoke(r)
  PROVE  Promised
<1> DEFINE q == req[r]
<1>1. /\ TypeOK /\ q \in Request /\ RequestSound(q, sessions, now)
      /\ ActorSound(q, sessions, now) /\ Acting[r] = ActsAs(q)
  BY RequestFacts
<1>2. q.pc \in {"handler", "dev_info", "dev_revoke"} /\ UNCHANGED now
  BY DEF ReadSession, ListSessions, ListInfo, DevList, DevRevoke, At
<1>3. Acting[r] = q.ctx
  BY <1>1, <1>2, ActsOf
<1>4. ASSUME Logins' = Logins, NEW p, Step(r, p), p.ctx = q.ctx,
             p.pc \in {"dev_info", "dev_revoke"}
      PROVE  Promised
  <2>1. Acting' = [Acting EXCEPT ![r] = q.ctx]
    BY <1>1, <1>4, StepActs, ActsOf
  <2>2. Acting' = Acting
    BY <1>3, <2>1 DEF Acting
  <2> QED BY <1>2, <1>4, <2>2, Stutters
<1>5. CASE DevRevoke(r)
  <2>1. PICK out : Step(r, Answer(q, out))
    BY <1>5 DEF DevRevoke, Fail
  <2>2. q.pc = "dev_revoke" /\ q.ep \in Protected
    BY <1>5 DEF DevRevoke, At, Protected
  <2>3. /\ q.ctx \in Handles /\ q.user = sessions[q.ctx].user
        /\ q.hs = {q.ctx} \/ q.ctx \notin q.hs
        /\ \A h \in q.hs : sessions[h].user = sessions[q.ctx].user
    BY <1>1, <2>2, CookieTyped, NoTokenFacts DEF ActorSound, RequestSound
  <2>4. q.ctx # None /\ ActsAs(Answer(q, out)) = None
    BY <1>1, <2>3, NoTokenFacts, AnswerFields, ActsOf
  <2>5. Revoke(q) \/ RevokeFails(q)
    BY <1>5 DEF DevRevoke
  <2> QED BY <1>1, <1>2, <1>3, <2>1, <2>3, <2>4, <2>5, EndsOrLeaves
<1>6. CASE ReadSession(r)
  <2>1. Logins' = Logins /\ \E out : Step(r, Answer(q, out))
    BY <1>6 DEF ReadSession, Fail, Logins
  <2> QED BY <1>1, <1>2, <2>1, AnswerLeaves
<1>7. CASE DevList(r)
  <2>1. Logins' = Logins
    BY <1>7 DEF DevList, Logins
  <2>2. ASSUME NEW out, Step(r, Answer(q, out)) PROVE Promised
    BY <1>1, <1>2, <2>1, <2>2, AnswerLeaves
  <2>3. ASSUME NEW hs, Step(r, [Await(q, "dev_revoke") EXCEPT !.hs = hs]) PROVE Promised
    <3> DEFINE a == Await(q, "dev_revoke")
               p == [a EXCEPT !.hs = hs]
    <3>1. a \in Request /\ SameButPc(a, q) /\ a.pc = "dev_revoke"
      BY <1>1, AwaitTyped, AwaitFields DEF Pcs
    <3>2. p.ctx = q.ctx /\ p.pc = "dev_revoke"
      <4> HIDE DEF a
      <4> QED BY <3>1 DEF Request, SameButPc
    <3> QED BY <1>4, <2>1, <2>3, <3>2
  <2> QED BY <1>7, <2>2, <2>3 DEF DevList, Fail
<1>8. CASE ListSessions(r)
  <2> DEFINE hs == HandlesOf(q.user)
             a == Await(q, "dev_info")
             p == [a EXCEPT !.hs = hs, !.todo = hs]
  <2>1. Logins' = Logins
    BY <1>8 DEF ListSessions, Logins
  <2>2. ASSUME NEW out, Step(r, Answer(q, out)) PROVE Promised
    BY <1>1, <1>2, <2>1, <2>2, AnswerLeaves
  <2>3. ASSUME Step(r, p) PROVE Promised
    <3>1. a \in Request /\ SameButPc(a, q) /\ a.pc = "dev_info"
      BY <1>1, AwaitTyped, AwaitFields DEF Pcs
    <3>2. p.ctx = q.ctx /\ p.pc = "dev_info"
      <4> HIDE DEF a, hs
      <4> QED BY <3>1 DEF Request, SameButPc
    <3> QED BY <1>4, <2>1, <2>3, <3>2
  <2> QED BY <1>8, <2>2, <2>3 DEF ListSessions, Fail
<1>9. CASE ListInfo(r)
  <2> DEFINE Seen(h) == IF Alive(h) THEN q.shown \cup {h} ELSE q.shown
             Left(h) == q.todo \ {h}
             Read(h) == [q EXCEPT !.todo = Left(h), !.shown = Seen(h)]
  <2>1. Logins' = Logins /\ q.pc = "dev_info"
    BY <1>9 DEF ListInfo, Logins, At
  <2>2. ASSUME NEW c \in Request, NEW out, Step(r, Answer(c, out)) PROVE Promised
    BY <1>2, <2>1, <2>2, AnswerLeaves
  <2>3. ASSUME NEW h \in q.todo
        PROVE  Read(h) \in Request /\ Read(h).ctx = q.ctx /\ Read(h).pc = "dev_info"
    <3>1. Left(h) \in SUBSET Handles /\ Seen(h) \in SUBSET Handles
      BY <1>1, <2>3, CookieTyped
    <3>2. Read(h) \in Request
      <4> HIDE DEF Left, Seen
      <4> QED BY <1>1, <3>1, TwoListsTyped
    <3>3. Read(h).ctx = q.ctx /\ Read(h).pc = "dev_info"
      <4> HIDE DEF Left, Seen
      <4> QED BY <1>1, <2>1 DEF Request
    <3> QED BY <3>2, <3>3
  <2>4. \/ \E h \in q.todo :
              Step(r, IF Read(h).todo = {} THEN Answer(Read(h), "ok") ELSE Read(h))
        \/ Step(r, Fail(q, "SuperTokens"))
    BY <1>1, <1>9 DEF ListInfo
  <2> HIDE DEF Read
  <2> QED BY <1>1, <1>4, <2>1, <2>2, <2>3, <2>4 DEF Fail
<1> QED BY <1>5, <1>6, <1>7, <1>8, <1>9

\* A refresh acts as the session of its refresh token; a slide replaces it.
LEMMA RefreshPromised ==
  ASSUME IInv, NEW r \in Requests, RefreshMissing(r) \/ RefreshCall(r)
  PROVE  Promised
<1> DEFINE q == req[r]
           t == q.ref
<1>1. TypeOK /\ q \in Request /\ UNCHANGED now /\ ClearCookies(q) \in Request
  BY RequestFacts, ClearCookiesTyped DEF RefreshMissing, RefreshCall
<1>2. CASE RefreshMissing(r)
  <2>1. Logins' = Logins
    BY <1>2 DEF RefreshMissing, Logins
  <2> QED BY <1>1, <1>2, <2>1, AnswerLeaves DEF RefreshMissing, Fail
<1>3. CASE RefreshCall(r)
  <2>1. t \in Token /\ t.h \in Handles
    BY <1>1, <1>3, CookieTyped, NoTokenFacts DEF RefreshCall
  <2>2. Logins' = Logins
    BY <1>1, <1>3, <2>1, RefreshedKeepsLogins DEF RefreshCall, CallFails
  <2>3. ASSUME NEW c \in Request, NEW out, Step(r, Answer(c, out)) PROVE Promised
    BY <1>1, <2>2, <2>3, AnswerLeaves
  <2>4. SetCookies(q, NextTokens(t)) \in Request
    <3>1. NextTokens(t) \in Token
      BY <1>1, <2>1, TokensTyped DEF TypeOK, SessionsType
    <3> QED BY <1>1, <3>1, SetCookiesTyped
  <2>5. ASSUME RefreshStatus(t) = "OK",
               Step(r, [Await(q, "info") EXCEPT !.hs = {t.h}, !.user = sessions[t.h].user])
        PROVE  Promised
    <3> DEFINE a == Await(q, "info")
               u == sessions[t.h].user
               p == [a EXCEPT !.hs = {t.h}, !.user = u]
    <3>1. a \in Request /\ SameButPc(a, q) /\ a.pc = "info"
      BY <1>1, AwaitTyped, AwaitFields DEF Pcs
    <3>2. p.ref = t /\ p.pc = "info"
      <4> HIDE DEF a, u
      <4> QED BY <3>1 DEF Request, SameButPc
    <3>3. Alive(t.h)
      BY <2>5 DEF RefreshStatus
    <3>4. ActsAs(p) = t.h
      BY <3>2, ActsOf
    <3> QED BY <1>1, <2>1, <2>2, <2>5, <3>3, <3>4, StepActs, Admits
  <2> QED BY <1>1, <1>3, <2>3, <2>4, <2>5 DEF RefreshCall, Fail
<1> QED BY <1>2, <1>3

LEMMA SlidePromised ==
  ASSUME IInv, NEW r \in Requests, SlideInfo(r) \/ SlideCreate(r) \/ SlideRevoke(r)
  PROVE  Promised
<1> DEFINE q == req[r]
           old == q.ref.h
<1>1. /\ TypeOK /\ q \in Request /\ UNCHANGED now
      /\ RequestSound(q, sessions, now) /\ Acting[r] = ActsAs(q)
  BY RequestFacts DEF SlideInfo, SlideCreate, SlideRevoke
<1>2. q.pc \in {"info", "create", "drop_old"}
  BY DEF SlideInfo, SlideCreate, SlideRevoke, At
<1>3. q.hs = {old} /\ old \in Handles /\ Acting[r] = old /\ old # None
  BY <1>1, <1>2, CookieTyped, NoTokenFacts, ActsOf DEF RequestSound
<1>4. ASSUME NEW p, Step(r, p), p.ref = q.ref, p.pc \in {"info", "create", "drop_old"}
      PROVE  Acting' = Acting
  <2>1. Acting' = [Acting EXCEPT ![r] = old]
    BY <1>1, <1>4, StepActs, ActsOf
  <2> QED BY <1>3, <2>1 DEF Acting
<1>5. CASE SlideInfo(r)
  <2>1. Logins' = Logins
    BY <1>5 DEF SlideInfo, Logins
  <2>2. ASSUME NEW d, Step(r, [Await(q, "create") EXCEPT !.fp = d]) PROVE Promised
    <3> DEFINE a == Await(q, "create")
               p == [a EXCEPT !.fp = d]
    <3>1. a \in Request /\ SameButPc(a, q) /\ a.pc = "create"
      BY <1>1, AwaitTyped, AwaitFields DEF Pcs
    <3>2. p.ref = q.ref /\ p.pc = "create"
      <4> HIDE DEF a
      <4> QED BY <3>1 DEF Request, SameButPc
    <3> QED BY <1>1, <1>4, <2>1, <2>2, <3>2, Stutters
  <2>3. CASE Step(r, Fail(q, "SuperTokens"))
    BY <1>1, <2>1, <2>3, AnswerLeaves DEF Fail
  <2> QED BY <1>5, <2>2, <2>3 DEF SlideInfo
<1>6. CASE SlideCreate(r)
  <2>1. PICK h \in Fresh, g \in q.hs :
          \/ /\ sessions' = Created(h, q.user, q.fp)
             /\ \/ Step(r, [Await(q, "drop_old") EXCEPT !.tok = FirstTokens(h)])
                \/ Step(r, Fail(q, "SuperTokens"))
          \/ UNCHANGED sessions /\ Step(r, Fail(q, "SuperTokens"))
    BY <1>6 DEF SlideCreate
  <2>2. /\ q.user = sessions[old].user /\ q.fp \in Fingerprints \cup {None}
        /\ q.fp = sessions[old].fp \/ (q.fp = None /\ ~Alive(old))
    BY <1>1, <1>3, <1>6, CookieTyped
    DEF RequestSound, SlideCreate, At, Alive, AliveAt
  <2>3. Step(r, Fail(q, "SuperTokens")) => Acting' = [Acting EXCEPT ![r] = None]
    <3>1. ActsAs(Fail(q, "SuperTokens")) = None
      BY <1>1, AnswerFields, ActsOf DEF Fail
    <3> QED BY <1>1, <3>1, StepActs
  <2>4. ASSUME Step(r, [Await(q, "drop_old") EXCEPT !.tok = FirstTokens(h)])
        PROVE  Acting' = Acting
    <3> DEFINE a == Await(q, "drop_old")
               p == [a EXCEPT !.tok = FirstTokens(h)]
    <3>1. a \in Request /\ SameButPc(a, q) /\ a.pc = "drop_old"
      BY <1>1, AwaitTyped, AwaitFields DEF Pcs
    <3>2. p.ref = q.ref /\ p.pc = "drop_old"
      <4> HIDE DEF a
      <4> QED BY <3>1 DEF Request, SameButPc
    <3> QED BY <1>4, <2>4, <3>2
  <2>5. CASE sessions' = Created(h, q.user, q.fp)
    BY <1>1, <1>3, <2>1, <2>2, <2>3, <2>4, <2>5, Replaces
  <2>6. CASE UNCHANGED sessions
    <3>1. Logins' = Logins
      BY <2>6 DEF Logins
    <3> QED BY <1>1, <2>1, <2>3, <2>4, <3>1, OneLeaves, Stutters
  <2> QED BY <2>1, <2>5, <2>6
<1>7. CASE SlideRevoke(r)
  <2> DEFINE c == SetCookies(q, q.tok)
  <2>1. c \in Request
    BY <1>1, CookieTyped, SetCookiesTyped
  <2>2. ActsAs(Answer(c, "ok")) = None
    BY <2>1, AnswerFields, ActsOf
  <2>3. Step(r, Answer(c, "ok")) /\ (Revoke(q) \/ RevokeFails(q))
    BY <1>7 DEF SlideRevoke
  <2> QED BY <1>1, <1>3, <2>2, <2>3, EndsOrLeaves
<1> QED BY <1>5, <1>6, <1>7

\* A logoff acts as the session of its access token, once that is verified again.
LEMMA LogoffPromised ==
  ASSUME IInv, NEW r \in Requests, LogoffLocal(r) \/ LogoffVerify(r) \/ LogoffRevoke(r)
  PROVE  Promised
<1> DEFINE q == req[r]
           c == ClearCookies(q)
<1>1. /\ TypeOK /\ q \in Request /\ c \in Request /\ UNCHANGED now
      /\ RequestSound(q, sessions, now) /\ ActorSound(q, sessions, now)
      /\ Acting[r] = ActsAs(q)
  BY RequestFacts, ClearCookiesTyped DEF LogoffLocal, LogoffVerify, LogoffRevoke
<1>2. CASE LogoffLocal(r)
  <2>1. Logins' = Logins
    BY <1>2 DEF LogoffLocal, Logins
  <2> QED BY <1>1, <1>2, <2>1, AnswerLeaves DEF LogoffLocal
<1>3. CASE LogoffVerify(r)
  <2>1. q.acc \in Token /\ q.acc.h \in Handles
    BY <1>1, <1>3, CookieTyped, NoTokenFacts DEF LogoffVerify
  <2>2. Logins' = Logins
    BY <1>1, <1>3, <2>1, VerifiedKeepsLogins DEF LogoffVerify, CallFails
  <2>3. CASE Step(r, Answer(c, "ok"))
    BY <1>1, <2>2, <2>3, AnswerLeaves
  <2>4. CASE /\ VerifyStatus(q.acc) = "OK"
             /\ Step(r, [Await(q, "lo_revoke") EXCEPT !.hs = {q.acc.h}])
    <3> DEFINE a == Await(q, "lo_revoke")
               p == [a EXCEPT !.hs = {q.acc.h}]
    <3>1. a \in Request /\ SameButPc(a, q) /\ a.pc = "lo_revoke"
      BY <1>1, AwaitTyped, AwaitFields DEF Pcs
    <3>2. p.acc = q.acc /\ p.pc = "lo_revoke"
      <4> HIDE DEF a
      <4> QED BY <3>1 DEF Request, SameButPc
    <3>3. Alive(q.acc.h)
      BY <2>4 DEF VerifyStatus
    <3>4. ActsAs(p) = q.acc.h
      BY <3>2, ActsOf
    <3> QED BY <1>1, <2>1, <2>2, <2>4, <3>3, <3>4, StepActs, Admits
  <2> QED BY <1>3, <2>3, <2>4 DEF LogoffVerify
<1>4. CASE LogoffRevoke(r)
  <2>1. q.pc = "lo_revoke"
    BY <1>4 DEF LogoffRevoke, At
  <2>2. q.acc.h \in Handles /\ q.hs = {q.acc.h} /\ Acting[r] = q.acc.h /\ q.acc.h # None
    BY <1>1, <2>1, CookieTyped, NoTokenFacts, ActsOf DEF RequestSound, ActorSound
  <2>3. ActsAs(Answer(c, "ok")) = None
    BY <1>1, AnswerFields, ActsOf
  <2>4. Step(r, Answer(c, "ok")) /\ (Revoke(q) \/ RevokeFails(q))
    BY <1>4 DEF LogoffRevoke
  <2> QED BY <1>1, <2>2, <2>3, <2>4, EndsOrLeaves
<1> QED BY <1>2, <1>3, <1>4

LEMMA SignInPromised ==
  ASSUME IInv, NEW r \in Requests, SignInUser(r) \/ SignInCreate(r)
  PROVE  Promised
<1> DEFINE q == req[r]
<1>1. /\ TypeOK /\ q \in Request /\ UNCHANGED now /\ ActorSound(q, sessions, now)
      /\ Acting[r] = ActsAs(q)
  BY RequestFacts DEF SignInUser, SignInCreate
<1>2. CASE SignInUser(r)
  <2>1. Logins' = Logins
    BY <1>2 DEF SignInUser, Logins
  <2>2. ASSUME NEW e, Step(r, Fail(q, e)) PROVE Promised
    BY <1>1, <2>1, <2>2, AnswerLeaves DEF Fail
  <2>3. ASSUME NEW u, Step(r, [Await(q, "si_create") EXCEPT !.user = u, !.fp = q.b])
        PROVE  Promised
    <3> DEFINE a == Await(q, "si_create")
               p == [a EXCEPT !.user = u, !.fp = q.b]
    <3>1. a \in Request /\ a.pc = "si_create"
      BY <1>1, AwaitTyped, AwaitFields DEF Pcs
    <3>2. p.pc = "si_create"
      <4> HIDE DEF a
      <4> QED BY <3>1 DEF Request
    <3>3. ActsAs(p) = None
      BY <3>2, ActsOf
    <3> QED BY <1>1, <2>1, <2>3, <3>3, StepActs, OneLeaves
  <2> QED BY <1>2, <2>2, <2>3 DEF SignInUser
<1>3. CASE SignInCreate(r)
  <2>1. /\ q.pc = "si_create" /\ q.user \in Users /\ q.fp \in Fingerprints
        /\ Acting[r] = None
    BY <1>1, <1>3, CookieTyped, ActsOf DEF SignInCreate, At, ActorSound
  <2>2. PICK h \in Fresh :
          /\ sessions' = Created(h, q.user, q.fp) \/ sessions' = sessions
          /\ \/ Step(r, Answer(SetCookies(q, FirstTokens(h)), "ok"))
             \/ Step(r, Fail(q, "SuperTokens"))
    BY <1>3 DEF SignInCreate, CallFails
  <2>3. SetCookies(q, FirstTokens(h)) \in Request
    <3>1. FirstTokens(h) \in Token
      BY <1>1, TokensTyped, CoreAssumption DEF Fresh, FirstTokens, Token, TypeOK
    <3> QED BY <1>1, <3>1, SetCookiesTyped
  <2>4. Acting' = Acting
    <3>1. ASSUME NEW c \in Request, NEW out PROVE ActsAs(Answer(c, out)) = None
      BY AnswerFields, ActsOf
    <3>2. Acting' = [Acting EXCEPT ![r] = None]
      BY <1>1, <2>2, <2>3, <3>1, StepActs DEF Fail
    <3> QED BY <2>1, <3>2 DEF Acting
  <2>5. CASE sessions' = Created(h, q.user, q.fp)
    BY <1>1, <2>1, <2>4, <2>5, SignsIn
  <2>6. CASE sessions' = sessions
    <3>1. Logins' = Logins
      BY <2>6 DEF Logins
    <3> QED BY <1>1, <2>4, <3>1, Stutters
  <2> QED BY <2>2, <2>5, <2>6
<1> QED BY <1>2, <1>3

\* The browsers change neither a session nor whom a request acts as; they only
\* give up requests, as a restart of the server does.
LEMMA ClientPromised ==
  ASSUME IInv, NEW r \in Requests, Client(r)
  PROVE  Promised
<1>1. Logins' = Logins /\ UNCHANGED now
  BY DEF Client, Send, Deliver, Abandon, Drop, Logins
<1>2. req[r] \in Request /\ TypeOK /\ Acting[r] = ActsAs(req[r])
  BY RequestFacts
<1>3. ASSUME NEW b \in Browsers, NEW ep \in Endpoints, Send(r, b, ep) PROVE Promised
  <2>1. PICK a \in SentAccess(b), f \in SentRefresh(b, ep) :
          LET q == Sent(b, ep, a, f)
          IN  Step(r, IF a = NoToken THEN Enter(q) ELSE q)
    BY <1>3 DEF Send
  <2> DEFINE q == Sent(b, ep, a, f)
  <2>2. q \in Request
    BY <1>2, SentTyped
  <2>3. q.ctx = None /\ q.pc = "verify" /\ (Step(r, Enter(q)) \/ Step(r, q))
    BY <2>1 DEF Sent
  <2> HIDE DEF q
  <2>4. ActsAs(q) = None
    BY <2>3, ActsOf
  <2> QED BY <1>1, <1>2, <2>2, <2>3, <2>4, EnterLeaves, StepActs, OneLeaves
<1>4. CASE Deliver(r) \/ Drop(r)
  <2>1. Step(r, Idle)
    BY <1>4 DEF Deliver, Drop
  <2>2. ActsAs(Idle) = None
    BY ActsOf DEF Idle
  <2> QED BY <1>1, <1>2, <2>1, <2>2, StepActs, OneLeaves
<1>5. CASE Abandon(r)
  <2> DEFINE p == [req[r] EXCEPT !.waited = FALSE]
  <2>1. Step(r, p)
    BY <1>5 DEF Abandon
  <2>2. p.pc = req[r].pc /\ p.acc = req[r].acc /\ p.ctx = req[r].ctx /\ p.ref = req[r].ref
    BY <1>2 DEF Request
  <2>3. ActsAs(p) = ActsAs(req[r])
    <3> HIDE DEF p
    <3> QED BY <2>2 DEF ActsAs
  <2>4. Acting' = [Acting EXCEPT ![r] = ActsAs(p)]
    BY <1>2, <2>1, StepActs
  <2>5. Acting' = Acting
    BY <1>2, <2>3, <2>4 DEF Acting
  <2> QED BY <1>1, <2>5, Stutters
<1> QED BY <1>3, <1>4, <1>5 DEF Client

LEMMA NextPromised == IInv /\ [Next]_vars => Promised
<1> SUFFICES ASSUME IInv, [Next]_vars PROVE Promised
  OBVIOUS
<1>1. ASSUME NEW r \in Requests, Serve(r) PROVE Promised
  BY <1>1, MwVerifyPromised, MwLookupPromised, DevicesPromised, RefreshPromised,
     SlidePromised, LogoffPromised, SignInPromised DEF Serve
<1>2. ASSUME NEW r \in Requests, Client(r) PROVE Promised
  BY <1>2, ClientPromised
<1>3. CASE Restart
  <2>1. UNCHANGED now /\ Logins' = Logins
    BY <1>3 DEF Restart, Logins
  <2>2. ActsAs(Idle) = None
    BY ActsOf DEF Idle
  <2>3. Acting' = [r \in Requests |-> IF r \in Requests THEN None ELSE Acting[r]]
    BY <1>3, <2>2 DEF Restart, Acting
  <2> QED BY <2>1, <2>3, Leaves
<1>4. CASE Tick
  <2>1. Service!Tick
    BY <1>4 DEF Tick, Service!Tick, Logins, Acting
  <2> QED BY <2>1 DEF Promised, Service!Next
<1>5. CASE UNCHANGED vars
  <2>1. UNCHANGED now /\ Logins' = Logins /\ Acting' = Acting
    BY <1>5 DEF vars, Logins, Acting
  <2> QED BY <2>1, Stutters
<1> QED BY <1>1, <1>2, <1>3, <1>4, <1>5 DEF Next

\* The whole service, with its browsers, its failures and its core, does what
\* SessionService promises: what a handler read before an await and uses after it
\* (ctx_resolve, list_session_handles, slide_window_if_needed) never opens, replaces
\* or ends a session in any other way.
THEOREM ServiceRefined == Spec => ServiceImplemented
<1>1. Init => Service!Init
  BY ActsOf DEF Init, Service!Init, Unused, Service!Unused, LoginOf, Idle
<1>2. IInv /\ [Next]_vars => [Service!Next]_(Service!vars)
  BY NextPromised DEF Promised
<1> QED BY <1>1, <1>2, Invariance, PTL DEF Spec, ServiceImplemented, Service!Spec

=============================================================================
