------------------------ MODULE AuthSessionsProofs ------------------------
(***************************************************************************)
(* Proofs about AuthSessions, for any numbers of browsers, requests, users *)
(* and handles, any faults, and any bounds.                                *)
(***************************************************************************)
EXTENDS AuthSessions, TLAPS

\* Counting in whole seconds loses less than a second.
LEMMA WholeSecondsFacts ==
  ASSUME NEW t \in Nat
  PROVE  WholeSeconds(t) \in Nat /\ t - (Second - 1) <= WholeSeconds(t) /\ WholeSeconds(t) <= t
<1>1. t % Second \in 0..(Second - 1) /\ t % Second <= t
  BY AuthAssumption
<1> QED BY <1>1, AuthAssumption DEF WholeSeconds

\* A session that is created has more than half of its window left.
LEMMA FreshWindow ==
  ASSUME now \in Nat
  PROVE  (now + RefreshValidity) + AccessValidity + (Second - 1)
           > (now + AccessValidity) + Threshold
BY CoreAssumption, AuthAssumption

SessionsType == sessions \in [Handles -> Session]

-----------------------------------------------------------------------------
(* The core's operations keep the session table well typed.                *)

LEMMA NoTokenFacts ==
  /\ NoToken.h = None
  /\ NoToken \notin Token
  /\ None \notin Handles
  /\ \A t \in Token : t.h \in Handles /\ t # NoToken
BY CoreAssumption DEF NoToken, Token

LEMMA TokensTyped ==
  ASSUME SessionsType, now \in Nat, NEW h \in Handles, NEW t \in Token
  PROVE  /\ FirstTokens(h) \in Token
         /\ NextTokens(t) \in Token
         /\ InfoData(h) \in Fingerprints \cup {None}
BY CoreAssumption DEF SessionsType, Session, Token, FirstTokens, NextTokens, InfoData

LEMMA CreatedTyped ==
  ASSUME SessionsType, now \in Nat, NEW h \in Handles,
         NEW u \in Users \cup {None}, NEW d \in Fingerprints \cup {None}
  PROVE  Created(h, u, d) \in [Handles -> Session]
<1> DEFINE s == [st |-> "live", user |-> u, fp |-> d,
                 exp |-> now + RefreshValidity, conf |-> 1, last |-> 1]
<1>1. s \in Session
  BY CoreAssumption DEF Session
<1> QED BY <1>1 DEF SessionsType, Created

LEMMA VerifiedTyped ==
  ASSUME SessionsType, NEW t \in Token \cup {NoToken}
  PROVE  Verified(t) \in [Handles -> Session]
<1>1. CASE t.h \in Handles
  <2> DEFINE s == [sessions[t.h] EXCEPT !.conf = IF @ = t.p THEN t.n ELSE @]
  <2>1. s \in Session
    BY <1>1 DEF SessionsType, Session, Token, NoToken
  <2> QED BY <2>1, <1>1 DEF SessionsType, Verified
<1>2. CASE t.h \notin Handles
  BY <1>2 DEF SessionsType, Verified
<1> QED BY <1>1, <1>2

LEMMA RefreshedTyped ==
  ASSUME SessionsType, NEW t \in Token
  PROVE  Refreshed(t) \in [Handles -> Session]
<1>1. t.h \in Handles /\ t.n \in Nat /\ sessions[t.h] \in Session
  BY DEF SessionsType, Token
<1>2. sessions[t.h].last + 1 \in Nat
  BY <1>1 DEF Session
<1>3. [sessions[t.h] EXCEPT !.conf = t.n, !.last = sessions[t.h].last + 1] \in Session
  BY <1>1, <1>2 DEF Session
<1> QED BY <1>1, <1>3 DEF SessionsType, Refreshed

LEMMA RemovedTyped ==
  ASSUME SessionsType, NEW hs
  PROVE  Removed(hs) \in [Handles -> Session]
<1> SUFFICES ASSUME NEW h \in Handles
             PROVE  [sessions[h] EXCEPT !.st = "removed"] \in Session
  BY DEF SessionsType, Removed
<1> QED BY DEF SessionsType, Session

-----------------------------------------------------------------------------
(* The handlers' helpers build well-typed requests.                        *)

LEMMA IdleTyped == Idle \in Request
BY DEF Idle, Request, Pcs, Routes, Protected

LEMMA ClearCookiesTyped ==
  ASSUME NEW q \in Request
  PROVE  ClearCookies(q) \in Request
BY DEF ClearCookies, Request

LEMMA SetCookiesTyped ==
  ASSUME NEW q \in Request, NEW t \in Token \cup {NoToken}
  PROVE  SetCookies(q, t) \in Request
BY DEF SetCookies, Request

LEMMA ClientErrorTyped ==
  ASSUME NEW e
  PROVE  ClientError(e) \in ClientErrors /\ ClientError(e) \notin {"ok", "kept", "none"}
BY DEF ClientError, ClientErrors, Unauthorized, Refusals

LEMMA AnswerTyped ==
  ASSUME NEW q \in Request, NEW out \in {"ok", "kept"} \cup ClientErrors
  PROVE  Answer(q, out) \in Request
<1> DEFINE p == [q EXCEPT !.out = out]
<1>1. p \in Request
  BY DEF Request
<1>2. [p EXCEPT !.pc = "reply"] \in Request
  <2> HIDE DEF p
  <2> QED BY <1>1 DEF Request, Pcs
<1>3. Answer(q, out) = [p EXCEPT !.pc = "reply"]
  BY DEF Answer, Request
<1> QED BY <1>2, <1>3

LEMMA FailTyped ==
  ASSUME NEW q \in Request, NEW e
  PROVE  Fail(q, e) \in Request
BY ClientErrorTyped, AnswerTyped DEF Fail

LEMMA AwaitTyped ==
  ASSUME NEW q \in Request, NEW pc \in Pcs
  PROVE  Await(q, pc) \in Request
BY DEF Await, Request

LEMMA EnterTyped ==
  ASSUME NEW q \in Request
  PROVE  Enter(q) \in Request
BY FailTyped, AwaitTyped DEF Enter, Pcs

LEMMA ResolvedTyped ==
  ASSUME NEW q \in Request, NEW t
  PROVE  Resolved(q, VerifyStatus(t)) \in Request
<1>1. VerifyStatus(t) \in {"OK", "TRY_REFRESH_TOKEN", "UNAUTHORISED"}
  BY DEF VerifyStatus
<1> QED BY <1>1, EnterTyped, AwaitTyped, ClearCookiesTyped DEF Resolved, Pcs

\* One field of a request at a time.
LEMMA FieldsTyped ==
  ASSUME NEW q \in Request
  PROVE  /\ \A h \in Handles \cup {None} : [q EXCEPT !.ctx = h] \in Request
         /\ \A u \in Users \cup {None} : [q EXCEPT !.user = u] \in Request
         /\ \A hs \in SUBSET Handles :
              /\ [q EXCEPT !.hs = hs] \in Request
              /\ [q EXCEPT !.todo = hs] \in Request
              /\ [q EXCEPT !.shown = hs] \in Request
         /\ \A d \in Fingerprints \cup {None} : [q EXCEPT !.fp = d] \in Request
         /\ \A t \in Token \cup {NoToken} : [q EXCEPT !.tok = t] \in Request
         /\ \A w \in BOOLEAN : [q EXCEPT !.waited = w] \in Request
<1>1. \A h \in Handles \cup {None} : [q EXCEPT !.ctx = h] \in Request
  BY DEF Request
<1>2. \A u \in Users \cup {None} : [q EXCEPT !.user = u] \in Request
  BY DEF Request
<1>3. \A hs \in SUBSET Handles : /\ [q EXCEPT !.hs = hs] \in Request
                                  /\ [q EXCEPT !.todo = hs] \in Request
                                  /\ [q EXCEPT !.shown = hs] \in Request
  BY DEF Request
<1>4. \A d \in Fingerprints \cup {None} : [q EXCEPT !.fp = d] \in Request
  BY DEF Request
<1>5. \A t \in Token \cup {NoToken} : [q EXCEPT !.tok = t] \in Request
  BY DEF Request
<1>6. \A w \in BOOLEAN : [q EXCEPT !.waited = w] \in Request
  BY DEF Request
<1> QED BY <1>1, <1>2, <1>3, <1>4, <1>5, <1>6

LEMMA TwoFieldsTyped ==
  ASSUME NEW q \in Request, NEW u \in Users \cup {None}
  PROVE  /\ \A h \in Handles \cup {None} : [q EXCEPT !.ctx = h, !.user = u] \in Request
         /\ \A hs \in SUBSET Handles : [q EXCEPT !.hs = hs, !.user = u] \in Request
         /\ \A d \in Fingerprints \cup {None} : [q EXCEPT !.user = u, !.fp = d] \in Request
<1> DEFINE p == [q EXCEPT !.user = u]
<1>1. p \in Request
  BY FieldsTyped
<1>2. \A h \in Handles \cup {None} : [q EXCEPT !.ctx = h, !.user = u] \in Request
  <2> SUFFICES ASSUME NEW h \in Handles \cup {None}
               PROVE  [q EXCEPT !.ctx = h, !.user = u] \in Request
    OBVIOUS
  <2>1. [p EXCEPT !.ctx = h] \in Request
    BY <1>1, FieldsTyped
  <2>2. [q EXCEPT !.ctx = h, !.user = u] = [p EXCEPT !.ctx = h]
    BY DEF Request
  <2> QED BY <2>1, <2>2
<1>3. \A hs \in SUBSET Handles : [q EXCEPT !.hs = hs, !.user = u] \in Request
  <2> SUFFICES ASSUME NEW hs \in SUBSET Handles
               PROVE  [q EXCEPT !.hs = hs, !.user = u] \in Request
    OBVIOUS
  <2>1. [p EXCEPT !.hs = hs] \in Request
    BY <1>1, FieldsTyped
  <2>2. [q EXCEPT !.hs = hs, !.user = u] = [p EXCEPT !.hs = hs]
    BY DEF Request
  <2> QED BY <2>1, <2>2
<1>4. \A d \in Fingerprints \cup {None} : [q EXCEPT !.user = u, !.fp = d] \in Request
  <2> SUFFICES ASSUME NEW d \in Fingerprints \cup {None}
               PROVE  [q EXCEPT !.user = u, !.fp = d] \in Request
    OBVIOUS
  <2>1. [p EXCEPT !.fp = d] \in Request
    BY <1>1, FieldsTyped
  <2>2. [q EXCEPT !.user = u, !.fp = d] = [p EXCEPT !.fp = d]
    BY DEF Request
  <2> QED BY <2>1, <2>2
<1> QED BY <1>2, <1>3, <1>4

LEMMA TwoListsTyped ==
  ASSUME NEW q \in Request, NEW hs \in SUBSET Handles, NEW gs \in SUBSET Handles
  PROVE  /\ [q EXCEPT !.hs = hs, !.todo = gs] \in Request
         /\ [q EXCEPT !.todo = hs, !.shown = gs] \in Request
<1>1. [q EXCEPT !.hs = hs, !.todo = gs] \in Request
  <2> DEFINE p == [q EXCEPT !.hs = hs]
  <2>1. p \in Request
    BY FieldsTyped
  <2>2. [p EXCEPT !.todo = gs] \in Request
    <3> HIDE DEF p
    <3> QED BY <2>1, FieldsTyped
  <2>3. [q EXCEPT !.hs = hs, !.todo = gs] = [p EXCEPT !.todo = gs]
    BY DEF Request
  <2> QED BY <2>2, <2>3
<1>2. [q EXCEPT !.todo = hs, !.shown = gs] \in Request
  <2> DEFINE p == [q EXCEPT !.todo = hs]
  <2>1. p \in Request
    BY FieldsTyped
  <2>2. [p EXCEPT !.shown = gs] \in Request
    <3> HIDE DEF p
    <3> QED BY <2>1, FieldsTyped
  <2>3. [q EXCEPT !.todo = hs, !.shown = gs] = [p EXCEPT !.shown = gs]
    BY DEF Request
  <2> QED BY <2>2, <2>3
<1> QED BY <1>1, <1>2

LEMMA StepTyped ==
  ASSUME req \in [Requests -> Request], NEW r \in Requests, NEW q \in Request, Step(r, q)
  PROVE  req' \in [Requests -> Request]
BY DEF Step

-----------------------------------------------------------------------------
(* Type correctness.                                                       *)

\* The service starts in a well-typed state.
LEMMA InitTyped == Init => TypeOK
BY IdleTyped, CoreAssumption
DEF Init, TypeOK, SessionsType, Session, Unused

\* What a browser sends is a well-typed request.
LEMMA SentTyped ==
  ASSUME TypeOK, NEW b \in Browsers, NEW ep \in Endpoints,
         NEW a \in SentAccess(b), NEW f \in SentRefresh(b, ep)
  PROVE  /\ Sent(b, ep, a, f) \in Request
         /\ (IF a = NoToken THEN Enter(Sent(b, ep, a, f)) ELSE Sent(b, ep, a, f)) \in Request
<1> DEFINE q == Sent(b, ep, a, f)
           dead == a # NoToken /\ ~Alive(a.h)
<1>1. a \in Token \cup {NoToken} /\ f \in Token \cup {NoToken} /\ ep \in Routes
  BY AuthAssumption DEF SentAccess, SentRefresh, TypeOK
<1>2. dead \in BOOLEAN
  OBVIOUS
<1>3. q = [pc |-> "verify", b |-> b, ep |-> ep, acc |-> a, ref |-> f, ctx |-> None,
           user |-> None, hs |-> {}, todo |-> {}, shown |-> {}, fp |-> None,
           rm |-> {}, tok |-> NoToken, out |-> "none", waited |-> TRUE, dead |-> dead]
  BY DEF Sent
<1>4. q \in Request
  <2> HIDE DEF dead, q
  <2> QED BY <1>1, <1>2, <1>3 DEF Request, Pcs
<1>5. Enter(q) \in Request
  BY <1>4, EnterTyped
<1> QED BY <1>4, <1>5

LEMMA SendTyped ==
  ASSUME TypeOK, NEW r \in Requests, NEW b \in Browsers, NEW ep \in Endpoints, Send(r, b, ep)
  PROVE  req' \in [Requests -> Request]
<1>1. PICK a \in SentAccess(b), f \in SentRefresh(b, ep) :
        LET q == Sent(b, ep, a, f)
        IN  Step(r, IF a = NoToken THEN Enter(q) ELSE q)
  BY DEF Send
<1> DEFINE q == Sent(b, ep, a, f)
           p == IF a = NoToken THEN Enter(q) ELSE q
<1>2. p \in Request /\ Step(r, p)
  BY <1>1, SentTyped
<1> HIDE DEF p
<1> QED BY <1>2, StepTyped DEF TypeOK

\* What the answer leaves in a cookie jar.
LEMMA ReceivedTyped ==
  ASSUME NEW q \in Request,
         NEW c \in [acc : Token \cup {NoToken}, ref : Token \cup {NoToken}]
  PROVE  Received(c, q) \in [acc : Token \cup {NoToken}, ref : Token \cup {NoToken}]
BY DEF Received, Request

\* A token a request carries, or may still use, is a token of a session.
LEMMA CookieTyped ==
  ASSUME NEW q \in Request
  PROVE  /\ q.acc \in Token \cup {NoToken}
         /\ q.acc # NoToken => q.acc \in Token
         /\ q.ref # NoToken => q.ref \in Token
         /\ AccessCookie(q) # NoToken => q.acc \in Token
         /\ RefreshCookie(q) # NoToken => q.ref \in Token
         /\ q.tok \in Token \cup {NoToken}
         /\ q.user \in Users \cup {None} /\ q.fp \in Fingerprints \cup {None}
         /\ q.hs \subseteq Handles /\ q.todo \subseteq Handles /\ q.shown \subseteq Handles
         /\ q.b \in Browsers \cup {None} /\ q.ep \in Routes \cup {"none"}
BY DEF Request, AccessCookie, RefreshCookie

\* Every step that the answer to a call makes the server take.
LEMMA RevokeTyped ==
  ASSUME TypeOK, NEW q \in Request, q.ep \in Routes,
         Revoke(q) \/ RevokeFails(q)
  PROVE  /\ sessions' \in [Handles -> Session]
         /\ hist' \in [Handles -> [from : Handles \cup {None}, killer : Routes \cup {"none"}]]
<1>1. Removed(q.hs) \in [Handles -> Session]
  BY RemovedTyped DEF TypeOK, SessionsType
<1>2. Killed(q) \in [Handles -> [from : Handles \cup {None}, killer : Routes \cup {"none"}]]
  BY DEF TypeOK, Killed
<1> QED BY <1>1, <1>2 DEF TypeOK, Revoke, RevokeFails

LEMMA NextTyped == TypeOK /\ [Next]_vars => TypeOK'
<1> SUFFICES ASSUME TypeOK, [Next]_vars PROVE TypeOK'
  OBVIOUS
<1>t. SessionsType /\ now \in Nat /\ req \in [Requests -> Request]
  BY DEF TypeOK, SessionsType
<1>q. \A r \in Requests : req[r] \in Request
  BY <1>t
<1>s. ASSUME NEW r \in Requests, NEW q \in Request, Step(r, q),
             sessions' \in [Handles -> Session],
             UNCHANGED <<now, jar, mirror, hist>>
      PROVE  TypeOK'
  BY <1>s, <1>t, StepTyped DEF TypeOK
<1>u. ASSUME NEW r \in Requests, NEW q \in Request, Step(r, q),
             UNCHANGED <<now, sessions, jar, mirror, hist>>
      PROVE  TypeOK'
  BY <1>u, <1>t, StepTyped DEF TypeOK
<1>w. ASSUME NEW r \in Requests, NEW q \in Request, Step(r, q), req[r].ep \in Routes,
             Revoke(req[r]) \/ RevokeFails(req[r]), UNCHANGED <<now, jar, mirror>>
      PROVE  TypeOK'
  <2>1. req' \in [Requests -> Request]
    BY <1>w, <1>t, StepTyped
  <2>2. /\ sessions' \in [Handles -> Session]
        /\ hist' \in [Handles -> [from : Handles \cup {None}, killer : Routes \cup {"none"}]]
    BY <1>w, <1>q, RevokeTyped
  <2> QED BY <1>w, <2>1, <2>2 DEF TypeOK
<1>1. ASSUME NEW r \in Requests, MwVerify(r) PROVE TypeOK'
  <2>1. req[r].acc \in Token \cup {NoToken}
    BY <1>q, CookieTyped
  <2>2. Verified(req[r].acc) \in [Handles -> Session]
    BY <2>1, <1>t, VerifiedTyped
  <2>3. CASE sessions' = Verified(req[r].acc)
             /\ Step(r, Resolved(req[r], VerifyStatus(req[r].acc)))
    <3>1. Resolved(req[r], VerifyStatus(req[r].acc)) \in Request
      BY <1>q, ResolvedTyped
    <3> QED BY <1>1, <1>s, <2>2, <2>3, <3>1 DEF MwVerify
  <2>4. CASE CallFails(Verified(req[r].acc)) /\ Step(r, Enter(req[r]))
    <3>1. Enter(req[r]) \in Request
      BY <1>q, EnterTyped
    <3>2. sessions' \in [Handles -> Session]
      BY <2>2, <2>4, <1>t DEF CallFails, SessionsType
    <3> QED BY <1>1, <1>s, <2>4, <3>1, <3>2 DEF MwVerify
  <2> QED BY <1>1, <2>3, <2>4 DEF MwVerify
<1>2. ASSUME NEW r \in Requests, MwLookup(r) PROVE TypeOK'
  <2> DEFINE q == req[r]
             u == sessions[q.acc.h].user
  <2>1. q \in Request /\ q.acc.h \in Handles \cup {None}
    BY <1>q, CookieTyped, NoTokenFacts
  <2>2. CASE u \in mirror /\ Step(r, Enter([q EXCEPT !.ctx = q.acc.h, !.user = u]))
    <3>1. u \in Users \cup {None}
      BY <2>2 DEF TypeOK
    <3>2. [q EXCEPT !.ctx = q.acc.h, !.user = u] \in Request
      <4> HIDE DEF q, u
      <4> QED BY <2>1, <3>1, TwoFieldsTyped
    <3>3. Enter([q EXCEPT !.ctx = q.acc.h, !.user = u]) \in Request
      BY <3>2, EnterTyped
    <3> QED BY <1>2, <1>u, <2>2, <3>3 DEF MwLookup
  <2>3. CASE Step(r, Enter(ClearCookies(q)))
    BY <1>2, <1>u, <2>1, <2>3, EnterTyped, ClearCookiesTyped DEF MwLookup
  <2>4. CASE Step(r, Enter(q))
    BY <1>2, <1>u, <2>1, <2>4, EnterTyped DEF MwLookup
  <2> QED BY <1>2, <2>2, <2>3, <2>4 DEF MwLookup
<1>3. ASSUME NEW r \in Requests, ReadSession(r) PROVE TypeOK'
  BY <1>3, <1>u, <1>q, AnswerTyped, FailTyped DEF ReadSession
<1>4. ASSUME NEW r \in Requests, DevList(r) PROVE TypeOK'
  <2> DEFINE q == req[r]
  <2>1. q \in Request
    BY <1>q
  <2>2. CASE \E hs \in Targets(q) :
               Step(r, IF hs = {} THEN Answer(q, "ok")
                       ELSE [Await(q, "dev_revoke") EXCEPT !.hs = hs])
    <3>1. PICK hs \in Targets(q) :
            Step(r, IF hs = {} THEN Answer(q, "ok")
                    ELSE [Await(q, "dev_revoke") EXCEPT !.hs = hs])
      BY <2>2
    <3>2. hs \in SUBSET Handles
      BY DEF Targets, HandlesOf
    <3>3. Await(q, "dev_revoke") \in Request
      BY <2>1, AwaitTyped DEF Pcs
    <3>4. [Await(q, "dev_revoke") EXCEPT !.hs = hs] \in Request
      BY <3>2, <3>3, FieldsTyped
    <3> QED BY <1>4, <1>u, <2>1, <3>1, <3>4, AnswerTyped DEF DevList
  <2>3. ASSUME NEW e, Step(r, Fail(q, e)) PROVE TypeOK'
    BY <1>4, <1>u, <2>1, <2>3, FailTyped DEF DevList
  <2> QED BY <1>4, <2>2, <2>3 DEF DevList
<1>5. ASSUME NEW r \in Requests, DevRevoke(r) PROVE TypeOK'
  <2>1. req[r].ep \in Routes
    BY <1>5 DEF DevRevoke, At, Routes, Protected
  <2>2. PICK out \in {"ok"} \cup ClientErrors : Step(r, Answer(req[r], out))
    BY <1>5, ClientErrorTyped DEF DevRevoke, Fail
  <2>3. Answer(req[r], out) \in Request
    BY <1>q, AnswerTyped
  <2> QED BY <1>5, <1>w, <2>1, <2>2, <2>3 DEF DevRevoke
<1>6. ASSUME NEW r \in Requests, RefreshMissing(r) PROVE TypeOK'
  BY <1>6, <1>u, <1>q, FailTyped DEF RefreshMissing
<1>7. ASSUME NEW r \in Requests, RefreshCall(r) PROVE TypeOK'
  <2> DEFINE q == req[r]
             t == q.ref
  <2>1. q \in Request /\ t \in Token
    BY <1>7, <1>q, CookieTyped DEF RefreshCall
  <2>2. Refreshed(t) \in [Handles -> Session] /\ sessions \in [Handles -> Session]
    BY <2>1, <1>t, RefreshedTyped DEF SessionsType
  <2>3. CASE /\ sessions' = Refreshed(t)
             /\ Step(r, IF KeepsWindow(t)
                        THEN Answer(SetCookies(q, NextTokens(t)), "ok")
                        ELSE [Await(q, "info") EXCEPT !.hs = {t.h},
                                                      !.user = sessions[t.h].user])
    <3>1. t.h \in Handles /\ sessions[t.h].user \in Users \cup {None}
      BY <2>1, <1>t, NoTokenFacts DEF SessionsType, Session
    <3>2. NextTokens(t) \in Token
      BY <2>1, <3>1, <1>t, TokensTyped
    <3>3. Answer(SetCookies(q, NextTokens(t)), "ok") \in Request
      BY <2>1, <3>2, SetCookiesTyped, AnswerTyped
    <3>4. Await(q, "info") \in Request /\ {t.h} \in SUBSET Handles
      BY <2>1, <3>1, AwaitTyped DEF Pcs
    <3>5. [Await(q, "info") EXCEPT !.hs = {t.h}, !.user = sessions[t.h].user] \in Request
      BY <3>1, <3>4, TwoFieldsTyped
    <3> QED BY <1>7, <1>s, <2>2, <2>3, <3>3, <3>5 DEF RefreshCall
  <2>4. ASSUME NEW e, sessions' = sessions, Step(r, Fail(ClearCookies(q), e)) PROVE TypeOK'
    BY <1>7, <1>s, <2>1, <2>2, <2>4, ClearCookiesTyped, FailTyped DEF RefreshCall
  <2>5. CASE CallFails(Refreshed(t)) /\ Step(r, Fail(q, "SuperTokens"))
    <3>1. sessions' \in [Handles -> Session]
      BY <2>2, <2>5 DEF CallFails
    <3> QED BY <1>7, <1>s, <2>1, <2>5, <3>1, FailTyped DEF RefreshCall
  <2> QED BY <1>7, <2>3, <2>4, <2>5 DEF RefreshCall
<1>8. ASSUME NEW r \in Requests, SlideInfo(r) PROVE TypeOK'
  <2> DEFINE q == req[r]
  <2>1. q \in Request
    BY <1>q
  <2>2. CASE \E h \in q.hs : Step(r, [Await(q, "create") EXCEPT !.fp = InfoData(h)])
    <3>1. PICK h \in q.hs : Step(r, [Await(q, "create") EXCEPT !.fp = InfoData(h)])
      BY <2>2
    <3>2. h \in Handles
      BY <2>1, CookieTyped
    <3>3. InfoData(h) \in Fingerprints \cup {None}
      BY <3>2, <1>t DEF InfoData, SessionsType, Session
    <3>4. Await(q, "create") \in Request
      BY <2>1, AwaitTyped DEF Pcs
    <3>5. [Await(q, "create") EXCEPT !.fp = InfoData(h)] \in Request
      BY <3>3, <3>4, FieldsTyped
    <3> QED BY <1>8, <1>u, <3>1, <3>5 DEF SlideInfo
  <2>3. CASE Step(r, Fail(q, "SuperTokens"))
    BY <1>8, <1>u, <2>1, <2>3, FailTyped DEF SlideInfo
  <2> QED BY <1>8, <2>2, <2>3 DEF SlideInfo
<1>9. ASSUME NEW r \in Requests, SlideCreate(r) PROVE TypeOK'
  <2> DEFINE q == req[r]
  <2>1. q \in Request
    BY <1>q
  <2>2. PICK h \in Fresh, old \in q.hs :
          /\ sessions' = Created(h, q.user, q.fp) \/ sessions' = sessions
          /\ hist' = [hist EXCEPT ![h].from = old] \/ hist' = hist
          /\ \/ Step(r, [Await(q, "drop_old") EXCEPT !.tok = FirstTokens(h)])
             \/ Step(r, Fail(q, "SuperTokens"))
    BY <1>9 DEF SlideCreate
  <2>3. h \in Handles /\ old \in Handles
    BY <2>1, CookieTyped DEF Fresh
  <2>4. sessions' \in [Handles -> Session]
    <3>1. Created(h, q.user, q.fp) \in [Handles -> Session]
      BY <2>1, <2>3, <1>t, CreatedTyped, CookieTyped
    <3> QED BY <2>2, <3>1, <1>t DEF SessionsType
  <2>5. hist' \in [Handles -> [from : Handles \cup {None}, killer : Routes \cup {"none"}]]
    BY <2>2, <2>3 DEF TypeOK
  <2>6. FirstTokens(h) \in Token
    BY <2>3, <1>t, CoreAssumption DEF FirstTokens, Token
  <2>7. Await(q, "drop_old") \in Request
    BY <2>1, AwaitTyped DEF Pcs
  <2>8. [Await(q, "drop_old") EXCEPT !.tok = FirstTokens(h)] \in Request
    BY <2>6, <2>7, FieldsTyped
  <2>9. req' \in [Requests -> Request]
    BY <2>1, <2>2, <2>8, <1>t, FailTyped, StepTyped
  <2> QED BY <1>9, <2>4, <2>5, <2>9 DEF SlideCreate, TypeOK
<1>10. ASSUME NEW r \in Requests, SlideRevoke(r) PROVE TypeOK'
  <2>1. req[r] \in Request /\ req[r].ep \in Routes /\ req[r].tok \in Token \cup {NoToken}
    BY <1>10, <1>q, CookieTyped DEF SlideRevoke, At, Routes
  <2>2. Answer(SetCookies(req[r], req[r].tok), "ok") \in Request
    BY <2>1, SetCookiesTyped, AnswerTyped
  <2> QED BY <1>10, <1>w, <2>1, <2>2 DEF SlideRevoke
<1>11. ASSUME NEW r \in Requests, LogoffLocal(r) PROVE TypeOK'
  BY <1>11, <1>u, <1>q, AnswerTyped, ClearCookiesTyped DEF LogoffLocal
<1>12. ASSUME NEW r \in Requests, LogoffVerify(r) PROVE TypeOK'
  <2> DEFINE q == req[r]
  <2>1. q \in Request /\ q.acc \in Token /\ q.acc.h \in Handles
    BY <1>12, <1>q, CookieTyped, NoTokenFacts DEF LogoffVerify
  <2>2. Verified(q.acc) \in [Handles -> Session] /\ sessions \in [Handles -> Session]
    BY <2>1, <1>t, VerifiedTyped DEF SessionsType
  <2>3. sessions' \in [Handles -> Session]
    BY <1>12, <2>2 DEF LogoffVerify, CallFails
  <2>4. Await(q, "lo_revoke") \in Request /\ {q.acc.h} \in SUBSET Handles
    BY <2>1, AwaitTyped DEF Pcs
  <2>5. [Await(q, "lo_revoke") EXCEPT !.hs = {q.acc.h}] \in Request
    BY <2>4, FieldsTyped
  <2>6. Answer(ClearCookies(q), "ok") \in Request
    BY <2>1, ClearCookiesTyped, AnswerTyped
  <2> QED BY <1>12, <1>s, <2>3, <2>5, <2>6 DEF LogoffVerify
<1>13. ASSUME NEW r \in Requests, LogoffRevoke(r) PROVE TypeOK'
  <2>1. req[r] \in Request /\ req[r].ep \in Routes
    BY <1>13, <1>q DEF LogoffRevoke, At, Routes
  <2>2. Answer(ClearCookies(req[r]), "ok") \in Request
    BY <2>1, ClearCookiesTyped, AnswerTyped
  <2> QED BY <1>13, <1>w, <2>1, <2>2 DEF LogoffRevoke
<1>14. ASSUME NEW r \in Requests, SignInUser(r) PROVE TypeOK'
  <2> DEFINE q == req[r]
  <2>1. q \in Request /\ q.b \in Fingerprints \cup {None}
    BY <1>q, CookieTyped, AuthAssumption
  <2>2. mirror' \subseteq Users
    BY <1>14 DEF SignInUser, TypeOK
  <2>3. Await(q, "si_create") \in Request
    BY <2>1, AwaitTyped DEF Pcs
  <2>4. \A u \in Users : [Await(q, "si_create") EXCEPT !.user = u, !.fp = q.b] \in Request
    BY <2>1, <2>3, TwoFieldsTyped
  <2>5. req' \in [Requests -> Request]
    BY <1>14, <1>t, <2>1, <2>4, FailTyped, StepTyped DEF SignInUser
  <2> QED BY <1>14, <2>2, <2>5 DEF SignInUser, TypeOK
<1>15. ASSUME NEW r \in Requests, SignInCreate(r) PROVE TypeOK'
  <2> DEFINE q == req[r]
  <2>1. q \in Request
    BY <1>q
  <2>2. PICK h \in Fresh :
          /\ sessions' = Created(h, q.user, q.fp) \/ sessions' = sessions
          /\ \/ Step(r, Answer(SetCookies(q, FirstTokens(h)), "ok"))
             \/ Step(r, Fail(q, "SuperTokens"))
    BY <1>15 DEF SignInCreate, CallFails
  <2>3. h \in Handles
    BY DEF Fresh
  <2>4. Created(h, q.user, q.fp) \in [Handles -> Session]
    BY <2>1, <2>3, <1>t, CreatedTyped, CookieTyped
  <2>5. sessions' \in [Handles -> Session]
    BY <2>2, <2>4, <1>t DEF SessionsType
  <2>6. FirstTokens(h) \in Token
    BY <2>3, <1>t, CoreAssumption DEF FirstTokens, Token
  <2>7. Answer(SetCookies(q, FirstTokens(h)), "ok") \in Request
    BY <2>1, <2>6, SetCookiesTyped, AnswerTyped
  <2>8. Fail(q, "SuperTokens") \in Request
    BY <2>1, FailTyped
  <2> QED BY <1>15, <1>s, <2>2, <2>5, <2>7, <2>8 DEF SignInCreate
<1>16. ASSUME NEW r \in Requests, NEW b \in Browsers, NEW ep \in Endpoints, Send(r, b, ep)
       PROVE  TypeOK'
  <2>1. req' \in [Requests -> Request]
    BY <1>16, SendTyped
  <2> QED BY <1>16, <2>1 DEF Send, TypeOK
<1>17. ASSUME NEW r \in Requests, Deliver(r) PROVE TypeOK'
  <2>1. req' \in [Requests -> Request]
    BY <1>17, <1>t, IdleTyped, StepTyped DEF Deliver
  <2>2. jar' \in [Browsers -> [acc : Token \cup {NoToken}, ref : Token \cup {NoToken}]]
    <3>1. ASSUME NEW b \in Browsers
          PROVE  Received(jar[b], req[r])
                   \in [acc : Token \cup {NoToken}, ref : Token \cup {NoToken}]
      BY <1>q, ReceivedTyped DEF TypeOK
    <3> QED BY <1>17, <3>1 DEF Deliver, TypeOK
  <2> QED BY <1>17, <2>1, <2>2 DEF Deliver, TypeOK
<1>18. ASSUME NEW r \in Requests, Abandon(r) PROVE TypeOK'
  <2>1. [req[r] EXCEPT !.waited = FALSE] \in Request
    BY <1>q, FieldsTyped
  <2> QED BY <1>18, <1>u, <2>1 DEF Abandon
<1>19. ASSUME NEW r \in Requests, Drop(r) PROVE TypeOK'
  BY <1>19, <1>u, IdleTyped DEF Drop
<1>23. ASSUME NEW r \in Requests, ListSessions(r) PROVE TypeOK'
  <2> DEFINE q == req[r]
             hs == HandlesOf(q.user)
             a == Await(q, "dev_info")
  <2>1. q \in Request /\ hs \in SUBSET Handles
    BY <1>q DEF HandlesOf
  <2>2. a \in Request
    BY <2>1, AwaitTyped DEF Pcs
  <2>3. [a EXCEPT !.hs = hs, !.todo = hs] \in Request
    <3> HIDE DEF a, hs
    <3> QED BY <2>1, <2>2, TwoListsTyped
  <2>4. PICK p \in Request : Step(r, p)
    BY <1>23, <2>1, <2>3, AnswerTyped, FailTyped DEF ListSessions
  <2> QED BY <1>23, <1>u, <2>4 DEF ListSessions
<1>24. ASSUME NEW r \in Requests, ListInfo(r) PROVE TypeOK'
  <2> DEFINE q == req[r]
             Seen(h) == IF Alive(h) THEN q.shown \cup {h} ELSE q.shown
             Left(h) == q.todo \ {h}
             Read(h) == [q EXCEPT !.todo = Left(h), !.shown = Seen(h)]
  <2>1. q \in Request
    BY <1>q
  <2>2. ASSUME NEW h \in q.todo PROVE Read(h) \in Request
    <3>1. Left(h) \in SUBSET Handles /\ Seen(h) \in SUBSET Handles
      BY <2>1, <2>2, CookieTyped
    <3> HIDE DEF Left, Seen
    <3> QED BY <2>1, <3>1, TwoListsTyped
  <2>3. \/ \E h \in q.todo :
              Step(r, IF Read(h).todo = {} THEN Answer(Read(h), "ok") ELSE Read(h))
        \/ Step(r, Fail(q, "SuperTokens"))
    BY <1>24, <2>1 DEF ListInfo
  <2> HIDE DEF Read
  <2>4. PICK p \in Request : Step(r, p)
    BY <2>1, <2>2, <2>3, AnswerTyped, FailTyped
  <2> QED BY <1>24, <1>u, <2>4 DEF ListInfo
<1>20. CASE Restart
  BY <1>20, IdleTyped DEF Restart, TypeOK
<1>21. CASE Tick
  BY <1>21 DEF Tick, TypeOK
<1>22. CASE UNCHANGED vars
  BY <1>22 DEF vars, TypeOK
<1> QED
  BY <1>1, <1>2, <1>3, <1>4, <1>5, <1>6, <1>7, <1>8, <1>9, <1>10, <1>11, <1>12, <1>13,
     <1>14, <1>15, <1>16, <1>17, <1>18, <1>19, <1>20, <1>21, <1>22, <1>23, <1>24
  DEF Next, Serve, Client

\* Every reachable state is well typed: in particular no request ever refers to
\* a session, a user or a token outside the sets the core hands out.
THEOREM TypeCorrect == Spec => []TypeOK
<1> QED BY InitTyped, NextTyped, PTL DEF Spec

-----------------------------------------------------------------------------
(* The inductive invariant.  Its parts about requests are restated for one *)
(* request q, one session table s and one time n, so that what time and    *)
(* other requests do to it is a single lemma.                              *)

AliveAt(h, s, n) == s[h].st = "live" /\ n < s[h].exp

Known(t, s) == t # NoToken => s[t.h].st # "unused"

RequestSound(q, s, n) ==
  /\ Known(q.acc, s) /\ Known(q.ref, s) /\ Known(q.tok, s)
  /\ \A h \in q.hs : s[h].st # "unused"
  /\ q.dead => /\ q.acc # NoToken /\ ~AliveAt(q.acc.h, s, n)
               /\ q.pc # "lookup" /\ q.ctx = None
  /\ q.pc \in {"verify", "lookup", "handler"} => q.hs = {}
  /\ q.pc = "dev_revoke" => /\ \A h \in q.hs : s[h].user = q.user
                            /\ q.ep = "others" => q.ctx \notin q.hs
  /\ q.pc \in {"info", "create", "drop_old"} =>
       q.ep = "refresh" /\ q.ref # NoToken /\ q.hs = {q.ref.h}
  /\ q.pc = "lo_revoke" => q.ep = "logoff" /\ q.hs = {q.acc.h}
  /\ q.pc = "reply" /\ q.ep \in {"revoke", "others"} /\ q.out = "ok" =>
       \A h \in q.hs : s[h].st = "removed"
  /\ q.tok # NoToken =>
       s[q.tok.h].exp + AccessValidity + (Second - 1) > q.tok.aexp + Threshold
  /\ q.pc \in {"info", "create"} => \A h \in q.hs : q.user = s[h].user
  /\ q.pc = "create" =>
       \A h \in q.hs : q.fp = s[h].fp \/ (q.fp = None /\ ~AliveAt(h, s, n))

\* The parts about whom a request acts as, and what it lists.
ActorSound(q, s, n) ==
  /\ q.pc # "idle" => q.b # None
  /\ q.pc \in {"lookup", "lo_revoke"} => q.acc # NoToken
  /\ q.pc \in {"verify", "lookup"} => q.ctx = None
  /\ q.ctx # None => q.acc # NoToken /\ q.ctx = q.acc.h
  /\ q.pc \in {"handler", "dev_info", "dev_revoke"} /\ q.ctx # None =>
       q.user = s[q.ctx].user
  /\ q.ep \in Protected
       /\ (q.pc \in {"handler", "dev_info", "dev_revoke"} \/ q.out = "ok") => q.ctx # None
  /\ q.pc = "dev_revoke" => q.ctx \notin q.hs \/ q.hs = {q.ctx}
  /\ q.pc = "si_create" => q.user # None /\ q.fp # None
  /\ q.todo \cup q.shown \subseteq q.hs
  /\ q.pc = "dev_info" /\ q.ep = "list" =>
       /\ \A h \in q.hs \cup {q.ctx} : AliveAt(h, s, n) => h \in q.todo \cup q.shown
       /\ \A h \in q.hs : s[h].user = q.user
  /\ q.pc = "reply" /\ q.ep = "list" /\ q.out = "ok" =>
       /\ \A h \in q.hs \cup {q.ctx} : AliveAt(h, s, n) => h \in q.shown
       /\ \A h \in q.shown : s[h].user = q.user

Actors == \A r \in Requests : ActorSound(req[r], sessions, now)

JarSound(s) ==
  \A b \in Browsers :
    /\ Known(jar[b].acc, s) /\ Known(jar[b].ref, s)
    /\ HalfWindow(jar[b].acc) /\ HalfWindow(jar[b].ref)
    /\ jar[b].acc # NoToken /\ jar[b].ref # NoToken => jar[b].acc = jar[b].ref

HistSound ==
  \A h \in Handles :
    hist[h].from # None =>
      /\ sessions[h].st # "unused" /\ sessions[hist[h].from].st # "unused"
      /\ sessions[h].user = sessions[hist[h].from].user
      /\ \/ sessions[h].fp = sessions[hist[h].from].fp
         \/ sessions[h].fp = None /\ ~Alive(hist[h].from)

LEMMA IInvParts ==
  IInv <=> /\ TypeOK
           /\ \A r \in Requests : RequestSound(req[r], sessions, now)
           /\ JarSound(sessions)
           /\ HistSound
           /\ Actors
<1> USE DEF AliveAt, Alive, Known, KnownToken
<1>1. ASSUME IInv, NEW r \in Requests PROVE RequestSound(req[r], sessions, now)
  <2> DEFINE q == req[r]
  <2>0. q.hs \subseteq Handles
    BY <1>1, CookieTyped DEF IInv, TypeOK
  <2>1. /\ Known(q.acc, sessions) /\ Known(q.ref, sessions) /\ Known(q.tok, sessions)
        /\ \A h \in q.hs : sessions[h].st # "unused"
    BY <1>1 DEF IInv, TokensKnown
  <2>2. q.dead => /\ q.acc # NoToken /\ ~AliveAt(q.acc.h, sessions, now)
                  /\ q.pc # "lookup" /\ q.ctx = None
    BY <1>1 DEF IInv, DeadStaysOut
  <2>3. /\ q.pc \in {"verify", "lookup", "handler"} => q.hs = {}
        /\ q.pc = "dev_revoke" => /\ \A h \in q.hs : sessions[h].user = q.user
                                  /\ q.ep = "others" => q.ctx \notin q.hs
        /\ q.pc \in {"info", "create", "drop_old"} =>
             q.ep = "refresh" /\ q.ref # NoToken /\ q.hs = {q.ref.h}
        /\ q.pc = "lo_revoke" => q.ep = "logoff" /\ q.hs = {q.acc.h}
    BY <1>1 DEF IInv, RevocationsSound
  <2>4. q.pc = "reply" /\ q.ep \in {"revoke", "others"} /\ q.out = "ok" =>
          \A h \in q.hs : sessions[h].st = "removed"
    BY <1>1 DEF IInv, AckedRevokeIsFinal, At
  <2>5. q.tok # NoToken =>
          sessions[q.tok.h].exp + AccessValidity + (Second - 1) > q.tok.aexp + Threshold
    BY <1>1 DEF IInv, WindowsHeld, HalfWindow
  <2>6. /\ q.pc \in {"info", "create"} => \A h \in q.hs : q.user = sessions[h].user
        /\ q.pc = "create" =>
             \A h \in q.hs : q.fp = sessions[h].fp
                             \/ (q.fp = None /\ ~AliveAt(h, sessions, now))
    BY <1>1, <2>0 DEF IInv, ReplacementsSound
  <2> QED BY <2>1, <2>2, <2>3, <2>4, <2>5, <2>6 DEF RequestSound
<1>2. IInv => TypeOK /\ JarSound(sessions) /\ HistSound
  BY DEF IInv, TokensKnown, CookiePairCoherent, WindowsHeld, ReplacementsSound,
         FingerprintCarried, JarSound, HistSound
<1>4. IInv => Actors
  BY DEF IInv, ActorsKnown, ListsSound, DevicesListed, At, Actors, ActorSound
<1>3. ASSUME TypeOK, JarSound(sessions), HistSound, Actors,
             \A r \in Requests : RequestSound(req[r], sessions, now)
      PROVE  IInv
  <2>1. TokensKnown
    BY <1>3 DEF RequestSound, JarSound, TokensKnown
  <2>2. CookiePairCoherent
    BY <1>3 DEF JarSound, CookiePairCoherent
  <2>3. DeadStaysOut
    BY <1>3 DEF RequestSound, DeadStaysOut
  <2>4. RevocationsSound
    BY <1>3 DEF RequestSound, RevocationsSound
  <2>5. AckedRevokeIsFinal
    BY <1>3 DEF RequestSound, AckedRevokeIsFinal, At
  <2>6. WindowsHeld
    BY <1>3 DEF RequestSound, JarSound, WindowsHeld, HalfWindow
  <2>7. ReplacementsSound
    BY <1>3 DEF RequestSound, HistSound, ReplacementsSound
  <2>8. FingerprintCarried
    BY <1>3 DEF HistSound, FingerprintCarried
  <2>9. ActorsKnown
    BY <1>3 DEF Actors, ActorSound, ActorsKnown
  <2>10. ListsSound
    BY <1>3 DEF Actors, ActorSound, ListsSound, At
  <2>11. DevicesListed
    BY <1>3 DEF Actors, ActorSound, DevicesListed, At
  <2> QED BY <1>3, <2>1, <2>2, <2>3, <2>4, <2>5, <2>6, <2>7, <2>8, <2>9, <2>10, <2>11 DEF IInv
<1> QED BY <1>1, <1>2, <1>3, <1>4

\* What every step does to the session table: time passes, sessions come into
\* being and are removed, and the rest of a session that exists stays as it is.
Ages(s, n, s2, n2) ==
  /\ n <= n2
  /\ \A h \in Handles :
       s[h].st # "unused" =>
         /\ s2[h].st \in {s[h].st, "removed"}
         /\ s2[h].user = s[h].user /\ s2[h].fp = s[h].fp /\ s2[h].exp = s[h].exp

LEMMA Aging ==
  ASSUME NEW q \in Request, NEW s \in [Handles -> Session], NEW s2 \in [Handles -> Session],
         NEW n \in Nat, NEW n2 \in Nat, Ages(s, n, s2, n2), RequestSound(q, s, n)
  PROVE  RequestSound(q, s2, n2)
<1>1. \A h \in Handles : s[h].st # "unused" =>
        /\ s2[h].st # "unused"
        /\ s[h].st = "removed" => s2[h].st = "removed"
        /\ s2[h].user = s[h].user /\ s2[h].fp = s[h].fp /\ s2[h].exp = s[h].exp
        /\ ~AliveAt(h, s, n) => ~AliveAt(h, s2, n2)
  <2> SUFFICES ASSUME NEW h \in Handles, s[h].st # "unused"
               PROVE  /\ s2[h].st # "unused"
                      /\ s[h].st = "removed" => s2[h].st = "removed"
                      /\ s2[h].user = s[h].user /\ s2[h].fp = s[h].fp
                      /\ s2[h].exp = s[h].exp
                      /\ ~AliveAt(h, s, n) => ~AliveAt(h, s2, n2)
    OBVIOUS
  <2>1. s[h].exp \in Nat
    BY DEF Session
  <2> QED BY <2>1 DEF Ages, AliveAt
<1>2. /\ q.hs \subseteq Handles
      /\ \A t \in {q.acc, q.ref, q.tok} : t # NoToken => t.h \in Handles
  BY CookieTyped, NoTokenFacts
<1> QED BY <1>1, <1>2 DEF RequestSound, Known

LEMMA VerifiedAges ==
  ASSUME TypeOK, NEW t \in Token \cup {NoToken}
  PROVE  Ages(sessions, now, Verified(t), now)
<1> USE DEF TypeOK
<1>1. now <= now
  OBVIOUS
<1>2. \A h \in Handles : /\ Verified(t)[h].st = sessions[h].st
                         /\ Verified(t)[h].user = sessions[h].user
                         /\ Verified(t)[h].fp = sessions[h].fp
                         /\ Verified(t)[h].exp = sessions[h].exp
  BY DEF Verified, Session
<1> QED BY <1>1, <1>2 DEF Ages

LEMMA RefreshedAges ==
  ASSUME TypeOK, NEW t \in Token
  PROVE  Ages(sessions, now, Refreshed(t), now)
<1> USE DEF TypeOK
<1>1. now <= now
  OBVIOUS
<1>2. \A h \in Handles : /\ Refreshed(t)[h].st = sessions[h].st
                         /\ Refreshed(t)[h].user = sessions[h].user
                         /\ Refreshed(t)[h].fp = sessions[h].fp
                         /\ Refreshed(t)[h].exp = sessions[h].exp
  BY DEF Refreshed, Session
<1> QED BY <1>1, <1>2 DEF Ages

LEMMA RemovedAges ==
  ASSUME TypeOK, NEW hs
  PROVE  /\ Ages(sessions, now, Removed(hs), now)
         /\ \A h \in Handles : h \in hs /\ sessions[h].st # "unused" =>
              Removed(hs)[h].st = "removed"
BY DEF TypeOK, Ages, Removed, Session

LEMMA CreatedAges ==
  ASSUME TypeOK, NEW h \in Fresh, NEW u, NEW d
  PROVE  Ages(sessions, now, Created(h, u, d), now)
BY DEF TypeOK, Ages, Created, Fresh, Session

\* The helpers change the fields they are for, and no others.
SameButPc(p, q) ==
  /\ p.b = q.b /\ p.ep = q.ep /\ p.acc = q.acc /\ p.ref = q.ref /\ p.dead = q.dead
  /\ p.ctx = q.ctx /\ p.user = q.user /\ p.hs = q.hs /\ p.fp = q.fp /\ p.tok = q.tok
  /\ p.todo = q.todo /\ p.shown = q.shown

LEMMA AwaitFields ==
  ASSUME NEW q \in Request, NEW pc
  PROVE  SameButPc(Await(q, pc), q) /\ Await(q, pc).pc = pc /\ Await(q, pc).out = q.out
BY DEF Await, Request, SameButPc

LEMMA AnswerFields ==
  ASSUME NEW q \in Request, NEW out
  PROVE  /\ SameButPc(Answer(q, out), q)
         /\ Answer(q, out).pc = "reply" /\ Answer(q, out).out = out
BY DEF Answer, Request, SameButPc

LEMMA ClearCookiesFields ==
  ASSUME NEW q \in Request
  PROVE  SameButPc(ClearCookies(q), q) /\ ClearCookies(q).pc = q.pc
BY DEF ClearCookies, Request, SameButPc

LEMMA SetCookiesFields ==
  ASSUME NEW q \in Request, NEW t
  PROVE  LET p == SetCookies(q, t) IN
         /\ p.b = q.b /\ p.ep = q.ep /\ p.acc = q.acc /\ p.ref = q.ref /\ p.dead = q.dead
         /\ p.ctx = q.ctx /\ p.user = q.user /\ p.hs = q.hs /\ p.fp = q.fp /\ p.tok = t
         /\ p.todo = q.todo /\ p.shown = q.shown
BY DEF SetCookies, Request

LEMMA EnterFields ==
  ASSUME NEW q \in Request
  PROVE  /\ SameButPc(Enter(q), q)
         /\ \/ /\ Enter(q).pc = "handler" /\ Enter(q).out = q.out
               /\ q.ep \in Protected => q.ctx # None
            \/ (Enter(q).pc = "reply" /\ Enter(q).out \in ClientErrors)
BY AwaitFields, AnswerFields, ClientErrorTyped DEF Enter, Fail

\* A request that only moves on, with nothing to revoke or nothing to report,
\* stays sound.
LEMMA MovedSound ==
  ASSUME NEW q \in Request, NEW p \in Request, NEW s, NEW n,
         RequestSound(q, s, n), SameButPc(p, q),
         \/ p.pc = "handler" /\ q.hs = {}
         \/ p.pc = "lookup" /\ q.hs = {} /\ ~q.dead
         \/ p.pc = "reply" /\ (p.out \in ClientErrors \cup {"kept"} \/ p.ep \notin {"revoke", "others"} \/ p.hs = {})
  PROVE  RequestSound(p, s, n)
BY DEF RequestSound, SameButPc, ClientErrors, Unauthorized, Refusals

\* The history and the cookie jars, when nothing touches them.
LEMMA JarAging ==
  ASSUME TypeOK, TypeOK', Ages(sessions, now, sessions', now'), UNCHANGED jar,
         JarSound(sessions)
  PROVE  JarSound(sessions)'
<1>1. \A b \in Browsers : /\ jar[b].acc # NoToken => jar[b].acc.h \in Handles
                          /\ jar[b].ref # NoToken => jar[b].ref.h \in Handles
  BY NoTokenFacts DEF TypeOK
<1>2. \A h \in Handles : sessions[h].st # "unused" =>
        sessions'[h].st # "unused" /\ sessions'[h].exp = sessions[h].exp
  BY DEF Ages
<1> QED BY <1>1, <1>2 DEF JarSound, Known, HalfWindow

LEMMA HistAging ==
  ASSUME TypeOK, TypeOK', Ages(sessions, now, sessions', now'), HistSound,
         \A h \in Handles : hist'[h].from = hist[h].from
  PROVE  HistSound'
<1>1. \A h \in Handles : hist[h].from # None => hist[h].from \in Handles
  BY DEF TypeOK
<1>2. \A h \in Handles : sessions[h].st # "unused" =>
        /\ sessions'[h].st # "unused"
        /\ sessions'[h].user = sessions[h].user /\ sessions'[h].fp = sessions[h].fp
        /\ ~Alive(h) => ~Alive(h)'
  <2> SUFFICES ASSUME NEW h \in Handles, sessions[h].st # "unused"
               PROVE  /\ sessions'[h].st # "unused"
                      /\ sessions'[h].user = sessions[h].user
                      /\ sessions'[h].fp = sessions[h].fp
                      /\ ~Alive(h) => ~Alive(h)'
    OBVIOUS
  <2>1. sessions[h].exp \in Nat /\ now \in Nat /\ now' \in Nat
    BY DEF TypeOK, Session
  <2> QED BY <2>1 DEF Ages, Alive
<1> QED BY <1>1, <1>2 DEF HistSound

LEMMA RevokeAges ==
  ASSUME TypeOK, NEW q \in Request, Revoke(q) \/ RevokeFails(q), now' = now
  PROVE  /\ Ages(sessions, now, sessions', now')
         /\ \A h \in Handles : hist'[h].from = hist[h].from
         /\ Revoke(q) /\ (\A h \in q.hs : sessions[h].st # "unused") =>
              \A h \in q.hs : sessions'[h].st = "removed"
<1>1. Ages(sessions, now, Removed(q.hs), now) /\ Ages(sessions, now, sessions, now)
  BY RemovedAges DEF TypeOK, Ages
<1>2. \A h \in Handles : Killed(q)[h].from = hist[h].from
  BY DEF Killed, TypeOK
<1>3. \A h \in q.hs : sessions[h].st # "unused" => Removed(q.hs)[h].st = "removed"
  BY RemovedAges, CookieTyped
<1> QED BY <1>1, <1>2, <1>3 DEF Revoke, RevokeFails

-----------------------------------------------------------------------------
(* The invariant is inductive.                                             *)

Parts ==
  /\ TypeOK
  /\ \A r \in Requests : RequestSound(req[r], sessions, now)
  /\ JarSound(sessions)
  /\ HistSound

LEMMA IInvIsParts == IInv <=> Parts /\ Actors
BY IInvParts DEF Parts

LEMMA IInvIsPartsNext == IInv' <=> Parts' /\ Actors'
BY IInvIsParts, PTL

\* One request takes a step; the others only see the session table age.
LEMMA StepSound ==
  ASSUME Parts, TypeOK', NEW r \in Requests, NEW p \in Request, Step(r, p),
         Ages(sessions, now, sessions', now'),
         RequestSound(p, sessions', now'), JarSound(sessions)', HistSound'
  PROVE  Parts'
<1>1. ASSUME NEW r2 \in Requests
      PROVE  RequestSound(req'[r2], sessions', now')
  <2>1. CASE r2 = r
    BY <2>1 DEF Step, Parts, TypeOK
  <2>2. CASE r2 # r
    <3>1. req'[r2] = req[r2] /\ req[r2] \in Request /\ RequestSound(req[r2], sessions, now)
      BY <2>2 DEF Step, Parts, TypeOK
    <3>2. /\ sessions \in [Handles -> Session] /\ sessions' \in [Handles -> Session]
          /\ now \in Nat /\ now' \in Nat
      BY DEF Parts, TypeOK
    <3> QED BY <3>1, <3>2, Aging
  <2> QED BY <2>1, <2>2
<1> QED BY <1>1 DEF Parts

\* A step of the server that leaves the jars and the history as they are.
LEMMA QuietStepSound ==
  ASSUME Parts, TypeOK', NEW r \in Requests, NEW p \in Request, Step(r, p),
         Ages(sessions, now, sessions', now'), UNCHANGED <<jar, hist>>,
         RequestSound(p, sessions', now')
  PROVE  Parts'
<1>1. JarSound(sessions)'
  BY JarAging DEF Parts
<1>2. HistSound'
  BY HistAging DEF Parts
<1> QED BY <1>1, <1>2, StepSound

LEMMA MwVerifySound ==
  ASSUME Parts, TypeOK', NEW r \in Requests, MwVerify(r)
  PROVE  Parts'
<1> DEFINE q == req[r]
<1>1. q \in Request /\ RequestSound(q, sessions, now) /\ q.acc \in Token \cup {NoToken}
  BY CookieTyped DEF Parts, TypeOK
<1>2. Ages(sessions, now, sessions', now')
  <2>1. Ages(sessions, now, Verified(q.acc), now) /\ Ages(sessions, now, sessions, now)
    BY <1>1, VerifiedAges DEF Parts, TypeOK, Ages
  <2> QED BY <2>1 DEF MwVerify, CallFails
<1>3. RequestSound(q, sessions', now') /\ q.hs = {} /\ q.pc = "verify"
  <2>1. RequestSound(q, sessions', now')
    BY <1>1, <1>2, Aging DEF Parts, TypeOK
  <2> QED BY <1>1, <2>1 DEF RequestSound, MwVerify
<1>4. CASE Step(r, Enter(q))
  <2>1. Enter(q) \in Request /\ RequestSound(Enter(q), sessions', now')
    BY <1>1, <1>3, EnterTyped, EnterFields, MovedSound
  <2> QED BY <1>2, <1>4, <2>1, QuietStepSound DEF MwVerify
<1>5. CASE Step(r, Resolved(q, VerifyStatus(q.acc)))
  <2> DEFINE p == Resolved(q, VerifyStatus(q.acc))
  <2>1. p \in Request
    BY <1>1, ResolvedTyped
  <2>2. CASE VerifyStatus(q.acc) = "OK"
    <3>1. p = Await(q, "lookup")
      BY <2>2 DEF Resolved
    <3>2. ~q.dead
      BY <1>1, <2>2 DEF RequestSound, VerifyStatus, Alive, AliveAt
    <3>3. RequestSound(p, sessions', now')
      BY <1>1, <1>3, <2>1, <3>1, <3>2, AwaitFields, MovedSound
    <3> QED BY <1>2, <1>5, <2>1, <3>3, QuietStepSound DEF MwVerify
  <2>3. CASE VerifyStatus(q.acc) = "TRY_REFRESH_TOKEN"
    <3>1. p = Enter(q)
      BY <2>3 DEF Resolved
    <3>2. RequestSound(p, sessions', now')
      BY <1>1, <1>3, <2>1, <3>1, EnterFields, MovedSound
    <3> QED BY <1>2, <1>5, <2>1, <3>2, QuietStepSound DEF MwVerify
  <2>4. CASE VerifyStatus(q.acc) = "UNAUTHORISED"
    <3>1. p = Enter(ClearCookies(q)) /\ ClearCookies(q) \in Request
      BY <1>1, <2>4, ClearCookiesTyped DEF Resolved
    <3>2. SameButPc(p, q) /\ (p.pc = "handler" \/ (p.pc = "reply" /\ p.out \in ClientErrors))
      BY <1>1, <3>1, ClearCookiesFields, EnterFields DEF SameButPc
    <3>3. RequestSound(p, sessions', now')
      BY <1>1, <1>3, <2>1, <3>2, MovedSound
    <3> QED BY <1>2, <1>5, <2>1, <3>3, QuietStepSound DEF MwVerify
  <2> QED BY <2>2, <2>3, <2>4 DEF VerifyStatus
<1> QED BY <1>4, <1>5 DEF MwVerify

LEMMA MwLookupSound ==
  ASSUME Parts, TypeOK', NEW r \in Requests, MwLookup(r)
  PROVE  Parts'
<1> DEFINE q == req[r]
           u == sessions[q.acc.h].user
           w == [q EXCEPT !.ctx = q.acc.h, !.user = u]
<1>1. q \in Request /\ RequestSound(q, sessions, now) /\ q.hs = {} /\ ~q.dead
  BY DEF Parts, TypeOK, MwLookup, RequestSound
<1>2. Ages(sessions, now, sessions', now') /\ UNCHANGED <<sessions, now>>
  BY DEF MwLookup, Ages, Parts, TypeOK
<1>3. CASE u \in mirror /\ Step(r, Enter(w))
  <2>1. u \in Users \cup {None} /\ q.acc.h \in Handles \cup {None}
    BY <1>1, <1>3, CookieTyped, NoTokenFacts DEF Parts, TypeOK
  <2>2. w \in Request
    <3> HIDE DEF q, u
    <3> QED BY <1>1, <2>1, TwoFieldsTyped
  <2>3. /\ w.pc = q.pc /\ w.acc = q.acc /\ w.ref = q.ref /\ w.tok = q.tok
        /\ w.hs = {} /\ ~w.dead /\ w.ep = q.ep /\ w.out = q.out
    BY <1>1 DEF Request
  <2>4. RequestSound(w, sessions, now)
    <3> HIDE DEF w, u
    <3> QED BY <1>1, <2>3 DEF RequestSound, MwLookup
  <2>5. Enter(w) \in Request /\ RequestSound(Enter(w), sessions, now)
    <3> HIDE DEF w
    <3> QED BY <2>2, <2>3, <2>4, EnterTyped, EnterFields, MovedSound
  <2> QED BY <1>2, <1>3, <2>5, QuietStepSound DEF MwLookup
<1>4. CASE Step(r, Enter(ClearCookies(q)))
  <2> DEFINE p == Enter(ClearCookies(q))
  <2>1. p \in Request /\ ClearCookies(q) \in Request
    BY <1>1, ClearCookiesTyped, EnterTyped
  <2>2. SameButPc(p, q) /\ (p.pc = "handler" \/ (p.pc = "reply" /\ p.out \in ClientErrors))
    BY <1>1, <2>1, ClearCookiesFields, EnterFields DEF SameButPc
  <2>3. RequestSound(p, sessions, now)
    BY <1>1, <2>1, <2>2, MovedSound
  <2> QED BY <1>2, <1>4, <2>1, <2>3, QuietStepSound DEF MwLookup
<1>5. CASE Step(r, Enter(q))
  <2>1. Enter(q) \in Request /\ RequestSound(Enter(q), sessions, now)
    BY <1>1, EnterTyped, EnterFields, MovedSound
  <2> QED BY <1>2, <1>5, <2>1, QuietStepSound DEF MwLookup
<1> QED BY <1>3, <1>4, <1>5 DEF MwLookup

\* A handler that only answers, without any effect on the core.
LEMMA AnswerSound ==
  ASSUME Parts, TypeOK', NEW r \in Requests,
         NEW out \in {"ok", "kept"} \cup ClientErrors,
         \/ Step(r, Answer(req[r], out)) \/ Step(r, Answer(ClearCookies(req[r]), out)),
         Ages(sessions, now, sessions', now'), UNCHANGED <<jar, hist>>,
         out # "ok" \/ req[r].ep \notin {"revoke", "others"} \/ req[r].hs = {}
  PROVE  Parts'
<1> DEFINE q == req[r]
<1>1. q \in Request /\ RequestSound(q, sessions, now)
  BY DEF Parts, TypeOK
<1>2. RequestSound(q, sessions', now')
  BY <1>1, Aging DEF Parts, TypeOK
<1>3. CASE Step(r, Answer(q, out))
  <2>1. Answer(q, out) \in Request
    BY <1>1, AnswerTyped
  <2>2. RequestSound(Answer(q, out), sessions', now')
    BY <1>1, <1>2, <2>1, AnswerFields, MovedSound DEF SameButPc
  <2> QED BY <1>3, <2>1, <2>2, QuietStepSound
<1>4. CASE Step(r, Answer(ClearCookies(q), out))
  <2> DEFINE p == Answer(ClearCookies(q), out)
  <2>1. p \in Request /\ ClearCookies(q) \in Request
    BY <1>1, ClearCookiesTyped, AnswerTyped
  <2>2. SameButPc(p, q) /\ p.pc = "reply" /\ p.out = out
    BY <1>1, <2>1, ClearCookiesFields, AnswerFields DEF SameButPc
  <2>3. RequestSound(p, sessions', now')
    BY <1>1, <1>2, <2>1, <2>2, MovedSound DEF SameButPc
  <2> QED BY <1>4, <2>1, <2>3, QuietStepSound
<1> QED BY <1>3, <1>4

LEMMA FailSound ==
  ASSUME Parts, TypeOK', NEW r \in Requests, NEW e,
         \/ Step(r, Fail(req[r], e)) \/ Step(r, Fail(ClearCookies(req[r]), e)),
         Ages(sessions, now, sessions', now'), UNCHANGED <<jar, hist>>
  PROVE  Parts'
BY ClientErrorTyped, AnswerSound DEF Fail

LEMMA DevListSound ==
  ASSUME Parts, TypeOK', NEW r \in Requests, DevList(r)
  PROVE  Parts'
<1> DEFINE q == req[r]
<1>1. q \in Request /\ RequestSound(q, sessions, now) /\ q.hs = {}
  BY DEF Parts, TypeOK, DevList, At, RequestSound
<1>2. Ages(sessions, now, sessions', now') /\ UNCHANGED <<sessions, now, jar, hist>>
  BY DEF DevList, Ages, Parts, TypeOK
<1>3. ASSUME NEW hs \in Targets(q), hs # {},
             Step(r, [Await(q, "dev_revoke") EXCEPT !.hs = hs])
      PROVE  Parts'
  <2> DEFINE a == Await(q, "dev_revoke")
             p == [a EXCEPT !.hs = hs]
  <2>1. hs \in SUBSET Handles /\ a \in Request
    BY <1>1, AwaitTyped DEF Targets, HandlesOf, Pcs
  <2>2. p \in Request
    <3> HIDE DEF a
    <3> QED BY <2>1, FieldsTyped
  <2>3. /\ p.pc = "dev_revoke" /\ p.hs = hs /\ p.acc = q.acc /\ p.ref = q.ref
        /\ p.tok = q.tok /\ p.ctx = q.ctx /\ p.user = q.user /\ p.ep = q.ep
        /\ p.dead = q.dead
    <3>1. SameButPc(a, q) /\ a.pc = "dev_revoke"
      BY <1>1, AwaitFields
    <3> HIDE DEF a
    <3> QED BY <2>1, <3>1 DEF Request, SameButPc
  <2>4. /\ \A h \in hs : sessions[h].st = "live" /\ sessions[h].user = q.user
        /\ q.ep = "others" => q.ctx \notin hs
    BY <1>3 DEF Targets, HandlesOf, Alive
  <2>5. RequestSound(p, sessions, now)
    <3> HIDE DEF p
    <3> QED BY <1>1, <2>3, <2>4 DEF RequestSound
  <2> QED BY <1>2, <1>3, <2>2, <2>5, QuietStepSound
<1>4. CASE Step(r, Answer(q, "ok"))
  BY <1>1, <1>2, <1>4, AnswerSound
<1>5. ASSUME NEW e, Step(r, Fail(q, e)) PROVE Parts'
  BY <1>2, <1>5, FailSound
<1> QED BY <1>3, <1>4, <1>5 DEF DevList

LEMMA DevRevokeSound ==
  ASSUME Parts, TypeOK', NEW r \in Requests, DevRevoke(r)
  PROVE  Parts'
<1> DEFINE q == req[r]
<1>1. q \in Request /\ RequestSound(q, sessions, now)
  BY DEF Parts, TypeOK
<1>2. /\ Ages(sessions, now, sessions', now')
      /\ \A h \in Handles : hist'[h].from = hist[h].from
      /\ Revoke(q) => \A h \in q.hs : sessions'[h].st = "removed"
  BY <1>1, RevokeAges DEF DevRevoke, Parts, RequestSound
<1>3. RequestSound(q, sessions', now')
  BY <1>1, <1>2, Aging DEF Parts, TypeOK
<1>4. JarSound(sessions)' /\ HistSound'
  BY <1>2, JarAging, HistAging DEF Parts, DevRevoke
<1>5. PICK out \in {"ok"} \cup ClientErrors :
        Step(r, Answer(q, out)) /\ (out = "ok" => Revoke(q))
  <2>1. CASE Revoke(q) /\ Step(r, Answer(q, "ok"))
    BY <2>1
  <2>2. CASE Step(r, Fail(q, "SuperTokens"))
    <3>1. ClientError("SuperTokens") \in ClientErrors /\ ClientError("SuperTokens") # "ok"
      BY ClientErrorTyped
    <3>2. Step(r, Answer(q, ClientError("SuperTokens")))
      BY <2>2 DEF Fail
    <3> QED BY <3>1, <3>2
  <2> QED BY <2>1, <2>2 DEF DevRevoke
<1>6. Answer(q, out) \in Request
  BY <1>1, AnswerTyped
<1>7. RequestSound(Answer(q, out), sessions', now')
  BY <1>1, <1>2, <1>3, <1>5, AnswerFields DEF SameButPc, RequestSound
<1> QED BY <1>2, <1>4, <1>5, <1>6, <1>7, StepSound

LEMMA RefreshCallSound ==
  ASSUME Parts, TypeOK', NEW r \in Requests, RefreshCall(r)
  PROVE  Parts'
<1> DEFINE q == req[r]
           t == q.ref
<1>1. /\ q \in Request /\ RequestSound(q, sessions, now)
      /\ t \in Token /\ t.h \in Handles /\ t # NoToken
      /\ q.pc = "handler" /\ q.ep = "refresh" /\ q.hs = {}
  BY CookieTyped, NoTokenFacts DEF Parts, TypeOK, RefreshCall, At, RequestSound
<1>2. /\ Ages(sessions, now, sessions', now') /\ now' = now
      /\ UNCHANGED <<jar, hist>>
  <2>1. Ages(sessions, now, Refreshed(t), now) /\ Ages(sessions, now, sessions, now)
    BY <1>1, RefreshedAges DEF Parts, TypeOK, Ages
  <2> QED BY <2>1 DEF RefreshCall, CallFails
<1>3. RequestSound(q, sessions', now')
  BY <1>1, <1>2, Aging DEF Parts, TypeOK
<1>4. ASSUME RefreshStatus(t) = "OK"
      PROVE  sessions[t.h].st # "unused" /\ now < sessions[t.h].exp
  BY <1>4 DEF RefreshStatus, Alive
<1>5. CASE /\ RefreshStatus(t) = "OK" /\ KeepsWindow(t)
           /\ Step(r, Answer(SetCookies(q, NextTokens(t)), "ok"))
  <2> DEFINE c == SetCookies(q, NextTokens(t))
             p == Answer(c, "ok")
  <2>1. NextTokens(t) \in Token
    BY <1>1, TokensTyped DEF Parts, TypeOK, SessionsType
  <2>2. c \in Request /\ p \in Request
    BY <1>1, <2>1, SetCookiesTyped, AnswerTyped
  <2>3. /\ p.pc = "reply" /\ p.ep = "refresh" /\ p.acc = q.acc /\ p.ref = q.ref
        /\ p.hs = {} /\ p.dead = q.dead /\ p.ctx = q.ctx /\ p.tok = NextTokens(t)
    BY <1>1, <2>2, SetCookiesFields, AnswerFields DEF SameButPc
  <2>4. /\ sessions'[t.h].st # "unused"
        /\ sessions'[t.h].exp + AccessValidity + (Second - 1)
             > (now + AccessValidity) + Threshold
    <3>1. sessions'[t.h].exp = sessions[t.h].exp /\ sessions'[t.h].st # "unused"
      BY <1>1, <1>2, <1>4, <1>5 DEF Ages
    <3>2. sessions[t.h].exp \in Nat /\ now \in Nat
      BY <1>1 DEF Parts, TypeOK, Session
    <3>3. sessions[t.h].exp - WholeSeconds(now) > Threshold
      BY <1>5 DEF KeepsWindow
    <3> QED BY <3>1, <3>2, <3>3, WholeSecondsFacts, CoreAssumption, AuthAssumption
  <2>5. NextTokens(t).h = t.h /\ NextTokens(t).aexp = now + AccessValidity
    BY DEF NextTokens
  <2>6. RequestSound(p, sessions', now')
    <3> HIDE DEF p, c
    <3> QED BY <1>3, <1>1, <2>3, <2>4, <2>5 DEF RequestSound, Known
  <2> QED BY <1>2, <1>5, <2>2, <2>6, QuietStepSound
<1>6. CASE /\ RefreshStatus(t) = "OK"
           /\ Step(r, [Await(q, "info") EXCEPT !.hs = {t.h}, !.user = sessions[t.h].user])
  <2> DEFINE a == Await(q, "info")
             u == sessions[t.h].user
             p == [a EXCEPT !.hs = {t.h}, !.user = u]
  <2>1. a \in Request /\ u \in Users \cup {None}
    BY <1>1, AwaitTyped DEF Pcs, Parts, TypeOK, Session
  <2>2. p \in Request
    <3> HIDE DEF a, u
    <3> QED BY <1>1, <2>1, TwoFieldsTyped
  <2>3. /\ p.pc = "info" /\ p.ep = "refresh" /\ p.acc = q.acc /\ p.ref = q.ref
        /\ p.hs = {t.h} /\ p.dead = q.dead /\ p.ctx = q.ctx /\ p.tok = q.tok /\ p.user = u
    <3>1. SameButPc(a, q) /\ a.pc = "info"
      BY <1>1, AwaitFields
    <3> HIDE DEF a, u
    <3> QED BY <1>1, <2>1, <3>1 DEF Request, SameButPc
  <2>4. sessions'[t.h].st # "unused" /\ sessions'[t.h].user = u
    BY <1>1, <1>2, <1>4, <1>6 DEF Ages
  <2>5. RequestSound(p, sessions', now')
    <3> HIDE DEF p, u
    <3> QED BY <1>3, <1>1, <2>3, <2>4 DEF RequestSound
  <2> QED BY <1>2, <1>6, <2>2, <2>5, QuietStepSound
<1>7. ASSUME NEW e, \/ Step(r, Fail(ClearCookies(q), e)) \/ Step(r, Fail(q, e))
      PROVE  Parts'
  BY <1>2, <1>7, FailSound
<1> QED BY <1>5, <1>6, <1>7 DEF RefreshCall

LEMMA SlideInfoSound ==
  ASSUME Parts, TypeOK', NEW r \in Requests, SlideInfo(r)
  PROVE  Parts'
<1> DEFINE q == req[r]
<1>1. q \in Request /\ RequestSound(q, sessions, now) /\ q.pc = "info" /\ q.ep = "refresh"
  BY DEF Parts, TypeOK, SlideInfo, At
<1>2. Ages(sessions, now, sessions', now') /\ UNCHANGED <<sessions, now, jar, hist>>
  BY DEF SlideInfo, Ages, Parts, TypeOK
<1>3. ASSUME NEW h \in q.hs, Step(r, [Await(q, "create") EXCEPT !.fp = InfoData(h)])
      PROVE  Parts'
  <2> DEFINE a == Await(q, "create")
             p == [a EXCEPT !.fp = InfoData(h)]
  <2>1. a \in Request /\ h \in Handles
    BY <1>1, AwaitTyped, CookieTyped DEF Pcs
  <2>2. InfoData(h) \in Fingerprints \cup {None}
    BY <2>1 DEF InfoData, Parts, TypeOK, Session
  <2>3. p \in Request
    <3> HIDE DEF a
    <3> QED BY <2>1, <2>2, FieldsTyped
  <2>4. /\ p.pc = "create" /\ p.ep = "refresh" /\ p.acc = q.acc /\ p.ref = q.ref
        /\ p.hs = q.hs /\ p.dead = q.dead /\ p.ctx = q.ctx /\ p.tok = q.tok
        /\ p.user = q.user /\ p.fp = InfoData(h)
    <3>1. SameButPc(a, q) /\ a.pc = "create"
      BY <1>1, AwaitFields
    <3> HIDE DEF a
    <3> QED BY <1>1, <2>1, <3>1 DEF Request, SameButPc
  <2>5. q.hs = {h}
    BY <1>1 DEF RequestSound
  <2>6. InfoData(h) = sessions[h].fp
          \/ (InfoData(h) = None /\ ~AliveAt(h, sessions, now))
    BY DEF InfoData, Alive, AliveAt
  <2>7. RequestSound(p, sessions, now)
    <3> HIDE DEF p
    <3> QED BY <1>1, <2>4, <2>5, <2>6 DEF RequestSound
  <2> QED BY <1>2, <1>3, <2>3, <2>7, QuietStepSound
<1>4. CASE Step(r, Fail(q, "SuperTokens"))
  BY <1>2, <1>4, FailSound
<1> QED BY <1>3, <1>4 DEF SlideInfo

\* create_session in a slide: the new session replaces the old one in every
\* respect but its deadline.
LEMMA ReplacementSound ==
  ASSUME Parts, TypeOK', NEW q \in Request, RequestSound(q, sessions, now), q.pc = "create",
         NEW h \in Fresh, NEW old \in q.hs,
         sessions' = Created(h, q.user, q.fp), now' = now,
         hist' = [hist EXCEPT ![h].from = old]
  PROVE  HistSound'
<1>1. h \in Handles /\ old \in Handles /\ old # h /\ sessions[old].st # "unused"
  BY CookieTyped DEF Fresh, RequestSound
<1>2. /\ sessions'[h].st = "live" /\ sessions'[h].user = q.user /\ sessions'[h].fp = q.fp
      /\ \A g \in Handles : g # h => sessions'[g] = sessions[g]
  BY <1>1 DEF Created, Parts, TypeOK
<1>3. /\ hist'[h].from = old
      /\ \A g \in Handles : g # h => hist'[g].from = hist[g].from
  BY <1>1 DEF Parts, TypeOK
<1>4. /\ q.user = sessions[old].user
      /\ q.fp = sessions[old].fp \/ (q.fp = None /\ ~Alive(old))
  BY DEF RequestSound, Alive, AliveAt
<1>5. ASSUME NEW g \in Handles, hist'[g].from # None
      PROVE  /\ sessions'[g].st # "unused" /\ sessions'[hist'[g].from].st # "unused"
             /\ sessions'[g].user = sessions'[hist'[g].from].user
             /\ \/ sessions'[g].fp = sessions'[hist'[g].from].fp
                \/ sessions'[g].fp = None /\ ~AliveAt(hist'[g].from, sessions', now')
  <2>1. CASE g = h
    BY <1>1, <1>2, <1>3, <1>4, <2>1 DEF Alive, AliveAt
  <2>2. CASE g # h
    <3>1. /\ hist[g].from # None /\ hist[g].from \in Handles
          /\ sessions[g].st # "unused" /\ sessions[hist[g].from].st # "unused"
      BY <1>3, <1>5, <2>2 DEF Parts, HistSound, TypeOK
    <3>2. hist[g].from # h
      BY <3>1 DEF Fresh
    <3> QED BY <1>2, <1>3, <1>5, <2>2, <3>1, <3>2 DEF Parts, HistSound, Alive, AliveAt
  <2> QED BY <2>1, <2>2
<1> QED BY <1>5 DEF HistSound, Alive, AliveAt

LEMMA SlideCreateSound ==
  ASSUME Parts, TypeOK', NEW r \in Requests, SlideCreate(r)
  PROVE  Parts'
<1> DEFINE q == req[r]
<1>1. /\ q \in Request /\ RequestSound(q, sessions, now)
      /\ q.pc = "create" /\ q.ep = "refresh" /\ now' = now /\ UNCHANGED jar
  BY DEF Parts, TypeOK, SlideCreate, At
<1>2. PICK h \in Fresh, old \in q.hs :
        \/ /\ sessions' = Created(h, q.user, q.fp)
           /\ hist' = [hist EXCEPT ![h].from = old]
           /\ \/ Step(r, [Await(q, "drop_old") EXCEPT !.tok = FirstTokens(h)])
              \/ Step(r, Fail(q, "SuperTokens"))
        \/ UNCHANGED <<sessions, hist>> /\ Step(r, Fail(q, "SuperTokens"))
  BY DEF SlideCreate
<1>3. Ages(sessions, now, sessions', now')
  <2>1. Ages(sessions, now, Created(h, q.user, q.fp), now) /\ Ages(sessions, now, sessions, now)
    BY CreatedAges DEF Parts, TypeOK, Ages
  <2> QED BY <1>1, <1>2, <2>1
<1>4. HistSound'
  <2>1. CASE /\ sessions' = Created(h, q.user, q.fp)
             /\ hist' = [hist EXCEPT ![h].from = old]
    BY <1>1, <2>1, ReplacementSound
  <2>2. CASE UNCHANGED <<sessions, hist>>
    BY <1>3, <2>2, HistAging DEF Parts
  <2> QED BY <1>2, <2>1, <2>2
<1>5. JarSound(sessions)'
  BY <1>1, <1>3, JarAging DEF Parts
<1>6. RequestSound(q, sessions', now')
  BY <1>1, <1>3, Aging DEF Parts, TypeOK
<1>7. CASE /\ sessions' = Created(h, q.user, q.fp)
           /\ Step(r, [Await(q, "drop_old") EXCEPT !.tok = FirstTokens(h)])
  <2> DEFINE a == Await(q, "drop_old")
             p == [a EXCEPT !.tok = FirstTokens(h)]
  <2>1. a \in Request /\ h \in Handles
    BY <1>1, AwaitTyped DEF Pcs, Fresh
  <2>2. FirstTokens(h) \in Token
    BY <2>1, CoreAssumption DEF FirstTokens, Token, Parts, TypeOK
  <2>3. p \in Request
    <3> HIDE DEF a
    <3> QED BY <2>1, <2>2, FieldsTyped
  <2>4. /\ p.pc = "drop_old" /\ p.ep = "refresh" /\ p.acc = q.acc /\ p.ref = q.ref
        /\ p.hs = q.hs /\ p.dead = q.dead /\ p.ctx = q.ctx /\ p.tok = FirstTokens(h)
    <3>1. SameButPc(a, q) /\ a.pc = "drop_old"
      BY <1>1, AwaitFields
    <3> HIDE DEF a
    <3> QED BY <1>1, <2>1, <3>1 DEF Request, SameButPc
  <2>5. /\ sessions'[h].st # "unused" /\ sessions'[h].exp = now + RefreshValidity
        /\ FirstTokens(h).h = h /\ FirstTokens(h).aexp = now + AccessValidity
    BY <1>7, <2>1 DEF Created, FirstTokens, Parts, TypeOK
  <2>6. sessions'[h].exp + AccessValidity + (Second - 1)
          > (now + AccessValidity) + Threshold
    BY <2>5, FreshWindow DEF Parts, TypeOK
  <2>7. RequestSound(p, sessions', now')
    <3> HIDE DEF p
    <3> QED BY <1>1, <1>6, <2>4, <2>5, <2>6 DEF RequestSound, Known
  <2> QED BY <1>3, <1>4, <1>5, <1>7, <2>3, <2>7, StepSound
<1>8. CASE Step(r, Fail(q, "SuperTokens"))
  <2>1. Fail(q, "SuperTokens") \in Request
    BY <1>1, FailTyped
  <2>2. RequestSound(Fail(q, "SuperTokens"), sessions', now')
    BY <1>1, <1>6, <2>1, AnswerFields, ClientErrorTyped, MovedSound DEF SameButPc, Fail
  <2> QED BY <1>3, <1>4, <1>5, <1>8, <2>1, <2>2, StepSound
<1> QED BY <1>2, <1>7, <1>8

LEMMA SlideRevokeSound ==
  ASSUME Parts, TypeOK', NEW r \in Requests, SlideRevoke(r)
  PROVE  Parts'
<1> DEFINE q == req[r]
           c == SetCookies(q, q.tok)
           p == Answer(c, "ok")
<1>1. /\ q \in Request /\ RequestSound(q, sessions, now) /\ q.ep = "refresh"
      /\ now' = now /\ UNCHANGED jar /\ Step(r, p)
  BY DEF Parts, TypeOK, SlideRevoke, At
<1>2. /\ Ages(sessions, now, sessions', now')
      /\ \A h \in Handles : hist'[h].from = hist[h].from
  BY <1>1, RevokeAges DEF SlideRevoke, Parts
<1>3. RequestSound(q, sessions', now')
  BY <1>1, <1>2, Aging DEF Parts, TypeOK
<1>4. JarSound(sessions)' /\ HistSound'
  BY <1>1, <1>2, JarAging, HistAging DEF Parts
<1>5. c \in Request /\ p \in Request
  BY <1>1, CookieTyped, SetCookiesTyped, AnswerTyped
<1>6. /\ SameButPc(p, q) /\ p.pc = "reply"
  <2>1. SameButPc(c, q)
    BY <1>1, SetCookiesFields DEF SameButPc
  <2> QED BY <1>5, <2>1, AnswerFields DEF SameButPc
<1>7. RequestSound(p, sessions', now')
  BY <1>1, <1>3, <1>5, <1>6, MovedSound DEF SameButPc
<1> QED BY <1>1, <1>2, <1>4, <1>5, <1>7, StepSound

LEMMA LogoffVerifySound ==
  ASSUME Parts, TypeOK', NEW r \in Requests, LogoffVerify(r)
  PROVE  Parts'
<1> DEFINE q == req[r]
<1>1. /\ q \in Request /\ RequestSound(q, sessions, now) /\ q.ep = "logoff"
      /\ q.acc \in Token /\ q.acc.h \in Handles /\ q.acc # NoToken
  BY CookieTyped, NoTokenFacts DEF Parts, TypeOK, LogoffVerify, At
<1>2. Ages(sessions, now, sessions', now') /\ UNCHANGED <<jar, hist>>
  <2>1. Ages(sessions, now, Verified(q.acc), now) /\ Ages(sessions, now, sessions, now)
    BY <1>1, VerifiedAges DEF Parts, TypeOK, Ages
  <2> QED BY <2>1 DEF LogoffVerify, CallFails
<1>3. RequestSound(q, sessions', now')
  BY <1>1, <1>2, Aging DEF Parts, TypeOK
<1>4. CASE Step(r, [Await(q, "lo_revoke") EXCEPT !.hs = {q.acc.h}])
  <2> DEFINE a == Await(q, "lo_revoke")
             p == [a EXCEPT !.hs = {q.acc.h}]
  <2>1. a \in Request
    BY <1>1, AwaitTyped DEF Pcs
  <2>2. p \in Request
    <3> HIDE DEF a
    <3> QED BY <1>1, <2>1, FieldsTyped
  <2>3. /\ p.pc = "lo_revoke" /\ p.ep = "logoff" /\ p.acc = q.acc /\ p.ref = q.ref
        /\ p.hs = {q.acc.h} /\ p.dead = q.dead /\ p.ctx = q.ctx /\ p.tok = q.tok
    <3>1. SameButPc(a, q) /\ a.pc = "lo_revoke"
      BY <1>1, AwaitFields
    <3> HIDE DEF a
    <3> QED BY <1>1, <2>1, <3>1 DEF Request, SameButPc
  <2>4. RequestSound(p, sessions', now')
    <3> HIDE DEF p
    <3> QED BY <1>1, <1>3, <2>3 DEF RequestSound, Known
  <2> QED BY <1>2, <1>4, <2>2, <2>4, QuietStepSound
<1>5. CASE Step(r, Answer(ClearCookies(q), "ok"))
  BY <1>1, <1>2, <1>5, AnswerSound
<1> QED BY <1>4, <1>5 DEF LogoffVerify

LEMMA LogoffRevokeSound ==
  ASSUME Parts, TypeOK', NEW r \in Requests, LogoffRevoke(r)
  PROVE  Parts'
<1> DEFINE q == req[r]
           p == Answer(ClearCookies(q), "ok")
<1>1. /\ q \in Request /\ RequestSound(q, sessions, now) /\ q.ep = "logoff"
      /\ now' = now /\ UNCHANGED jar /\ Step(r, p)
  BY DEF Parts, TypeOK, LogoffRevoke, At
<1>2. /\ Ages(sessions, now, sessions', now')
      /\ \A h \in Handles : hist'[h].from = hist[h].from
  BY <1>1, RevokeAges DEF LogoffRevoke, Parts
<1>3. RequestSound(q, sessions', now')
  BY <1>1, <1>2, Aging DEF Parts, TypeOK
<1>4. JarSound(sessions)' /\ HistSound'
  BY <1>1, <1>2, JarAging, HistAging DEF Parts
<1>5. ClearCookies(q) \in Request /\ p \in Request
  BY <1>1, ClearCookiesTyped, AnswerTyped
<1>6. SameButPc(p, q) /\ p.pc = "reply"
  BY <1>1, <1>5, ClearCookiesFields, AnswerFields DEF SameButPc
<1>7. RequestSound(p, sessions', now')
  BY <1>1, <1>3, <1>5, <1>6, MovedSound DEF SameButPc
<1> QED BY <1>1, <1>2, <1>4, <1>5, <1>7, StepSound

LEMMA SignInUserSound ==
  ASSUME Parts, TypeOK', NEW r \in Requests, SignInUser(r)
  PROVE  Parts'
<1> DEFINE q == req[r]
<1>1. /\ q \in Request /\ RequestSound(q, sessions, now) /\ q.ep = "signin"
      /\ q.b \in Fingerprints \cup {None}
  BY CookieTyped, AuthAssumption DEF Parts, TypeOK, SignInUser, At
<1>2. Ages(sessions, now, sessions', now') /\ UNCHANGED <<sessions, now, jar, hist>>
  <2>1. UNCHANGED <<sessions, now, jar, hist>>
    BY DEF SignInUser
  <2> QED BY <2>1 DEF Ages, Parts, TypeOK
<1>3. ASSUME NEW u \in Users, Step(r, [Await(q, "si_create") EXCEPT !.user = u, !.fp = q.b])
      PROVE  Parts'
  <2> DEFINE a == Await(q, "si_create")
             p == [a EXCEPT !.user = u, !.fp = q.b]
  <2>1. a \in Request
    BY <1>1, AwaitTyped DEF Pcs
  <2>2. p \in Request
    <3> HIDE DEF a
    <3> QED BY <1>1, <2>1, TwoFieldsTyped
  <2>3. /\ p.pc = "si_create" /\ p.ep = "signin" /\ p.acc = q.acc /\ p.ref = q.ref
        /\ p.hs = q.hs /\ p.dead = q.dead /\ p.ctx = q.ctx /\ p.tok = q.tok
    <3>1. SameButPc(a, q) /\ a.pc = "si_create"
      BY <1>1, AwaitFields
    <3> HIDE DEF a
    <3> QED BY <1>1, <2>1, <3>1 DEF Request, SameButPc
  <2>4. RequestSound(p, sessions, now)
    <3> HIDE DEF p
    <3> QED BY <1>1, <2>3 DEF RequestSound
  <2> QED BY <1>2, <1>3, <2>2, <2>4, QuietStepSound
<1>4. ASSUME NEW e, Step(r, Fail(q, e)) PROVE Parts'
  BY <1>2, <1>4, FailSound
<1> QED BY <1>3, <1>4 DEF SignInUser

LEMMA SignInCreateSound ==
  ASSUME Parts, TypeOK', NEW r \in Requests, SignInCreate(r)
  PROVE  Parts'
<1> DEFINE q == req[r]
<1>1. /\ q \in Request /\ RequestSound(q, sessions, now) /\ q.ep = "signin"
      /\ q.pc = "si_create" /\ now' = now /\ UNCHANGED <<jar, hist>>
  BY DEF Parts, TypeOK, SignInCreate, At
<1>2. PICK h \in Fresh :
        \/ /\ sessions' = Created(h, q.user, q.fp)
           /\ Step(r, Answer(SetCookies(q, FirstTokens(h)), "ok"))
        \/ /\ CallFails(Created(h, q.user, q.fp))
           /\ Step(r, Fail(q, "SuperTokens"))
  BY DEF SignInCreate
<1>3. Ages(sessions, now, sessions', now')
  <2>1. Ages(sessions, now, Created(h, q.user, q.fp), now) /\ Ages(sessions, now, sessions, now)
    BY CreatedAges DEF Parts, TypeOK, Ages
  <2> QED BY <1>1, <1>2, <2>1 DEF CallFails
<1>4. RequestSound(q, sessions', now')
  BY <1>1, <1>3, Aging DEF Parts, TypeOK
<1>5. CASE /\ sessions' = Created(h, q.user, q.fp)
           /\ Step(r, Answer(SetCookies(q, FirstTokens(h)), "ok"))
  <2> DEFINE c == SetCookies(q, FirstTokens(h))
             p == Answer(c, "ok")
  <2>1. h \in Handles
    BY DEF Fresh
  <2>2. FirstTokens(h) \in Token
    BY <2>1, CoreAssumption DEF FirstTokens, Token, Parts, TypeOK
  <2>3. c \in Request /\ p \in Request
    BY <1>1, <2>2, SetCookiesTyped, AnswerTyped
  <2>4. /\ p.pc = "reply" /\ p.ep = "signin" /\ p.acc = q.acc /\ p.ref = q.ref
        /\ p.hs = q.hs /\ p.dead = q.dead /\ p.ctx = q.ctx /\ p.tok = FirstTokens(h)
    BY <1>1, <2>3, SetCookiesFields, AnswerFields DEF SameButPc
  <2>5. /\ sessions'[h].st # "unused" /\ sessions'[h].exp = now + RefreshValidity
        /\ FirstTokens(h).h = h /\ FirstTokens(h).aexp = now + AccessValidity
    BY <1>5, <2>1 DEF Created, FirstTokens, Parts, TypeOK
  <2>6. sessions'[h].exp + AccessValidity + (Second - 1)
          > (now + AccessValidity) + Threshold
    BY <2>5, FreshWindow DEF Parts, TypeOK
  <2>7. RequestSound(p, sessions', now')
    <3> HIDE DEF p, c
    <3> QED BY <1>1, <1>4, <2>4, <2>5, <2>6 DEF RequestSound, Known
  <2> QED BY <1>1, <1>3, <1>5, <2>3, <2>7, QuietStepSound
<1>6. CASE Step(r, Fail(q, "SuperTokens"))
  BY <1>1, <1>3, <1>6, FailSound
<1> QED BY <1>2, <1>5, <1>6

LEMMA SendSound ==
  ASSUME Parts, TypeOK', NEW r \in Requests, NEW b \in Browsers, NEW ep \in Endpoints,
         Send(r, b, ep)
  PROVE  Parts'
<1>1. PICK a \in SentAccess(b), f \in SentRefresh(b, ep) :
        LET q == Sent(b, ep, a, f)
        IN  Step(r, IF a = NoToken THEN Enter(q) ELSE q)
  BY DEF Send
<1> DEFINE q == Sent(b, ep, a, f)
           p == IF a = NoToken THEN Enter(q) ELSE q
<1>2. p \in Request /\ q \in Request
  BY <1>1, SentTyped DEF Parts
<1>3. a \in {jar[b].acc, NoToken} /\ f \in {jar[b].ref, NoToken}
  BY DEF SentAccess, SentRefresh
<1>4. RequestSound(q, sessions, now)
  <2>1. /\ q.pc = "verify" /\ q.acc = a /\ q.ref = f /\ q.tok = NoToken /\ q.hs = {}
        /\ q.ctx = None
    BY DEF Sent
  <2>2. Known(a, sessions) /\ Known(f, sessions)
    BY <1>3 DEF Parts, JarSound, Known
  <2>3. q.dead => q.acc # NoToken /\ ~AliveAt(q.acc.h, sessions, now)
    BY DEF Sent, Alive, AliveAt
  <2> HIDE DEF q
  <2> QED BY <2>1, <2>2, <2>3 DEF RequestSound, Known
<1>5. RequestSound(p, sessions, now)
  <2>1. q.hs = {}
    BY DEF Sent
  <2> HIDE DEF q
  <2> QED BY <1>2, <1>4, <2>1, EnterFields, EnterTyped, MovedSound
<1>6. Ages(sessions, now, sessions', now') /\ UNCHANGED <<sessions, now, jar, hist>>
  BY DEF Send, Ages, Parts, TypeOK
<1>7. Step(r, p)
  BY <1>1
<1> HIDE DEF p
<1> QED BY <1>2, <1>5, <1>6, <1>7, QuietStepSound

LEMMA IdleSound ==
  ASSUME NEW s, NEW n
  PROVE  RequestSound(Idle, s, n)
BY DEF RequestSound, Idle, Known

LEMMA DeliverSound ==
  ASSUME Parts, TypeOK', NEW r \in Requests, Deliver(r)
  PROVE  Parts'
<1> DEFINE q == req[r]
<1>1. q \in Request /\ RequestSound(q, sessions, now)
  BY DEF Parts, TypeOK
<1>2. /\ Ages(sessions, now, sessions', now') /\ UNCHANGED <<sessions, now, hist>>
      /\ Step(r, Idle) /\ jar' = [jar EXCEPT ![q.b] = Received(@, q)]
  BY DEF Deliver, Ages, Parts, TypeOK
<1>3. JarSound(sessions)'
  <2>1. ASSUME NEW b \in Browsers
        PROVE  /\ jar'[b].acc \in {jar[b].acc, q.tok, NoToken}
               /\ jar'[b].ref \in {jar[b].ref, q.tok, NoToken}
               /\ \/ jar'[b].acc = q.tok /\ jar'[b].ref = q.tok
                  \/ jar'[b].acc \in {jar[b].acc, NoToken}
                     /\ jar'[b].ref \in {jar[b].ref, NoToken}
    BY <1>2 DEF Received, Parts, TypeOK
  <2>2. /\ Known(q.tok, sessions) /\ HalfWindow(q.tok)
        /\ Known(NoToken, sessions) /\ HalfWindow(NoToken)
    BY <1>1 DEF RequestSound, Known, HalfWindow
  <2>3. ASSUME NEW b \in Browsers
        PROVE  /\ Known(jar'[b].acc, sessions') /\ Known(jar'[b].ref, sessions')
               /\ HalfWindow(jar[b].acc)' /\ HalfWindow(jar[b].ref)'
               /\ jar'[b].acc # NoToken /\ jar'[b].ref # NoToken => jar'[b].acc = jar'[b].ref
    BY <1>2, <2>1, <2>2 DEF Parts, JarSound, Known, HalfWindow
  <2> QED BY <2>3 DEF JarSound
<1>4. HistSound'
  BY <1>2, HistAging DEF Parts
<1> QED BY <1>2, <1>3, <1>4, IdleTyped, IdleSound, StepSound

LEMMA QuietSound ==
  ASSUME Parts, TypeOK', NEW r \in Requests, Abandon(r) \/ Drop(r)
  PROVE  Parts'
<1> DEFINE q == req[r]
           p == [q EXCEPT !.waited = FALSE]
<1>1. q \in Request /\ RequestSound(q, sessions, now)
  BY DEF Parts, TypeOK
<1>2. Ages(sessions, now, sessions', now') /\ UNCHANGED <<sessions, now, jar, hist>>
  BY DEF Abandon, Drop, Ages, Parts, TypeOK
<1>3. CASE Abandon(r)
  <2>1. p \in Request
    BY <1>1, FieldsTyped
  <2>2. SameButPc(p, q) /\ p.pc = q.pc /\ p.out = q.out
    BY <1>1 DEF Request, SameButPc
  <2>3. RequestSound(p, sessions, now)
    <3> HIDE DEF p
    <3> QED BY <1>1, <2>2 DEF RequestSound, SameButPc
  <2> QED BY <1>2, <1>3, <2>1, <2>3, QuietStepSound DEF Abandon
<1>4. CASE Drop(r)
  BY <1>2, <1>4, IdleTyped, IdleSound, QuietStepSound DEF Drop
<1> QED BY <1>3, <1>4

LEMMA RestartSound ==
  ASSUME Parts, TypeOK', Restart
  PROVE  Parts'
<1>1. Ages(sessions, now, sessions', now') /\ UNCHANGED <<sessions, now, jar, hist>>
  <2>1. UNCHANGED <<sessions, now, jar, hist>>
    BY DEF Restart
  <2> QED BY <2>1 DEF Ages, Parts, TypeOK
<1>2. JarSound(sessions)' /\ HistSound'
  BY <1>1, JarAging, HistAging DEF Parts
<1>3. \A r \in Requests : RequestSound(req'[r], sessions', now')
  BY IdleSound DEF Restart
<1> QED BY <1>2, <1>3 DEF Parts

\* Time passes: only sessions and tokens expire.
LEMMA TickSound ==
  ASSUME Parts, TypeOK', Tick \/ UNCHANGED vars
  PROVE  Parts'
<1>1. Ages(sessions, now, sessions', now') /\ UNCHANGED <<req, jar, hist>>
  <2>1. UNCHANGED <<sessions, req, jar, hist>> /\ now' \in {now, now + 1} /\ now \in Nat
    BY DEF Tick, vars, Parts, TypeOK
  <2> QED BY <2>1 DEF Ages, Parts, TypeOK
<1>2. JarSound(sessions)' /\ HistSound'
  BY <1>1, JarAging, HistAging DEF Parts
<1>3. ASSUME NEW r \in Requests
      PROVE  RequestSound(req'[r], sessions', now')
  <2>1. req'[r] = req[r] /\ req[r] \in Request /\ RequestSound(req[r], sessions, now)
    BY <1>1 DEF Parts, TypeOK
  <2>2. /\ sessions \in [Handles -> Session] /\ sessions' \in [Handles -> Session]
        /\ now \in Nat /\ now' \in Nat
    BY DEF Parts, TypeOK
  <2> QED BY <1>1, <2>1, <2>2, Aging
<1> QED BY <1>2, <1>3 DEF Parts

LEMMA ListsRequestSound ==
  ASSUME Parts, TypeOK', NEW r \in Requests, ListSessions(r) \/ ListInfo(r)
  PROVE  Parts'
<1> DEFINE q == req[r]
<1>1. q \in Request /\ RequestSound(q, sessions, now)
  BY DEF Parts, TypeOK
<1>2. Ages(sessions, now, sessions', now') /\ UNCHANGED <<sessions, now, jar, hist>>
  <2>1. UNCHANGED <<sessions, now, jar, hist>>
    BY DEF ListSessions, ListInfo
  <2> QED BY <2>1 DEF Ages, Parts, TypeOK
<1>3. CASE Step(r, Answer(q, "ok")) /\ q.ep = "list"
  BY <1>2, <1>3, AnswerSound
<1>4. CASE Step(r, Fail(q, "SuperTokens"))
  BY <1>2, <1>4, FailSound
<1>5. CASE /\ ListSessions(r)
           /\ Step(r, [Await(q, "dev_info") EXCEPT !.hs = HandlesOf(q.user),
                                                  !.todo = HandlesOf(q.user)])
  <2> DEFINE hs == HandlesOf(q.user)
             a == Await(q, "dev_info")
             p == [a EXCEPT !.hs = hs, !.todo = hs]
  <2>1. a \in Request /\ hs \in SUBSET Handles
    BY <1>1, AwaitTyped DEF Pcs, HandlesOf
  <2>2. p \in Request
    <3> HIDE DEF a, hs
    <3> QED BY <2>1, TwoListsTyped
  <2>3. /\ p.pc = "dev_info" /\ p.ep = q.ep /\ p.acc = q.acc /\ p.ref = q.ref
        /\ p.hs = hs /\ p.dead = q.dead /\ p.ctx = q.ctx /\ p.tok = q.tok
    <3>1. SameButPc(a, q) /\ a.pc = "dev_info"
      BY <1>1, AwaitFields
    <3> HIDE DEF a, hs
    <3> QED BY <2>1, <3>1 DEF Request, SameButPc
  <2>4. \A h \in hs : sessions[h].st # "unused"
    BY DEF HandlesOf, Alive
  <2>5. RequestSound(p, sessions, now)
    <3> HIDE DEF p, hs
    <3> QED BY <1>1, <2>3, <2>4 DEF RequestSound
  <2> QED BY <1>2, <1>5, <2>2, <2>5, QuietStepSound
<1>6. CASE \E h \in q.todo :
             LET s == [q EXCEPT !.todo = @ \ {h},
                                !.shown = IF Alive(h) THEN @ \cup {h} ELSE @]
             IN  /\ q.pc = "dev_info" /\ q.ep = "list"
                 /\ Step(r, IF s.todo = {} THEN Answer(s, "ok") ELSE s)
  <2> DEFINE Seen(h) == IF Alive(h) THEN q.shown \cup {h} ELSE q.shown
             Left(h) == q.todo \ {h}
             Read(h) == [q EXCEPT !.todo = Left(h), !.shown = Seen(h)]
  <2>1. PICK h \in q.todo :
          Step(r, IF Read(h).todo = {} THEN Answer(Read(h), "ok") ELSE Read(h))
    BY <1>1, <1>6 DEF Request
  <2>2. Read(h) \in Request
    <3>1. Left(h) \in SUBSET Handles /\ Seen(h) \in SUBSET Handles
      BY <1>1, CookieTyped
    <3> HIDE DEF Left, Seen
    <3> QED BY <1>1, <3>1, TwoListsTyped
  <2>3. /\ Read(h).pc = "dev_info" /\ Read(h).ep = "list" /\ Read(h).acc = q.acc
        /\ Read(h).ref = q.ref /\ Read(h).hs = q.hs /\ Read(h).dead = q.dead
        /\ Read(h).ctx = q.ctx /\ Read(h).tok = q.tok
    BY <1>1, <1>6 DEF Request
  <2> HIDE DEF Read
  <2>4. RequestSound(Read(h), sessions, now)
    BY <1>1, <1>6, <2>3 DEF RequestSound
  <2>5. Answer(Read(h), "ok") \in Request /\ RequestSound(Answer(Read(h), "ok"), sessions, now)
    BY <2>2, <2>3, <2>4, AnswerTyped, AnswerFields, MovedSound DEF SameButPc
  <2> QED BY <1>2, <2>1, <2>2, <2>4, <2>5, QuietStepSound
<1> QED BY <1>3, <1>4, <1>5, <1>6 DEF ListSessions, ListInfo, At

LEMMA InitSound == Init => Parts
<1> SUFFICES ASSUME Init PROVE Parts
  OBVIOUS
<1>1. \A r \in Requests : RequestSound(req[r], sessions, now)
  BY IdleSound DEF Init
<1>2. JarSound(sessions) /\ HistSound
  BY DEF Init, JarSound, HistSound, Known, HalfWindow
<1> QED BY <1>1, <1>2, InitTyped DEF Parts

LEMMA NextSound == Parts /\ [Next]_vars => Parts'
<1> SUFFICES ASSUME Parts, [Next]_vars PROVE Parts'
  OBVIOUS
<1>t. TypeOK'
  BY NextTyped DEF Parts
<1>1. ASSUME NEW r \in Requests, MwVerify(r) PROVE Parts'
  BY <1>1, <1>t, MwVerifySound
<1>2. ASSUME NEW r \in Requests, MwLookup(r) PROVE Parts'
  BY <1>2, <1>t, MwLookupSound
<1>3. ASSUME NEW r \in Requests, ReadSession(r) PROVE Parts'
  <2>1. Ages(sessions, now, sessions', now') /\ UNCHANGED <<jar, hist>>
    BY <1>3 DEF ReadSession, Ages, Parts, TypeOK
  <2> QED BY <1>3, <1>t, <2>1, AnswerSound, FailSound DEF ReadSession, At
<1>4. ASSUME NEW r \in Requests, DevList(r) PROVE Parts'
  BY <1>4, <1>t, DevListSound
<1>5. ASSUME NEW r \in Requests, DevRevoke(r) PROVE Parts'
  BY <1>5, <1>t, DevRevokeSound
<1>6. ASSUME NEW r \in Requests, RefreshMissing(r) PROVE Parts'
  <2>1. Ages(sessions, now, sessions', now') /\ UNCHANGED <<jar, hist>>
    BY <1>6 DEF RefreshMissing, Ages, Parts, TypeOK
  <2> QED BY <1>6, <1>t, <2>1, FailSound DEF RefreshMissing
<1>7. ASSUME NEW r \in Requests, RefreshCall(r) PROVE Parts'
  BY <1>7, <1>t, RefreshCallSound
<1>8. ASSUME NEW r \in Requests, SlideInfo(r) PROVE Parts'
  BY <1>8, <1>t, SlideInfoSound
<1>9. ASSUME NEW r \in Requests, SlideCreate(r) PROVE Parts'
  BY <1>9, <1>t, SlideCreateSound
<1>10. ASSUME NEW r \in Requests, SlideRevoke(r) PROVE Parts'
  BY <1>10, <1>t, SlideRevokeSound
<1>11. ASSUME NEW r \in Requests, LogoffLocal(r) PROVE Parts'
  <2>1. Ages(sessions, now, sessions', now') /\ UNCHANGED <<jar, hist>>
    BY <1>11 DEF LogoffLocal, Ages, Parts, TypeOK
  <2>2. req[r].ep \notin {"revoke", "others"}
    BY <1>11 DEF LogoffLocal, At
  <2> QED BY <1>11, <1>t, <2>1, <2>2, AnswerSound DEF LogoffLocal
<1>12. ASSUME NEW r \in Requests, LogoffVerify(r) PROVE Parts'
  BY <1>12, <1>t, LogoffVerifySound
<1>13. ASSUME NEW r \in Requests, LogoffRevoke(r) PROVE Parts'
  BY <1>13, <1>t, LogoffRevokeSound
<1>14. ASSUME NEW r \in Requests, SignInUser(r) PROVE Parts'
  BY <1>14, <1>t, SignInUserSound
<1>15. ASSUME NEW r \in Requests, SignInCreate(r) PROVE Parts'
  BY <1>15, <1>t, SignInCreateSound
<1>16. ASSUME NEW r \in Requests, NEW b \in Browsers, NEW ep \in Endpoints, Send(r, b, ep)
       PROVE  Parts'
  BY <1>16, <1>t, SendSound
<1>17. ASSUME NEW r \in Requests, Deliver(r) PROVE Parts'
  BY <1>17, <1>t, DeliverSound
<1>18. ASSUME NEW r \in Requests, Abandon(r) \/ Drop(r) PROVE Parts'
  BY <1>18, <1>t, QuietSound
<1>19. CASE Restart
  BY <1>19, <1>t, RestartSound
<1>20. CASE Tick \/ UNCHANGED vars
  BY <1>20, <1>t, TickSound
<1>21. ASSUME NEW r \in Requests, ListSessions(r) \/ ListInfo(r) PROVE Parts'
  BY <1>21, <1>t, ListsRequestSound
<1> QED
  BY <1>1, <1>2, <1>3, <1>4, <1>5, <1>6, <1>7, <1>8, <1>9, <1>10, <1>11, <1>12, <1>13,
     <1>14, <1>15, <1>16, <1>17, <1>18, <1>19, <1>20, <1>21
  DEF Next, Serve, Client

-----------------------------------------------------------------------------
(* Whom a request acts as, and what it lists.                              *)

\* Every step of the system lets the session table age.
LEMMA NextAges ==
  ASSUME Parts, TypeOK', [Next]_vars
  PROVE  Ages(sessions, now, sessions', now')
<1>t. /\ sessions \in [Handles -> Session] /\ now \in Nat
      /\ \A r \in Requests : req[r] \in Request
  BY DEF Parts, TypeOK
<1>1. Ages(sessions, now, sessions, now)
  BY <1>t DEF Ages
<1>2. ASSUME NEW r \in Requests, MwVerify(r) \/ LogoffVerify(r)
      PROVE  sessions' \in {sessions, Verified(req[r].acc)} /\ now' = now
  BY <1>2 DEF MwVerify, LogoffVerify, CallFails
<1>3. ASSUME NEW r \in Requests, MwVerify(r) \/ LogoffVerify(r)
      PROVE  Ages(sessions, now, sessions', now')
  BY <1>1, <1>2, <1>3, <1>t, CookieTyped, VerifiedAges DEF Parts
<1>4. ASSUME NEW r \in Requests, RefreshCall(r)
      PROVE  Ages(sessions, now, sessions', now')
  <2>1. req[r].ref \in Token
    BY <1>4, <1>t, CookieTyped DEF RefreshCall
  <2>2. sessions' \in {sessions, Refreshed(req[r].ref)} /\ now' = now
    BY <1>4 DEF RefreshCall, CallFails
  <2> QED BY <1>1, <2>1, <2>2, RefreshedAges DEF Parts
<1>5. ASSUME NEW r \in Requests, SlideCreate(r) \/ SignInCreate(r)
      PROVE  Ages(sessions, now, sessions', now')
  <2>1. \E h \in Fresh : sessions' \in {sessions, Created(h, req[r].user, req[r].fp)}
    BY <1>5 DEF SlideCreate, SignInCreate, CallFails
  <2>2. now' = now
    BY <1>5 DEF SlideCreate, SignInCreate
  <2> QED BY <1>1, <2>1, <2>2, CreatedAges DEF Parts
<1>6. ASSUME NEW r \in Requests, DevRevoke(r) \/ SlideRevoke(r) \/ LogoffRevoke(r)
      PROVE  Ages(sessions, now, sessions', now')
  <2>1. (Revoke(req[r]) \/ RevokeFails(req[r])) /\ now' = now
    BY <1>6 DEF DevRevoke, SlideRevoke, LogoffRevoke
  <2> QED BY <1>t, <2>1, RevokeAges DEF Parts
<1>7. ASSUME NEW r \in Requests,
             \/ MwLookup(r) \/ ReadSession(r) \/ ListSessions(r) \/ ListInfo(r)
             \/ DevList(r) \/ RefreshMissing(r) \/ SlideInfo(r) \/ LogoffLocal(r)
             \/ SignInUser(r) \/ Client(r)
      PROVE  Ages(sessions, now, sessions', now')
  <2>1. UNCHANGED <<sessions, now>>
    BY <1>7 DEF MwLookup, ReadSession, ListSessions, ListInfo, DevList, RefreshMissing,
                SlideInfo, LogoffLocal, SignInUser, Client, Send, Deliver, Abandon, Drop
  <2> QED BY <1>1, <2>1
<1>8. CASE Restart \/ Tick \/ UNCHANGED vars
  <2>1. sessions' = sessions /\ now' \in {now, now + 1}
    BY <1>8 DEF Restart, Tick, vars
  <2> QED BY <2>1, <1>t DEF Ages
<1> QED BY <1>3, <1>4, <1>5, <1>6, <1>7, <1>8 DEF Next, Serve

LEMMA ActorAging ==
  ASSUME NEW q \in Request, NEW s \in [Handles -> Session], NEW s2 \in [Handles -> Session],
         NEW n \in Nat, NEW n2 \in Nat, Ages(s, n, s2, n2),
         RequestSound(q, s, n), ActorSound(q, s, n)
  PROVE  ActorSound(q, s2, n2)
<1>1. \A h \in Handles : s[h].st # "unused" =>
        /\ s2[h].user = s[h].user
        /\ ~AliveAt(h, s, n) => ~AliveAt(h, s2, n2)
  <2> SUFFICES ASSUME NEW h \in Handles, s[h].st # "unused"
               PROVE  /\ s2[h].user = s[h].user
                      /\ ~AliveAt(h, s, n) => ~AliveAt(h, s2, n2)
    OBVIOUS
  <2>1. s[h].exp \in Nat
    BY DEF Session
  <2> QED BY <2>1 DEF Ages, AliveAt
<1>2. /\ \A h \in q.hs : h \in Handles /\ s[h].st # "unused"
      /\ q.ctx # None => q.ctx \in Handles /\ s[q.ctx].st # "unused"
  BY CookieTyped, NoTokenFacts DEF RequestSound, ActorSound, Known
<1>3. q.pc = "dev_info" /\ q.ep = "list" => q.ctx # None
  BY DEF ActorSound, Protected
<1>4. q.pc = "reply" /\ q.ep = "list" /\ q.out = "ok" => q.ctx # None
  BY DEF ActorSound, Protected
<1> QED BY <1>1, <1>2, <1>3, <1>4 DEF ActorSound

\* The fields that tell whom a request acts as.
SameActor(p, q) ==
  /\ p.b = q.b /\ p.ep = q.ep /\ p.acc = q.acc /\ p.ctx = q.ctx /\ p.user = q.user
  /\ p.hs = q.hs /\ p.todo = q.todo /\ p.shown = q.shown

\* An answer acts as nobody; that of a protected route was given with a Ctx.
LEMMA RepliedActor ==
  ASSUME NEW p, NEW q, NEW s, NEW n, ActorSound(q, s, n), SameActor(p, q),
         q.pc # "idle", p.pc = "reply",
         \/ p.out \in ClientErrors \cup {"kept"}
         \/ p.ep \notin Protected
         \/ q.pc \in {"handler", "dev_revoke"} /\ p.ep # "list"
  PROVE  ActorSound(p, s, n)
<1>1. \/ p.out # "ok"
      \/ p.ep \notin Protected
      \/ q.pc \in {"handler", "dev_revoke"} /\ p.ep # "list"
  BY DEF ClientErrors, Unauthorized, Refusals
<1>2. p.ep \notin Protected => p.ep # "list"
  BY DEF Protected
<1> QED BY <1>1, <1>2 DEF ActorSound, SameActor

LEMMA EnteredActor ==
  ASSUME NEW q \in Request, NEW s, NEW n, q.b # None,
         q.ctx # None => q.acc # NoToken /\ q.ctx = q.acc.h /\ q.user = s[q.ctx].user,
         q.todo \cup q.shown \subseteq q.hs
  PROVE  ActorSound(Enter(q), s, n)
<1> DEFINE p == Enter(q)
<1>1. SameButPc(p, q)
  BY EnterFields
<1>2. \/ p.pc = "handler" /\ (p.ep \in Protected => p.ctx # None)
      \/ p.pc = "reply" /\ p.out # "ok"
  BY EnterFields DEF SameButPc, ClientErrors, Unauthorized, Refusals
<1>3. p.ctx # None => p.acc # NoToken /\ p.ctx = p.acc.h /\ p.user = s[p.ctx].user
  BY <1>1 DEF SameButPc
<1> HIDE DEF p
<1>4. ActorSound(p, s, n)
  BY <1>1, <1>2, <1>3 DEF ActorSound, SameButPc
<1> QED BY <1>4 DEF p

LEMMA ActorFacts ==
  ASSUME Parts, Actors, TypeOK', [Next]_vars, NEW r \in Requests
  PROVE  /\ req[r] \in Request
         /\ RequestSound(req[r], sessions, now) /\ ActorSound(req[r], sessions, now)
         /\ ActorSound(req[r], sessions', now')
<1>1. /\ req[r] \in Request
      /\ RequestSound(req[r], sessions, now) /\ ActorSound(req[r], sessions, now)
  BY DEF Parts, TypeOK, Actors
<1>2. /\ sessions \in [Handles -> Session] /\ sessions' \in [Handles -> Session]
      /\ now \in Nat /\ now' \in Nat /\ Ages(sessions, now, sessions', now')
  BY NextAges DEF Parts, TypeOK
<1> QED BY <1>1, <1>2, ActorAging

LEMMA ActorStep ==
  ASSUME Parts, Actors, TypeOK', [Next]_vars, NEW r \in Requests, NEW p, Step(r, p),
         ActorSound(p, sessions', now')
  PROVE  Actors'
<1>1. ASSUME NEW x \in Requests
      PROVE  ActorSound(req'[x], sessions', now')
  <2>1. CASE x = r
    BY <2>1 DEF Step, Parts, TypeOK
  <2>2. CASE x # r
    BY <2>2, ActorFacts DEF Step, Parts, TypeOK
  <2> QED BY <2>1, <2>2
<1> QED BY <1>1 DEF Actors

\* A step that answers a request.
LEMMA AnswerActor ==
  ASSUME Parts, Actors, TypeOK', [Next]_vars, NEW r \in Requests, req[r].pc # "idle",
         NEW out \in {"ok", "kept"} \cup ClientErrors,
         \/ Step(r, Answer(req[r], out)) \/ Step(r, Answer(ClearCookies(req[r]), out))
         \/ \E t : Step(r, Answer(SetCookies(req[r], t), out)) /\ req[r].ep \notin Protected
                   /\ SetCookies(req[r], t) \in Request,
         \/ out # "ok"
         \/ req[r].ep \notin Protected
         \/ req[r].pc \in {"handler", "dev_revoke"} /\ req[r].ep # "list"
  PROVE  Actors'
<1> DEFINE q == req[r]
<1>1. q \in Request /\ ActorSound(q, sessions', now')
  BY ActorFacts
<1>2. ASSUME NEW c \in Request, SameActor(c, q), Step(r, Answer(c, out))
      PROVE  Actors'
  <2> DEFINE p == Answer(c, out)
  <2>1. SameActor(p, q) /\ p.pc = "reply" /\ p.out = out
    BY <1>2, AnswerFields DEF SameActor, SameButPc
  <2> HIDE DEF p
  <2>2. ActorSound(p, sessions', now')
    BY <1>1, <2>1, RepliedActor DEF SameActor
  <2> QED BY <1>2, <2>2, ActorStep DEF p
<1>3. SameActor(q, q) /\ SameActor(ClearCookies(q), q) /\ ClearCookies(q) \in Request
  BY <1>1, ClearCookiesFields, ClearCookiesTyped DEF SameActor, SameButPc
<1>4. \A t : SameActor(SetCookies(q, t), q)
  BY <1>1, SetCookiesFields DEF SameActor
<1> QED BY <1>1, <1>2, <1>3, <1>4

LEMMA FailActor ==
  ASSUME Parts, Actors, TypeOK', [Next]_vars, NEW r \in Requests, req[r].pc # "idle",
         NEW e, \/ Step(r, Fail(req[r], e)) \/ Step(r, Fail(ClearCookies(req[r]), e))
  PROVE  Actors'
BY ClientErrorTyped, AnswerActor DEF Fail

\* The resolver.
LEMMA MwVerifyActor ==
  ASSUME Parts, Actors, TypeOK', [Next]_vars, NEW r \in Requests, MwVerify(r)
  PROVE  Actors'
<1> DEFINE q == req[r]
           c == ClearCookies(q)
<1>1. /\ q \in Request /\ ActorSound(q, sessions', now') /\ q.pc = "verify"
      /\ q.ctx = None /\ q.b # None /\ q.todo \cup q.shown \subseteq q.hs
  BY ActorFacts DEF MwVerify, ActorSound
<1>2. ASSUME Step(r, Enter(q)) PROVE Actors'
  BY <1>1, <1>2, EnteredActor, ActorStep
<1>3. ASSUME Step(r, Enter(c)) PROVE Actors'
  <2>1. c \in Request /\ SameButPc(c, q)
    BY <1>1, ClearCookiesTyped, ClearCookiesFields
  <2> HIDE DEF c
  <2>2. ActorSound(Enter(c), sessions', now')
    BY <1>1, <2>1, EnteredActor DEF SameButPc
  <2> QED BY <1>3, <2>2, ActorStep
<1>4. ASSUME VerifyStatus(q.acc) = "OK", Step(r, Await(q, "lookup")) PROVE Actors'
  <2>1. q.acc # NoToken
    BY <1>4 DEF VerifyStatus, NoToken, Parts, TypeOK
  <2> DEFINE p == Await(q, "lookup")
  <2>2. SameButPc(p, q) /\ p.pc = "lookup" /\ p.out = q.out
    BY <1>1, AwaitFields
  <2> HIDE DEF p
  <2>3. ActorSound(p, sessions', now')
    BY <1>1, <2>1, <2>2 DEF ActorSound, SameButPc
  <2> QED BY <1>4, <2>3, ActorStep DEF p
<1>5. VerifyStatus(q.acc) \in {"OK", "TRY_REFRESH_TOKEN", "UNAUTHORISED"}
  BY DEF VerifyStatus
<1> QED BY <1>2, <1>3, <1>4, <1>5 DEF MwVerify, Resolved

LEMMA MwLookupActor ==
  ASSUME Parts, Actors, TypeOK', [Next]_vars, NEW r \in Requests, MwLookup(r)
  PROVE  Actors'
<1> DEFINE q == req[r]
           c == ClearCookies(q)
           u == sessions[q.acc.h].user
           w == [q EXCEPT !.ctx = q.acc.h, !.user = u]
<1>1. /\ q \in Request /\ ActorSound(q, sessions', now') /\ q.pc = "lookup"
      /\ q.ctx = None /\ q.b # None /\ q.acc # NoToken
      /\ q.todo \cup q.shown \subseteq q.hs /\ sessions' = sessions
  BY ActorFacts DEF MwLookup, ActorSound
<1>2. ASSUME Step(r, Enter(q)) PROVE Actors'
  BY <1>1, <1>2, EnteredActor, ActorStep
<1>3. ASSUME Step(r, Enter(c)) PROVE Actors'
  <2>1. c \in Request /\ SameButPc(c, q)
    BY <1>1, ClearCookiesTyped, ClearCookiesFields
  <2> HIDE DEF c
  <2>2. ActorSound(Enter(c), sessions', now')
    BY <1>1, <2>1, EnteredActor DEF SameButPc
  <2> QED BY <1>3, <2>2, ActorStep
<1>4. ASSUME u \in mirror, Step(r, Enter(w)) PROVE Actors'
  <2>1. u \in Users \cup {None} /\ q.acc.h \in Handles \cup {None}
    BY <1>1, <1>4, CookieTyped, NoTokenFacts DEF Parts, TypeOK
  <2>2. w \in Request
    <3> HIDE DEF q, u
    <3> QED BY <1>1, <2>1, TwoFieldsTyped
  <2>3. /\ w.b = q.b /\ w.acc = q.acc /\ w.ctx = q.acc.h /\ w.user = sessions'[q.acc.h].user
        /\ w.todo = q.todo /\ w.shown = q.shown /\ w.hs = q.hs
    BY <1>1 DEF Request
  <2> HIDE DEF w
  <2>4. ActorSound(Enter(w), sessions', now')
    BY <1>1, <2>2, <2>3, EnteredActor
  <2> QED BY <1>4, <2>4, ActorStep
<1> QED BY <1>2, <1>3, <1>4 DEF MwLookup

LEMMA SendActor ==
  ASSUME Parts, Actors, TypeOK', [Next]_vars, NEW r \in Requests, NEW b \in Browsers,
         NEW ep \in Endpoints, Send(r, b, ep)
  PROVE  Actors'
<1>1. PICK a \in SentAccess(b), f \in SentRefresh(b, ep) :
        LET q == Sent(b, ep, a, f)
        IN  Step(r, IF a = NoToken THEN Enter(q) ELSE q)
  BY DEF Send
<1> DEFINE q == Sent(b, ep, a, f)
<1>2. q \in Request
  BY SentTyped DEF Parts
<1>3. /\ q.b # None /\ q.ctx = None /\ q.todo = {} /\ q.shown = {} /\ q.pc = "verify"
      /\ q.out = "none"
  BY AuthAssumption DEF Sent
<1>4. Step(r, Enter(q)) \/ Step(r, q)
  BY <1>1
<1> HIDE DEF q
<1>5. ActorSound(q, sessions', now') /\ ActorSound(Enter(q), sessions', now')
  BY <1>2, <1>3, EnteredActor DEF ActorSound
<1> QED BY <1>4, <1>5, ActorStep

\* The device routes.
LEMMA DevListActor ==
  ASSUME Parts, Actors, TypeOK', [Next]_vars, NEW r \in Requests, DevList(r)
  PROVE  Actors'
<1> DEFINE q == req[r]
           a == Await(q, "dev_revoke")
<1>1. /\ q \in Request /\ ActorSound(q, sessions', now') /\ q.hs = {}
      /\ q.pc = "handler" /\ q.ep \in {"revoke", "others"}
  BY ActorFacts DEF DevList, At, RequestSound
<1>2. ASSUME NEW hs \in Targets(q), Step(r, [a EXCEPT !.hs = hs]) PROVE Actors'
  <2>1. hs \in SUBSET Handles /\ (q.ctx \notin hs \/ hs = {q.ctx})
    BY DEF Targets, HandlesOf
  <2>2. a \in Request /\ SameButPc(a, q) /\ a.pc = "dev_revoke" /\ a.out = q.out
    BY <1>1, AwaitTyped, AwaitFields DEF Pcs
  <2> DEFINE p == [a EXCEPT !.hs = hs]
  <2>3. /\ p.pc = "dev_revoke" /\ p.hs = hs /\ p.b = q.b /\ p.ep = q.ep /\ p.acc = q.acc
        /\ p.ctx = q.ctx /\ p.user = q.user /\ p.todo = q.todo /\ p.shown = q.shown
        /\ p.out = q.out
    <3> HIDE DEF a
    <3> QED BY <2>1, <2>2 DEF Request, SameButPc
  <2> HIDE DEF p
  <2>4. ActorSound(p, sessions', now')
    BY <1>1, <2>1, <2>3 DEF ActorSound
  <2> QED BY <1>2, <2>4, ActorStep DEF p
<1>3. ASSUME Step(r, Answer(q, "ok")) PROVE Actors'
  BY <1>1, <1>3, AnswerActor
<1>4. ASSUME NEW e, Step(r, Fail(q, e)) PROVE Actors'
  BY <1>1, <1>4, FailActor
<1> QED BY <1>2, <1>3, <1>4 DEF DevList

LEMMA ListSessionsActor ==
  ASSUME Parts, Actors, TypeOK', [Next]_vars, NEW r \in Requests, ListSessions(r)
  PROVE  Actors'
<1> DEFINE q == req[r]
           hs == HandlesOf(q.user)
           a == Await(q, "dev_info")
           p == [a EXCEPT !.hs = hs, !.todo = hs]
<1>1. /\ q \in Request /\ ActorSound(q, sessions', now') /\ q.hs = {}
      /\ q.pc = "handler" /\ q.ep = "list" /\ UNCHANGED <<sessions, now>>
  BY ActorFacts DEF ListSessions, At, RequestSound
<1>2. /\ q.ctx # None /\ q.user = sessions[q.ctx].user /\ q.shown = {} /\ q.ctx \in Handles
  BY <1>1, CookieTyped, NoTokenFacts DEF ActorSound, Protected
<1>3. /\ hs \in SUBSET Handles
      /\ \A h \in hs : sessions[h].user = q.user
      /\ AliveAt(q.ctx, sessions, now) => q.ctx \in hs
  BY <1>2 DEF HandlesOf, Alive, AliveAt
<1>4. a \in Request /\ SameButPc(a, q) /\ a.pc = "dev_info" /\ a.out = q.out
  BY <1>1, AwaitTyped, AwaitFields DEF Pcs
<1>5. CASE Step(r, p)
  <2>1. /\ p.pc = "dev_info" /\ p.hs = hs /\ p.todo = hs /\ p.shown = {} /\ p.b = q.b
        /\ p.ep = q.ep /\ p.acc = q.acc /\ p.ctx = q.ctx /\ p.user = q.user /\ p.out = q.out
    <3> HIDE DEF a, hs
    <3> QED BY <1>2, <1>3, <1>4 DEF Request, SameButPc
  <2> HIDE DEF p, hs
  <2>2. ActorSound(p, sessions', now')
    BY <1>1, <1>2, <1>3, <2>1 DEF ActorSound
  <2> QED BY <1>5, <2>2, ActorStep
<1>6. CASE hs = {} /\ Step(r, Answer(q, "ok"))
  <2> DEFINE g == Answer(q, "ok")
  <2>1. SameButPc(g, q) /\ g.pc = "reply" /\ g.out = "ok"
    BY <1>1, AnswerFields
  <2> HIDE DEF g
  <2>2. ActorSound(g, sessions', now')
    BY <1>1, <1>2, <1>3, <1>6, <2>1 DEF ActorSound, SameButPc
  <2> QED BY <1>6, <2>2, ActorStep DEF g
<1>7. CASE Step(r, Fail(q, "SuperTokens"))
  BY <1>1, <1>7, FailActor
<1> QED BY <1>5, <1>6, <1>7 DEF ListSessions

LEMMA ListInfoActor ==
  ASSUME Parts, Actors, TypeOK', [Next]_vars, NEW r \in Requests, ListInfo(r)
  PROVE  Actors'
<1> DEFINE q == req[r]
           Seen(h) == IF Alive(h) THEN q.shown \cup {h} ELSE q.shown
           Left(h) == q.todo \ {h}
           Read(h) == [q EXCEPT !.todo = Left(h), !.shown = Seen(h)]
<1>1. /\ q \in Request /\ ActorSound(q, sessions', now')
      /\ q.pc = "dev_info" /\ q.ep = "list" /\ UNCHANGED <<sessions, now>>
  BY ActorFacts DEF ListInfo, At
<1>2. CASE Step(r, Fail(q, "SuperTokens"))
  BY <1>1, <1>2, FailActor
<1>3. ASSUME NEW h \in q.todo,
             Step(r, IF Read(h).todo = {} THEN Answer(Read(h), "ok") ELSE Read(h))
      PROVE  Actors'
  <2> DEFINE c == Read(h)
             g == Answer(c, "ok")
  <2>1. /\ Left(h) \in SUBSET Handles /\ Seen(h) \in SUBSET Handles
        /\ Left(h) \cup Seen(h) \subseteq q.hs
        /\ \A x \in q.hs \cup {q.ctx} :
             AliveAt(x, sessions, now) => x \in Left(h) \cup Seen(h)
    BY <1>1, CookieTyped DEF ActorSound, Alive, AliveAt
  <2>2. c \in Request
    <3> HIDE DEF Left, Seen
    <3> QED BY <1>1, <2>1, TwoListsTyped
  <2>3. /\ c.pc = "dev_info" /\ c.hs = q.hs /\ c.todo = Left(h) /\ c.shown = Seen(h)
        /\ c.b = q.b /\ c.ep = "list" /\ c.acc = q.acc /\ c.ctx = q.ctx
        /\ c.user = q.user /\ c.out = q.out
    <3> HIDE DEF Left, Seen
    <3> QED BY <1>1 DEF Request
  <2> HIDE DEF Left, Seen, c
  <2>4. ActorSound(c, sessions', now')
    BY <1>1, <2>1, <2>3 DEF ActorSound
  <2>5. SameButPc(g, c) /\ g.pc = "reply" /\ g.out = "ok"
    BY <2>2, AnswerFields
  <2>6. q.ctx # None /\ \A x \in q.hs : sessions'[x].user = q.user
    BY <1>1 DEF ActorSound, Protected
  <2> HIDE DEF g
  <2>7. c.todo = {} => ActorSound(g, sessions', now')
    BY <1>1, <2>1, <2>3, <2>4, <2>5, <2>6 DEF ActorSound, SameButPc
  <2>8. Step(r, c) \/ (c.todo = {} /\ Step(r, g))
    BY <1>3 DEF c, g
  <2> QED BY <2>4, <2>7, <2>8, ActorStep
<1>4. \/ \E h \in q.todo :
            Step(r, IF Read(h).todo = {} THEN Answer(Read(h), "ok") ELSE Read(h))
      \/ Step(r, Fail(q, "SuperTokens"))
  BY <1>1 DEF ListInfo
<1> HIDE DEF Read
<1> QED BY <1>2, <1>3, <1>4

\* Refresh, logoff and signin act as other sessions than the Ctx.
LEMMA RefreshActor ==
  ASSUME Parts, Actors, TypeOK', [Next]_vars, NEW r \in Requests, RefreshCall(r)
  PROVE  Actors'
<1> DEFINE q == req[r]
           t == q.ref
           u == sessions[t.h].user
           a == Await(q, "info")
<1>1. /\ q \in Request /\ ActorSound(q, sessions', now') /\ q.hs = {} /\ t \in Token
      /\ q.pc = "handler" /\ q.ep = "refresh" /\ q.ep \notin Protected
  BY ActorFacts, CookieTyped DEF RefreshCall, At, RequestSound, Protected
<1>2. CASE Step(r, Answer(SetCookies(q, NextTokens(t)), "ok"))
  <2>1. NextTokens(t) \in Token
    BY <1>1, NoTokenFacts, TokensTyped DEF Parts, TypeOK, SessionsType
  <2>2. SetCookies(q, NextTokens(t)) \in Request
    BY <1>1, <2>1, SetCookiesTyped
  <2> QED BY <1>1, <1>2, <2>2, AnswerActor
<1>3. CASE Step(r, [a EXCEPT !.hs = {t.h}, !.user = u])
  <2> DEFINE p == [a EXCEPT !.hs = {t.h}, !.user = u]
  <2>1. a \in Request /\ SameButPc(a, q) /\ a.pc = "info" /\ a.out = q.out
    BY <1>1, AwaitTyped, AwaitFields DEF Pcs
  <2>2. /\ p.pc = "info" /\ p.hs = {t.h} /\ p.b = q.b /\ p.ep = q.ep /\ p.acc = q.acc
        /\ p.ctx = q.ctx /\ p.todo = q.todo /\ p.shown = q.shown /\ p.out = q.out
    <3> HIDE DEF a, u
    <3> QED BY <2>1 DEF Request, SameButPc
  <2> HIDE DEF p
  <2>3. ActorSound(p, sessions', now')
    BY <1>1, <2>2 DEF ActorSound
  <2> QED BY <1>3, <2>3, ActorStep DEF p
<1>4. ASSUME NEW e, Step(r, Fail(q, e)) \/ Step(r, Fail(ClearCookies(q), e)) PROVE Actors'
  BY <1>1, <1>4, FailActor
<1> QED BY <1>2, <1>3, <1>4 DEF RefreshCall

LEMMA SlideActor ==
  ASSUME Parts, Actors, TypeOK', [Next]_vars, NEW r \in Requests,
         SlideInfo(r) \/ SlideCreate(r) \/ SlideRevoke(r)
  PROVE  Actors'
<1> DEFINE q == req[r]
<1>1. /\ q \in Request /\ ActorSound(q, sessions', now')
      /\ q.ep = "refresh" /\ q.ep \notin Protected /\ q.pc \in {"info", "create", "drop_old"}
  BY ActorFacts DEF SlideInfo, SlideCreate, SlideRevoke, At, Protected
<1>2. CASE Step(r, Fail(q, "SuperTokens"))
  BY <1>1, <1>2, FailActor
<1>3. ASSUME NEW pc \in {"create", "drop_old"}, NEW p, Step(r, p), p.out = q.out,
             p.pc = pc, SameActor(p, q)
      PROVE  Actors'
  <2>1. ActorSound(p, sessions', now')
    BY <1>1, <1>3 DEF ActorSound, SameActor
  <2> QED BY <1>3, <2>1, ActorStep
<1>4. ASSUME NEW d, Step(r, [Await(q, "create") EXCEPT !.fp = d]) PROVE Actors'
  <2> DEFINE a == Await(q, "create")
             p == [a EXCEPT !.fp = d]
  <2>1. a \in Request /\ SameButPc(a, q) /\ a.pc = "create" /\ a.out = q.out
    BY <1>1, AwaitTyped, AwaitFields DEF Pcs
  <2>2. p.pc = "create" /\ p.out = q.out /\ SameActor(p, q)
    <3> HIDE DEF a
    <3> QED BY <2>1 DEF Request, SameButPc, SameActor
  <2> QED BY <1>3, <1>4, <2>2
<1>5. ASSUME NEW t, Step(r, [Await(q, "drop_old") EXCEPT !.tok = t]) PROVE Actors'
  <2> DEFINE a == Await(q, "drop_old")
             p == [a EXCEPT !.tok = t]
  <2>1. a \in Request /\ SameButPc(a, q) /\ a.pc = "drop_old" /\ a.out = q.out
    BY <1>1, AwaitTyped, AwaitFields DEF Pcs
  <2>2. p.pc = "drop_old" /\ p.out = q.out /\ SameActor(p, q)
    <3> HIDE DEF a
    <3> QED BY <2>1 DEF Request, SameButPc, SameActor
  <2> QED BY <1>3, <1>5, <2>2
<1>6. CASE Step(r, Answer(SetCookies(q, q.tok), "ok"))
  <2>1. SetCookies(q, q.tok) \in Request
    BY <1>1, CookieTyped, SetCookiesTyped
  <2> QED BY <1>1, <1>6, <2>1, AnswerActor
<1> QED BY <1>2, <1>4, <1>5, <1>6 DEF SlideInfo, SlideCreate, SlideRevoke

LEMMA LogoffActor ==
  ASSUME Parts, Actors, TypeOK', [Next]_vars, NEW r \in Requests,
         LogoffLocal(r) \/ LogoffVerify(r) \/ LogoffRevoke(r)
  PROVE  Actors'
<1> DEFINE q == req[r]
           a == Await(q, "lo_revoke")
           p == [a EXCEPT !.hs = {q.acc.h}]
<1>1. /\ q \in Request /\ ActorSound(q, sessions', now') /\ RequestSound(q, sessions, now)
      /\ q.ep = "logoff" /\ q.ep \notin Protected /\ q.pc \in {"handler", "lo_revoke"}
  BY ActorFacts DEF LogoffLocal, LogoffVerify, LogoffRevoke, At, Protected
<1>2. ASSUME NEW out \in {"ok", "kept"},
             Step(r, Answer(q, out)) \/ Step(r, Answer(ClearCookies(q), out))
      PROVE  Actors'
  BY <1>1, <1>2, AnswerActor
<1>3. CASE LogoffVerify(r) /\ Step(r, p)
  <2>1. a \in Request /\ SameButPc(a, q) /\ a.pc = "lo_revoke" /\ a.out = q.out
    BY <1>1, AwaitTyped, AwaitFields DEF Pcs
  <2>2. q.acc # NoToken /\ q.hs = {}
    BY <1>1, <1>3, CookieTyped, NoTokenFacts DEF LogoffVerify, At, RequestSound
  <2>3. /\ p.pc = "lo_revoke" /\ p.hs = {q.acc.h} /\ p.b = q.b /\ p.ep = q.ep
        /\ p.acc = q.acc /\ p.ctx = q.ctx /\ p.user = q.user /\ p.todo = q.todo
        /\ p.shown = q.shown /\ p.out = q.out
    <3> HIDE DEF a
    <3> QED BY <2>1 DEF Request, SameButPc
  <2> HIDE DEF p
  <2>4. ActorSound(p, sessions', now')
    BY <1>1, <2>2, <2>3 DEF ActorSound
  <2> QED BY <1>3, <2>4, ActorStep
<1> QED BY <1>2, <1>3 DEF LogoffLocal, LogoffVerify, LogoffRevoke

LEMMA SignInActor ==
  ASSUME Parts, Actors, TypeOK', [Next]_vars, NEW r \in Requests,
         SignInUser(r) \/ SignInCreate(r)
  PROVE  Actors'
<1> DEFINE q == req[r]
           a == Await(q, "si_create")
<1>1. /\ q \in Request /\ ActorSound(q, sessions', now')
      /\ q.ep = "signin" /\ q.ep \notin Protected /\ q.pc \in {"handler", "si_create"}
      /\ q.b # None
  BY ActorFacts DEF SignInUser, SignInCreate, At, Protected, ActorSound
<1>2. ASSUME NEW e, Step(r, Fail(q, e)) PROVE Actors'
  BY <1>1, <1>2, FailActor
<1>3. ASSUME NEW u \in Users, Step(r, [a EXCEPT !.user = u, !.fp = q.b]) PROVE Actors'
  <2> DEFINE p == [a EXCEPT !.user = u, !.fp = q.b]
  <2>1. a \in Request /\ SameButPc(a, q) /\ a.pc = "si_create" /\ a.out = q.out
    BY <1>1, AwaitTyped, AwaitFields DEF Pcs
  <2>2. /\ p.pc = "si_create" /\ p.hs = q.hs /\ p.b = q.b /\ p.ep = q.ep /\ p.acc = q.acc
        /\ p.ctx = q.ctx /\ p.user = u /\ p.fp = q.b /\ p.todo = q.todo
        /\ p.shown = q.shown /\ p.out = q.out
    <3> HIDE DEF a
    <3> QED BY <2>1 DEF Request, SameButPc
  <2>3. u # None
    BY CoreAssumption
  <2> HIDE DEF p
  <2>4. ActorSound(p, sessions', now')
    BY <1>1, <2>2, <2>3 DEF ActorSound
  <2> QED BY <1>3, <2>4, ActorStep DEF p
<1>4. ASSUME NEW h \in Fresh, Step(r, Answer(SetCookies(q, FirstTokens(h)), "ok"))
      PROVE  Actors'
  <2>1. FirstTokens(h) \in Token
    BY TokensTyped, CoreAssumption DEF Fresh, FirstTokens, Token, Parts, TypeOK
  <2>2. SetCookies(q, FirstTokens(h)) \in Request
    BY <1>1, <2>1, SetCookiesTyped
  <2> QED BY <1>1, <1>4, <2>2, AnswerActor
<1> QED BY <1>2, <1>3, <1>4 DEF SignInUser, SignInCreate

LEMMA IdleActor ==
  ASSUME NEW s, NEW n
  PROVE  ActorSound(Idle, s, n)
BY DEF ActorSound, Idle, Protected

LEMMA InitActors == Init => Actors
BY IdleActor DEF Init, Actors

LEMMA NextActors == Parts /\ Actors /\ [Next]_vars => Actors'
<1> SUFFICES ASSUME Parts, Actors, [Next]_vars PROVE Actors'
  OBVIOUS
<1>t. TypeOK'
  BY NextTyped DEF Parts
<1>f. ASSUME NEW r \in Requests
      PROVE  req[r] \in Request /\ ActorSound(req[r], sessions', now')
  BY <1>t, ActorFacts
<1>1. ASSUME NEW r \in Requests, MwVerify(r) \/ MwLookup(r) PROVE Actors'
  BY <1>1, <1>t, MwVerifyActor, MwLookupActor
<1>2. ASSUME NEW r \in Requests, ReadSession(r) PROVE Actors'
  <2>1. req[r].pc = "handler" /\ req[r].ep = "session"
    BY <1>2 DEF ReadSession, At
  <2> QED BY <1>2, <1>t, <2>1, AnswerActor, FailActor DEF ReadSession
<1>3. ASSUME NEW r \in Requests, ListSessions(r) \/ ListInfo(r) \/ DevList(r) PROVE Actors'
  BY <1>3, <1>t, ListSessionsActor, ListInfoActor, DevListActor
<1>4. ASSUME NEW r \in Requests, DevRevoke(r) PROVE Actors'
  <2>1. req[r].pc = "dev_revoke" /\ req[r].ep \in {"revoke", "others"}
    BY <1>4 DEF DevRevoke, At
  <2> QED BY <1>4, <1>t, <2>1, AnswerActor, FailActor DEF DevRevoke
<1>5. ASSUME NEW r \in Requests, RefreshMissing(r) PROVE Actors'
  BY <1>5, <1>t, FailActor DEF RefreshMissing, At
<1>6. ASSUME NEW r \in Requests,
             RefreshCall(r) \/ SlideInfo(r) \/ SlideCreate(r) \/ SlideRevoke(r)
      PROVE  Actors'
  BY <1>6, <1>t, RefreshActor, SlideActor
<1>7. ASSUME NEW r \in Requests, LogoffLocal(r) \/ LogoffVerify(r) \/ LogoffRevoke(r)
      PROVE  Actors'
  BY <1>7, <1>t, LogoffActor
<1>8. ASSUME NEW r \in Requests, SignInUser(r) \/ SignInCreate(r) PROVE Actors'
  BY <1>8, <1>t, SignInActor
<1>9. ASSUME NEW r \in Requests, NEW b \in Browsers, NEW ep \in Endpoints, Send(r, b, ep)
      PROVE  Actors'
  BY <1>9, <1>t, SendActor
<1>10. ASSUME NEW r \in Requests, Deliver(r) \/ Drop(r) PROVE Actors'
  BY <1>10, <1>t, IdleActor, ActorStep DEF Deliver, Drop
<1>11. ASSUME NEW r \in Requests, Abandon(r) PROVE Actors'
  <2> DEFINE p == [req[r] EXCEPT !.waited = FALSE]
  <2>1. SameActor(p, req[r]) /\ p.pc = req[r].pc /\ p.out = req[r].out /\ p.fp = req[r].fp
    BY <1>f DEF Request, SameActor
  <2> HIDE DEF p
  <2>2. ActorSound(p, sessions', now')
    BY <1>f, <2>1 DEF ActorSound, SameActor
  <2> QED BY <1>11, <1>t, <2>2, ActorStep DEF Abandon, p
<1>12. CASE Restart
  BY <1>12, IdleActor DEF Restart, Actors
<1>13. CASE Tick \/ UNCHANGED vars
  BY <1>13, <1>f DEF Tick, vars, Actors
<1> QED
  BY <1>1, <1>2, <1>3, <1>4, <1>5, <1>6, <1>7, <1>8, <1>9, <1>10, <1>11, <1>12, <1>13
  DEF Next, Serve, Client

-----------------------------------------------------------------------------
(* The theorems.                                                           *)

\* The invariant of AuthSessions holds in every reachable state.
THEOREM Invariance == Spec => []IInv
<1>1. Init => IInv
  BY InitSound, InitActors, IInvIsParts
<1>2. IInv /\ [Next]_vars => IInv'
  BY NextSound, NextActors, IInvIsParts, IInvIsPartsNext
<1> QED BY <1>1, <1>2, PTL DEF Spec

\* Remote logout is immediate (verify_session with checkDatabase, ctx_resolve): a
\* request sent with a session that is dead by then never acts as it.
THEOREM RemoteLogoutImmediate == Spec => []KickIsImmediate
<1>1. IInv => KickIsImmediate
  BY DEF IInv, DeadStaysOut, KickIsImmediate
<1> QED BY <1>1, Invariance, PTL

\* When a device route answers that it revoked sessions, those sessions are removed.
THEOREM AcknowledgedRevocation == Spec => []AckedRevokeIsFinal
<1>1. IInv => AckedRevokeIsFinal
  BY DEF IInv
<1> QED BY <1>1, Invariance, PTL

\* The devices page (list_sessions) shows every session of the user that is there
\* from the first call to the answer, and nobody else's.
THEOREM DevicesPageComplete == Spec => []DevicesListed
<1>1. IInv => DevicesListed
  BY DEF IInv
<1> QED BY <1>1, Invariance, PTL

\* The sliding window: tokens in a browser were issued with half of the refresh window
\* left, less the fraction of a second by which slide_window_if_needed misjudges it
\* (SLIDING_WINDOW_THRESHOLD_MS against a clock in whole seconds).
THEOREM WindowKept == Spec => []HalfWindowHeld
<1>1. IInv => HalfWindowHeld
  BY DEF IInv, WindowsHeld, HalfWindowHeld
<1> QED BY <1>1, Invariance, PTL

\* slide_window_if_needed keeps a session's user, and its fingerprint unless the
\* old session died under it.
THEOREM SlideKeepsIdentity == Spec => []FingerprintCarried
<1>1. IInv => FingerprintCarried
  BY DEF IInv
<1> QED BY <1>1, Invariance, PTL

\* Only the handlers' revocations remove a session, and each only what it may.
LEMMA RemovalIsOwn ==
  ASSUME Parts, [Next]_vars, NEW h \in Handles,
         sessions[h].st = "live", sessions'[h].st = "removed"
  PROVE  \E r \in Requests : EndsOwnSession(req[r], h)
<1>t. /\ sessions \in [Handles -> Session]
      /\ \A r \in Requests : req[r] \in Request /\ RequestSound(req[r], sessions, now)
  BY DEF Parts, TypeOK
<1>1. ASSUME NEW r \in Requests, Revoke(req[r]) \/ RevokeFails(req[r]),
             req[r].pc \in {"dev_revoke", "drop_old", "lo_revoke"}
      PROVE  EndsOwnSession(req[r], h)
  <2>1. h \in req[r].hs
    BY <1>1, <1>t DEF Revoke, RevokeFails, Removed
  <2> QED BY <1>1, <1>t, <2>1 DEF RequestSound, EndsOwnSession
<1>2. ASSUME NEW t \in Token \cup {NoToken}
      PROVE  sessions' # Verified(t)
  BY <1>t, NoTokenFacts DEF Verified, Session
<1>3. ASSUME NEW t \in Token
      PROVE  sessions' # Refreshed(t)
  BY <1>t DEF Refreshed, Session
<1>4. ASSUME NEW g \in Fresh, NEW u, NEW d
      PROVE  sessions' # Created(g, u, d)
  BY <1>t DEF Created, Fresh
<1>5. sessions' # sessions
  OBVIOUS
<1>6. ASSUME NEW r \in Requests, MwVerify(r) \/ LogoffVerify(r)
      PROVE  FALSE
  BY <1>2, <1>5, <1>6, <1>t, CookieTyped DEF MwVerify, LogoffVerify, CallFails
<1>7. ASSUME NEW r \in Requests, RefreshCall(r)
      PROVE  FALSE
  BY <1>3, <1>5, <1>7, <1>t, CookieTyped DEF RefreshCall, CallFails
<1>8. ASSUME NEW r \in Requests, SlideCreate(r) \/ SignInCreate(r)
      PROVE  FALSE
  BY <1>4, <1>5, <1>8 DEF SlideCreate, SignInCreate, CallFails
<1>9. ASSUME NEW r \in Requests, DevRevoke(r) \/ SlideRevoke(r) \/ LogoffRevoke(r)
      PROVE  EndsOwnSession(req[r], h)
  BY <1>1, <1>9 DEF DevRevoke, SlideRevoke, LogoffRevoke, At
<1>10. ASSUME NEW r \in Requests,
              \/ MwLookup(r) \/ ReadSession(r) \/ ListSessions(r) \/ ListInfo(r)
              \/ DevList(r) \/ RefreshMissing(r)
              \/ SlideInfo(r) \/ LogoffLocal(r) \/ SignInUser(r)
       PROVE  FALSE
  BY <1>5, <1>10 DEF MwLookup, ReadSession, ListSessions, ListInfo, DevList,
                     RefreshMissing, SlideInfo, LogoffLocal, SignInUser
<1>11. ASSUME NEW r \in Requests, Client(r)
       PROVE  FALSE
  BY <1>5, <1>11 DEF Client, Send, Deliver, Abandon, Drop
<1>12. ~(Restart \/ Tick \/ UNCHANGED vars)
  BY <1>5 DEF Restart, Tick, vars
<1> QED
  BY <1>6, <1>7, <1>8, <1>9, <1>10, <1>11, <1>12 DEF Next, Serve

\* A session is removed only on behalf of its own user, and revoke-others never
\* removes the session that asked for it.
THEOREM RevocationIsOwn == Spec => RevokesOwnOnly
<1>1. IInv /\ [Next]_vars =>
        [\A h \in Handles :
           sessions[h].st = "live" /\ sessions'[h].st = "removed" =>
             \E r \in Requests : EndsOwnSession(req[r], h)]_vars
  BY RemovalIsOwn, IInvIsParts
<1> QED BY <1>1, Invariance, PTL DEF Spec, RevokesOwnOnly

=============================================================================
