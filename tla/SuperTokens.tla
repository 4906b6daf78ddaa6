---------------------------- MODULE SuperTokens ----------------------------
(***************************************************************************)
(* The SuperTokens core, the external service that owns every session, as  *)
(* lib_auth::supertokens drives it over HTTP.  The core itself is not part *)
(* of the repository: a session's life cycle here is what the client code, *)
(* its comments and docker-compose.dev.yml say of it.  What the repository *)
(* does decide, and what is translated here, is how each call is made (the *)
(* flags it passes) and how each status is told apart.                     *)
(*                                                                         *)
(* A session has one deadline, fixed when it is created: a refresh rotates *)
(* the tokens without moving it.  Refresh tokens form a line: `conf' is    *)
(* the number of the newest token the core knows the client has received, *)
(* because it or the access token issued with it came back.  A refresh     *)
(* with the confirmed token, or with a child of it, is accepted; with any  *)
(* older one it is reported as theft.                                      *)
(***************************************************************************)
EXTENDS Naturals

CONSTANTS
  Users,             \* core user ids (st_user_id)
  Fingerprints,      \* values of userDataInDatabase other than null
  Handles,           \* session handles the core may hand out
  None,              \* "no such thing": null, Option::None
  AccessValidity,    \* lifetime of an access token, in ticks
  RefreshValidity    \* lifetime of a session and of its refresh tokens

ASSUME CoreAssumption ==
  /\ None \notin Users \cup Fingerprints \cup Handles
  /\ AccessValidity \in Nat \ {0}
  /\ RefreshValidity \in Nat
  /\ AccessValidity < RefreshValidity

VARIABLES
  now,        \* the clock the core and the web server share
  sessions    \* the core's session table

-----------------------------------------------------------------------------
Session ==
  [st : {"unused", "live", "removed"}, user : Users \cup {None},
   fp : Fingerprints \cup {None}, exp : Nat, conf : Nat, last : Nat]

Unused ==
  [st |-> "unused", user |-> None, fp |-> None, exp |-> 0, conf |-> 0, last |-> 0]

\* SessionTokens: the access and the refresh token of one issue.  n numbers the
\* issues of a session, p is the number of the refresh token it was issued for
\* (0 for the tokens a session starts with), aexp the access token's expiry.
\* The refresh token expires with its session.
Token == [h : Handles, n : Nat, p : Nat, aexp : Nat]

NoToken == [h |-> None, n |-> 0, p |-> 0, aexp |-> 0]

Alive(h) == sessions[h].st = "live" /\ now < sessions[h].exp

Fresh == {h \in Handles : sessions[h].st = "unused"}

-----------------------------------------------------------------------------
\* POST /recipe/session
Created(h, u, data) ==
  [sessions EXCEPT ![h] =
     [st |-> "live", user |-> u, fp |-> data,
      exp |-> now + RefreshValidity, conf |-> 1, last |-> 1]]

\* The answer's session object was not read.
FirstTokensUnnamed(h) == [h |-> None, n |-> 1, p |-> 0, aexp |-> now + AccessValidity]

FirstTokens(h) == [h |-> h, n |-> 1, p |-> 0, aexp |-> now + AccessValidity]

\* POST /recipe/session/verify.  checkDatabase is TRUE, so a removed session is
\* noticed at once; an expired token is told apart before the session is read.
VerifyStatusUnchecked(t) ==
  IF now >= t.aexp THEN "TRY_REFRESH_TOKEN" ELSE "OK"

VerifyStatus(t) ==
  IF now >= t.aexp THEN "TRY_REFRESH_TOKEN"
  ELSE IF Alive(t.h) THEN "OK" ELSE "UNAUTHORISED"

\* A valid access token proves that its issue reached the client.
Verified(t) ==
  IF VerifyStatus(t) = "OK"
  THEN [sessions EXCEPT ![t.h].conf = IF @ = t.p THEN t.n ELSE @]
  ELSE sessions

\* POST /recipe/session/refresh
RefreshStatus(t) ==
  IF ~Alive(t.h) THEN "UNAUTHORISED"
  ELSE IF sessions[t.h].conf \in {t.n, t.p} THEN "OK" ELSE "TOKEN_THEFT_DETECTED"

Refreshed(t) ==
  IF RefreshStatus(t) = "OK"
  THEN [sessions EXCEPT ![t.h].conf = t.n, ![t.h].last = @ + 1]
  ELSE sessions

NextTokens(t) ==
  [h |-> t.h, n |-> sessions[t.h].last + 1, p |-> t.n, aexp |-> now + AccessValidity]

\* POST /recipe/session/remove.  Handles that are gone already are ignored.
Removed(hs) ==
  [h \in Handles |-> IF h \in hs /\ sessions[h].st = "live"
                     THEN [sessions[h] EXCEPT !.st = "removed"]
                     ELSE sessions[h]]

\* GET /recipe/session/user
HandlesOf(u) == {h \in Handles : Alive(h) /\ sessions[h].user = u}

\* GET /recipe/session: Ok(None), and so a null fingerprint, for a dead session.
InfoDataNull(h) == None                      \* userDataInDatabase is not asked for

InfoData(h) == IF Alive(h) THEN sessions[h].fp ELSE None

=============================================================================
