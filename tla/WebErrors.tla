----------------------------- MODULE WebErrors -----------------------------
(***************************************************************************)
(* What a client is told of a failure.  A route returns a lib_web::Error,  *)
(* which travels beside an empty answer until mw_reponse_map replaces that *)
(* answer by a client error and its HTTP status; cookies are set outside   *)
(* of the map, so they do not depend on it.                                *)
(***************************************************************************)

\* The variants the routes return.  Of the model's errors EntityNotFound is told
\* apart; CtxExt stands for every reason the resolver has for not giving a Ctx.
Errors ==
  {"SignupEmailExists", "SigninFail", "LoginBlockedRisk", "ValidationFail",
   "RefreshTokenMissing", "RefreshFail", "SessionTokenTheftDetected", "CtxExt",
   "SessionNotOwned", "EntityNotFound", "Model", "SuperTokens", "Risk"}

\* Client errors by status: 401, any other 4xx, and 500.
Unauthorized == {"NO_AUTH", "SESSION_REVOKED"}

Refusals ==
  {"EMAIL_ALREADY_EXISTS", "LOGIN_FAIL", "LOGIN_BLOCKED_RISK",
   "SESSION_NOT_OWNED", "VALIDATION_FAIL", "ENTITY_NOT_FOUND"}

ClientErrors == Unauthorized \cup Refusals \cup {"SERVICE_ERROR"}

\* From<supertokens::Error>: a refusal by the core is told apart from a call that
\* failed, for whatever reason.
FromCore(e) ==
  CASE e = "EmailAlreadyExists" -> "SignupEmailExists"
    [] e = "WrongCredentials"   -> "SigninFail"
    [] OTHER                    -> "SuperTokens"

\* client_status_and_error
ClientErrorOfCore(e) ==                      \* a core that fails is not authorising
  CASE e = "SessionTokenTheftDetected"                -> "SESSION_REVOKED"
    [] e \in {"RefreshTokenMissing", "RefreshFail", "CtxExt", "SuperTokens"} -> "NO_AUTH"
    [] OTHER                                          -> "SERVICE_ERROR"

ClientErrorOfModel(e) ==                     \* the row exists, so the email does
  CASE e \in {"SignupEmailExists", "Model"} -> "EMAIL_ALREADY_EXISTS"
    [] e = "SigninFail"                     -> "LOGIN_FAIL"
    [] e = "LoginBlockedRisk"               -> "LOGIN_BLOCKED_RISK"
    [] e = "ValidationFail"                 -> "VALIDATION_FAIL"
    [] OTHER                                -> "SERVICE_ERROR"

ClientError(e) ==
  CASE e = "SignupEmailExists"         -> "EMAIL_ALREADY_EXISTS"
    [] e = "SigninFail"                -> "LOGIN_FAIL"
    [] e = "LoginBlockedRisk"          -> "LOGIN_BLOCKED_RISK"
    [] e = "ValidationFail"            -> "VALIDATION_FAIL"
    [] e = "SessionTokenTheftDetected" -> "SESSION_REVOKED"
    [] e \in {"RefreshTokenMissing", "RefreshFail", "CtxExt"} -> "NO_AUTH"
    [] e = "SessionNotOwned"           -> "SESSION_NOT_OWNED"
    [] e = "EntityNotFound"            -> "ENTITY_NOT_FOUND"
    [] OTHER                           -> "SERVICE_ERROR"

=============================================================================
