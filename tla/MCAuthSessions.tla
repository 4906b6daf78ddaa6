-------------------------- MODULE MCAuthSessions --------------------------
(***************************************************************************)
(* Small instances of AuthSessions for TLC.                                *)
(***************************************************************************)
EXTENDS AuthSessions, TLC

\* The members of each set are interchangeable; a browser and the fingerprint it
\* shows are one value.  (Not used with liveness.)
Symmetry ==
  UNION {Permutations(S) : S \in {Handles, Requests, Browsers, Users}}

=============================================================================
