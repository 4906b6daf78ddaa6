--------------------------- MODULE SessionService ---------------------------
(***************************************************************************)
(* What Farklin promises about sessions, whatever fails and however its    *)
(* requests interleave: a session is opened by a signin, or in place of    *)
(* another one, whose user and data it takes over; it ends when its time   *)
(* is over, or is ended by a request of the same user; nothing else about  *)
(* it ever changes.  A request acts as a session only if that session was  *)
(* alive when the request was admitted.                                    *)
(*                                                                         *)
(* It is not promised that a session that was ended is never replaced: a   *)
(* request that was admitted before may still do so.                       *)
(***************************************************************************)
EXTENDS Naturals

CONSTANTS
  Users,
  Data,       \* what a session may store: the fingerprint of its signin
  Handles,    \* session handles
  Requests,
  Validity,   \* how long a session lasts
  None

VARIABLES
  now,
  login,      \* the sessions
  acting      \* the session each request acts as

vars == <<now, login, acting>>

Login ==
  [st : {"unused", "live", "removed"}, user : Users \cup {None},
   data : Data \cup {None}, until : Nat]

Unused == [st |-> "unused", user |-> None, data |-> None, until |-> 0]

Lasts(h) == login[h].st = "live" /\ now < login[h].until

Opened(h, u, d) ==
  [login EXCEPT ![h] = [st |-> "live", user |-> u, data |-> d, until |-> now + Validity]]

Ended(S) ==
  [h \in Handles |-> IF h \in S /\ login[h].st = "live"
                     THEN [login[h] EXCEPT !.st = "removed"]
                     ELSE login[h]]

\* A request goes on as the session it acts as, or stops to act.
GoesOn(r) == acting' \in {acting, [acting EXCEPT ![r] = None]}

-----------------------------------------------------------------------------
\* A request shows a session that is alive.
Admit(r, h) ==
  /\ Lasts(h)
  /\ acting' = [acting EXCEPT ![r] = h]
  /\ UNCHANGED <<now, login>>

Leave(R) ==
  /\ acting' = [r \in Requests |-> IF r \in R THEN None ELSE acting[r]]
  /\ UNCHANGED <<now, login>>

SignIn(h, u, d) ==
  /\ login[h].st = "unused"
  /\ login' = Opened(h, u, d)
  /\ UNCHANGED <<now, acting>>

\* The data is read from the session that is replaced, while it is there.
Replace(r, h, d) ==
  LET old == acting[r] IN
  /\ old # None
  /\ login[h].st = "unused"
  /\ d = login[old].data \/ (d = None /\ ~Lasts(old))
  /\ login' = Opened(h, login[old].user, d)
  /\ GoesOn(r)
  /\ UNCHANGED now

\* A request ends the session it acts as, or others of the same user.
End(r, S) ==
  LET self == acting[r] IN
  /\ self # None
  /\ \A h \in S : login[h].user = login[self].user
  /\ S = {self} \/ self \notin S
  /\ login' = Ended(S)
  /\ GoesOn(r)
  /\ UNCHANGED now

Tick ==
  /\ now' = now + 1
  /\ UNCHANGED <<login, acting>>

Init ==
  /\ now = 0
  /\ login = [h \in Handles |-> Unused]
  /\ acting = [r \in Requests |-> None]

Next ==
  \/ \E r \in Requests :
       \/ \E h \in Handles : Admit(r, h)
       \/ \E h \in Handles, d \in Data \cup {None} : Replace(r, h, d)
       \/ \E S \in SUBSET Handles : End(r, S)
  \/ \E h \in Handles, u \in Users, d \in Data : SignIn(h, u, d)
  \/ \E R \in SUBSET Requests : Leave(R)
  \/ Tick

Spec == Init /\ [][Next]_vars

=============================================================================
