---------------------------- MODULE LoginPolicy ----------------------------
(***************************************************************************)
(* What the login-risk check promises, as 01-create-schema.sql and         *)
(* login-risk.json put it: a signin is compared with the user's last       *)
(* successful login, and one where the ip and the device have both changed *)
(* does not get in.  An ip or a device that one of the two does not show   *)
(* is unknown, which is not changed, and leaves what was known before.     *)
(***************************************************************************)
CONSTANTS
  Users,      \* core user ids
  Shows,      \* what a login may show: an ip and a visitor id, each or neither
  None

VARIABLE last   \* the last successful login of each user

Nothing == [ip |-> None, dev |-> None]

\* Known on both sides, and not the same.
Changed(old, new) == old # None /\ new # None /\ old # new

Unlike(x, a) == Changed(x.ip, a.ip) /\ Changed(x.dev, a.dev)

Merged(x, a) ==
  [ip |-> IF a.ip # None THEN a.ip ELSE x.ip,
   dev |-> IF a.dev # None THEN a.dev ELSE x.dev]

Init == last = [u \in Users |-> Nothing]

Login(u, a) ==
  /\ ~Unlike(last[u], a)
  /\ last' = [last EXCEPT ![u] = Merged(@, a)]

Next == \E u \in Users, a \in Shows : Login(u, a)

Spec == Init /\ [][Next]_last

=============================================================================
