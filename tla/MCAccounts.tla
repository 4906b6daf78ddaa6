----------------------------- MODULE MCAccounts -----------------------------
(***************************************************************************)
(* Small instances of Accounts for TLC.                                    *)
(***************************************************************************)
EXTENDS Accounts, TLC

CONSTANTS i1, i2, d1, d2

\* Two ips and two devices, each also unknown.
MCShows == [ip : {i1, i2, None}, dev : {d1, d2, None}]

\* Requests and users are interchangeable, and so are ips and devices.
MCSymmetry ==
  UNION {Permutations(S) : S \in {Requests, Users, {i1, i2}, {d1, d2}}}

=============================================================================
