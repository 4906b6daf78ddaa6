SPECIFICATION FairSpec
CONSTANTS
  None = None
  i1 = i1
  i2 = i2
  d1 = d1
  d2 = d2
  Users = {u1, u2}
  Shows <- MCShows
  Requests = {r1}
  Faults = {}
INVARIANT SerialInv
INVARIANT SigninWorks
INVARIANT BlockedIsUnlikeLast
INVARIANT BaselineIsLastLogin
PROPERTY PolicyImplemented
PROPERTY AccountHeals
