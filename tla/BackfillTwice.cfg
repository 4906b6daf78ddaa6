SPECIFICATION Spec
CONSTANTS
  None = None
  i1 = i1
  i2 = i2
  d1 = d1
  d2 = d2
  Users = {u1}
  Shows <- MCShows
  Requests = {r1, r2}
  Faults = {}
SYMMETRY MCSymmetry
INVARIANT SigninWorks
