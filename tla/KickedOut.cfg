SPECIFICATION Spec
CONSTANTS
  None = None
  Users = {u1}
  Browsers = {b1, b2}
  Fingerprints = {b1, b2}
  Handles = {h1, h2, h3}
  Requests = {r1, r2}
  Endpoints = {"signin", "refresh", "others"}
  Faults = {}
  Tabs = 1
  AccessValidity = 1
  RefreshValidity = 4
  Threshold = 2
  Second = 1
  MaxTime = 4
  MaxTokens = 1
SYMMETRY Symmetry
INVARIANT KickedOutStaysOut
