SPECIFICATION Spec
CONSTANTS
  None = None
  Users = {u1}
  Browsers = {b1}
  Fingerprints = {b1}
  Handles = {h1, h2}
  Requests = {r1, r2}
  Endpoints = {"signin", "logoff", "session"}
  Faults = {}
  Tabs = 2
  AccessValidity = 1
  RefreshValidity = 4
  Threshold = 2
  Second = 1
  MaxTime = 3
  MaxTokens = 1
SYMMETRY Symmetry
PROPERTY OnlyDeadCookiesDropped
