SPECIFICATION Spec
CONSTANTS
  None = None
  Users = {u1}
  Browsers = {b1}
  Fingerprints = {b1}
  Handles = {h1}
  Requests = {r1}
  Endpoints = {"signin", "logoff"}
  Faults = {"call"}
  Tabs = 1
  AccessValidity = 1
  RefreshValidity = 4
  Threshold = 2
  Second = 1
  MaxTime = 1
  MaxTokens = 1
INVARIANT LogoffFailureHarmless
