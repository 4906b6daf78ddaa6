SPECIFICATION Spec
CONSTANTS
  None = None
  Users = {u1}
  Browsers = {b1}
  Fingerprints = {b1}
  Handles = {h1, h2}
  Requests = {r1, r2}
  Endpoints = {"refresh", "signin", "logoff", "list"}
  Faults = {"abandon"}
  Tabs = 1
  AccessValidity = 1
  RefreshValidity = 4
  Threshold = 3
  Second = 1
  MaxTime = 2
  MaxTokens = 2
SYMMETRY Symmetry
INVARIANT LineInv
INVARIANT RefreshCookieAccepted
INVARIANT LogoffEndsSession
INVARIANT RefusedRefreshIsFinal
INVARIANT DevicesListed
PROPERTY OnlyDeadCookiesDropped
