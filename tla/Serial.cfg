SPECIFICATION Spec
CONSTANTS
  None = None
  Users = {u1}
  Browsers = {b1}
  Fingerprints = {b1}
  Handles = {h1, h2, h3}
  Requests = {r1}
  Endpoints = {"session", "refresh", "signin", "logoff"}
  Faults = {"call"}
  Tabs = 1
  AccessValidity = 2
  RefreshValidity = 4
  Threshold = 2
  Second = 2
  MaxTime = 4
  MaxTokens = 2
SYMMETRY Symmetry
INVARIANT TypeOK
INVARIANT RefreshCookieAccepted
INVARIANT HalfWindowHeld
INVARIANT SlideHandsOver
INVARIANT FingerprintCarried
INVARIANT RefusedRefreshIsFinal
PROPERTY OnlyDeadCookiesDropped
PROPERTY ServiceImplemented
