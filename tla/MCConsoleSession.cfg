SPECIFICATION Spec
CONSTANTS
  Browsers = {"b1", "b2"}
  Tabs <- OneTabAndTwo
  Slots = {r1, r2}
  SESSION_MAX_AGE = 0
  MaxSessions = 3
  MaxClock = 1
SYMMETRY SlotSymmetry
INVARIANTS
  TypeOK
  OperatedWhileLoggedIn
  OneBrowserPerLogin
  CookieOutlivesLogin
CHECK_DEADLOCK FALSE
