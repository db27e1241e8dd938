\* Two tabs, responses lost or late, database calls that throw.
CONSTANTS
  Tabs = {t1, t2}
  Grace = 1
  Idle = 2
  Absolute = 3
  Failures = {"lost", "dbFails"}
  MaxTime = 3
  MaxJti = 4
  MaxLogins = 2
SPECIFICATION Spec
SYMMETRY Symmetry
INVARIANTS TypeOK OneRotationWins NothingGrantedAfterEnd OldTokenEndsSession
  AbsoluteCap
PROPERTIES CookieKept
