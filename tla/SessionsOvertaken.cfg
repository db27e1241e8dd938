\* No failures and no time passes: one slow request among two tabs.
CONSTANTS
  Tabs = {t1, t2}
  Grace = 1
  Idle = 2
  Absolute = 3
  Failures = {}
  MaxTime = 0
  MaxJti = 4
  MaxLogins = 1
SPECIFICATION Spec
SYMMETRY Symmetry
INVARIANTS HonestBrowserKept
