\* One thread in enter beside one in enter_until that may give up, one permit.
CONSTANTS
  b1 = b1
  b2 = b2
  p1 = p1
  p2 = p2
  Blockers = {b1, b2}
  Pollers = {p1, p2}
  Cancellers = {p2}
  Permits = 1
SPECIFICATION FairSpec
PROPERTY BlockedIsReleased
