\* Two threads in enter, two in enter_until (one of them may give up), two permits.
CONSTANTS
  b1 = b1
  b2 = b2
  p1 = p1
  p2 = p2
  Blockers = {b1, b2}
  Pollers = {p1, p2}
  Cancellers = {p2}
  Permits = 2
SPECIFICATION FairSpec
INVARIANTS PermitsConserved NoStrandedPermit
PROPERTY ReleasedUnlessCancelled
