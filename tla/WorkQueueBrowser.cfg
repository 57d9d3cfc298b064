\* Browser: three jobs in flight, scopes that settle between calls, callbacks dropped.
CONSTANTS
  j1 = j1
  j2 = j2
  j3 = j3
  Jobs = {j1, j2, j3}
  Capacity = 3
  MaxForeign = 0
  Faults = {"reject", "drop"}
  Calls = {"submit", "collect"}
  Browser = TRUE
SYMMETRY Symmetry
SPECIFICATION Spec
INVARIANT PendingIsFifo
PROPERTY KeepsContract
