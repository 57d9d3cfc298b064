\* Native: two jobs for one place, no foreign submission; the host keeps collecting.
CONSTANTS
  j1 = j1
  j2 = j2
  Jobs = {j1, j2}
  Capacity = 1
  MaxForeign = 0
  Faults = {"panic", "reject", "drop", "fence", "loss"}
  Calls = {"submit", "collect", "shutdown", "drop"}
  Browser = FALSE
SPECIFICATION FairSpec
INVARIANT QueueTypeOK
PROPERTIES EverySubmissionSettles TeardownEnds
