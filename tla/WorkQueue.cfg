\* Native: two jobs, one foreign submission, every fault.
CONSTANTS
  j1 = j1
  j2 = j2
  Jobs = {j1, j2}
  Capacity = 2
  MaxForeign = 1
  Faults = {"panic", "reject", "drop", "fence", "poll", "pollpanic", "loss"}
  Calls = {"submit", "collect", "slots", "drop"}
  Browser = FALSE
SYMMETRY Symmetry
SPECIFICATION Spec
INVARIANTS SettledHasRetired SuccessIsReal PoisonedWhileInDoubt
PROPERTIES NoSubmitInDoubt FatalPollIsLatched KeepsContract
