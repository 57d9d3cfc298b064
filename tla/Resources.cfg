\* Two threads, two plain items, a staging and a readback buffer.
CONSTANTS
  t1 = t1
  t2 = t2
  p1 = p1
  p2 = p2
  s1 = s1
  r1 = r1
  plain = plain
  staging = staging
  readback = readback
  Threads = {t1, t2}
  Items = {p1, p2, s1, r1}
  KeyOf <- MCKeyOf
  SizeOf <- MCSizeOf
  Budgets = {0, 2}
  MaxEntries = 2
  Needs = {}
  Staging = {staging}
  Readback = {readback}
  Plans <- MCPlans
  Limits <- MCLimits
SYMMETRY Symmetry
SPECIFICATION MCSpec
INVARIANTS LedgerBalances IdleIsReusable OnePlace
PROPERTIES GrowsWithinLimit RefusedOnlyWhenFull
