\* Two threads, four items of three keys (1, 1, 2 and 3 bytes), at most two entries.
CONSTANTS
  t1 = t1
  t2 = t2
  a1 = a1
  a2 = a2
  b1 = b1
  c1 = c1
  ka = ka
  kb = kb
  kc = kc
  Threads = {t1, t2}
  Items = {a1, a2, b1, c1}
  KeyOf <- MCKeyOf
  SizeOf <- MCSizeOf
  Budgets = {0, 2, 3}
  MaxEntries = 2
  Needs = {2}
SPECIFICATION MCSpec
INVARIANTS WithinLimits OneOwner
PROPERTIES CallsEnd UndisturbedIsLru
