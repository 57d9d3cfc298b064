\* Two processes with one device each, three threads, two crashes.
CONSTANTS
  p1 = p1
  p2 = p2
  c1 = c1
  c2 = c2
  t1 = t1
  t2 = t2
  t3 = t3
  Processes = {p1, p2}
  Caches = {c1, c2}
  Threads = {t1, t2, t3}
  ProcessOf <- OnePerProcess
  CacheOf <- MCCacheOf
  sa = sa
  sb = sb
  Shaders = {sa, sb}
  MaxInode = 4
  MaxCrashes = 2
SYMMETRY Symmetry
SPECIFICATION Spec
INVARIANTS NeverHalfAFile NothingLeftUnsaved
PROPERTY NewerSnapshotsWin
