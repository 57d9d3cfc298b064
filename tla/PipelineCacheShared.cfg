\* One process with two devices of one adapter, one thread each, no crash.
CONSTANTS
  p1 = p1
  p2 = p2
  c1 = c1
  c2 = c2
  t1 = t1
  t2 = t2
  t3 = t3
  Processes = {p1}
  Caches = {c1, c2}
  Threads = {t1, t3}
  ProcessOf <- BothInOne
  CacheOf <- MCCacheOf
  sa = sa
  sb = sb
  Shaders = {sa, sb}
  MaxInode = 4
  MaxCrashes = 0
SPECIFICATION Spec
INVARIANT NeverHalfAFile
