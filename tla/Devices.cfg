\* Two threads, each of the adapters, one panic.
SPECIFICATION Spec
CONSTANTS
  t1 = t1
  t2 = t2
  Threads = {t1, t2}
  Machines <- MCMachines
  MaxPanics = 1
INVARIANTS QueuesAreOwn OneNegotiation
PROPERTY CallsEnd
