\* Two threads, thirteen machines of every system, two changes of the machine.
SPECIFICATION FairSpec
CONSTANTS
  t1 = t1
  t2 = t2
  s1 = s1
  s2 = s2
  Threads = {t1, t2}
  Machines <- MCMachines
  MaxChanges = 2
  Every = 2
  MaxPanics = 1
  Slots = {s1, s2}
  MaxFaults = 1
INVARIANTS UsageIsOwn SensorsAreOwn PlanFits FreshForItsCard SharedIsExact
PROPERTY AnswersOnceHealthy
