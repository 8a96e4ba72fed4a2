SPECIFICATION Spec
CONSTANTS
  Idle = Idle
  None = None
  Cpus = {0, 1}
  Threads = {t1, t2}
  Booted = {t1}
  Reuse = FALSE
  Crossing = FALSE
  Refusing = {}
INVARIANTS OneRunner QueuedOnce NoSleep StopReaches
