\* SubmitWithContext scales up after it has released the lock.
SPECIFICATION Spec
CONSTANTS
  Slots = {w1, w2, w3}
  MinWorkers = 1
  MaxWorkers = 2
  TryCallers = {}
  CtxCallers = {c1}
  Closers = {k1}
  Jobs = {j1, j2, j3}
  QueueSize = 1
  None = None
SYMMETRY Symmetry
INVARIANT StoppedAfterWait
