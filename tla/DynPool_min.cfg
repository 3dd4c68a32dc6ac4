\* minWorkers is documented as the number of workers kept alive.
SPECIFICATION Spec
CONSTANTS
  Slots = {w1, w2, w3}
  MinWorkers = 1
  MaxWorkers = 2
  TryCallers = {}
  CtxCallers = {c1, c2}
  Closers = {k1}
  Jobs = {j1, j2, j3, j4}
  QueueSize = 1
  None = None
SYMMETRY Symmetry
INVARIANT MinWorkersAlive
