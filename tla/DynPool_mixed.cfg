\* Both kinds of submission race each other, the reapers and Close.
SPECIFICATION Spec
CONSTANTS
  Slots = {w1, w2, w3}
  MinWorkers = 1
  MaxWorkers = 2
  TryCallers = {t1}
  CtxCallers = {c1}
  Closers = {k1}
  Jobs = {j1, j2, j3, j4}
  QueueSize = 1
  None = None
SYMMETRY Symmetry
INVARIANTS NoChannelPanic CounterExact HardCap
