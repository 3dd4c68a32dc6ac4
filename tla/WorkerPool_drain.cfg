\* Close is documented to let the workers drain the queue.
SPECIFICATION Spec
CONSTANTS
  Workers = {w1, w2}
  TryCallers = {t1}
  CtxCallers = {c1}
  Closers = {k1}
  Jobs = {j1, j2, j3}
  QueueSize = 1
  None = None
SYMMETRY Symmetry
INVARIANT DrainedAtExit
