\* Submissions through TrySubmit only: the pool keeps every promise.
\* No symmetry, since some of the properties are temporal.
SPECIFICATION FairSpec
CONSTANTS
  Slots = {w1, w2, w3}
  MinWorkers = 1
  MaxWorkers = 2
  TryCallers = {t1}
  CtxCallers = {}
  Closers = {k1}
  Jobs = {j1, j2, j3}
  QueueSize = 1
  None = None
INVARIANTS MinWorkersAlive StoppedAfterWait
PROPERTIES ImplementsExecutor CloseWaitReturns BacklogServed
