\* Two workers, a caller of each kind, a Close that races another Close, a buffer of one.
\* No symmetry, since some of the properties are temporal.
SPECIFICATION FairSpec
CONSTANTS
  Workers = {w1, w2}
  TryCallers = {t1}
  CtxCallers = {c1}
  Closers = {k1, k2}
  Jobs = {j1, j2, j3, j4}
  QueueSize = 1
  None = None
INVARIANTS NoChannelPanic FifoConservation
PROPERTIES ImplementsExecutor CallsReturn BacklogServed
