\* Submissions race two Shutdown calls; what is done before a panic is right.
SPECIFICATION Spec
CONSTANTS
  Workers = {w1, w2}
  Submitters = {s1}
  Stoppers = {m1, m2}
  Jobs = {j1, j2, j3}
  QueueSize = 1
  None = None
INVARIANT DrainedMeansProcessed
PROPERTIES ImplementsExecutor DrainsByItself ShutdownReturns
