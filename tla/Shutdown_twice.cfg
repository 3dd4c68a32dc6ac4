\* Two Shutdown calls at once, and nobody submits.
SPECIFICATION Spec
CONSTANTS
  Workers = {w1}
  Submitters = {}
  Stoppers = {m1, m2}
  Jobs = {j1}
  QueueSize = 1
  None = None
INVARIANT NoPanic
