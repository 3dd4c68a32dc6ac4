\* A goroutine that submits while another one shuts down.
SPECIFICATION Spec
CONSTANTS
  Workers = {w1}
  Submitters = {s1}
  Stoppers = {m}
  Jobs = {j1, j2}
  QueueSize = 1
  None = None
INVARIANT NoPanic
