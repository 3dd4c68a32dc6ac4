\* One call without a deadline, then another one with a context of its own.
SPECIFICATION Spec
CONSTANTS
  MaxCtx = 2
  MaxOps = 2
  Room = 1
INVARIANT TimeoutsOwn
