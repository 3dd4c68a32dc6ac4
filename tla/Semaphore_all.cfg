\* More users than tokens, contexts that may end at any moment, and a Close.
SPECIFICATION FairSpec
CONSTANTS
  Users = {u1, u2, u3, u4}
  Capacity = 2
INVARIANTS CapacityRespected TokensExact WaitersExact
PROPERTY AcquireReturns
