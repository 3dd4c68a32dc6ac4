\* Acquire is documented to return when the semaphore is closed.
SPECIFICATION FairSpec
CONSTANTS
  Users = {u1, u2}
  Capacity = 1
PROPERTY AcquireEndsOnClose
