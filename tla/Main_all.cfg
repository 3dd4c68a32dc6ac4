\* Every example of flows/, ratelimit, heartbeat, contextio_net, cond and errgroupx.
SPECIFICATION MainSpec
CONSTANTS
  Callers = {c1, c2}
  Burst = 2
  Cost = 4
  Rate = 3
  MaxDeadline = 2
  MaxCalls = 2
  Examples = {"pipeline", "ordone", "tee", "fanoutin", "generator", "selectloop", "bridge", "or"}
  Items = 3
  ChunkChannel <- ChunkNames
  FanWorkers = {"w1", "w2", "w3"}
  TimerChannel <- TimerNames
  OrChannel <- OrNames
  Units = 3
  MaxCtx = 2
  MaxOps = 2
  Room = 1
  Poppers = {"p1", "p2"}
  PerPopper = 2
  Listeners = {"l1", "l2", "l3"}
  Tasks = 4
  Failing = {2, 3}
  Limit = 2
INVARIANTS RateExact WaitPredicted ChannelsSafe Delivery Complete TeeInStep NoFalseAlarm TimeoutCulprit
PROPERTIES WaitReturns CancelEnds OrCollapses OperationsReturn ItemsPopped MainReturns
