\* OrDone's example claims that cancelling the consumer releases the producer.
SPECIFICATION Spec
CONSTANTS
  Examples = {"ordone"}
  Items = 3
  ChunkChannel <- ChunkNames
  FanWorkers = {"w1"}
  TimerChannel <- TimerNames
  OrChannel <- OrNames
PROPERTY ProducerNotLeaked
