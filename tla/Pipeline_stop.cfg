\* Two sources into queues of one item; a stop by the caller and one by run().
CONSTANTS
  Sources <- MCSources
  Capacity = 1
SPECIFICATION FairSpec
INVARIANTS TypeOK OrderlyStop
PROPERTIES KeepsPromise StopEnds
CHECK_DEADLOCK FALSE
