\* every interleaving of the two tasks and the host
SPECIFICATION Spec
CONSTANTS
  Catalog <- SmallCatalog
  Reply <- TwoPackets
  Inbound <- SomeInbound
  QueueDepth = 2
  FifoWords = 4
  HeartbeatTicks = 2
  MaxPasses = 2
  MaxInbound = 2
  MaxUnplugs = 1
INVARIANTS TypeOK InOrderOnce RunsUninterrupted
PROPERTIES EveryMessageArrives EveryPacketIsRead
\* The bounds on passes and inbound messages stop the model.
CHECK_DEADLOCK FALSE
