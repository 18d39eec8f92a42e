\* every order of SysEx7, SysEx8 and other packets, and of mask changes
SPECIFICATION Spec
CONSTANTS
  Packets <- MixedPackets
  Groups <- Groups01
  Masks <- AllMasks
  Buffers <- Both
  Callbacks <- AllCalls
  BufSize <- Size3
  MaxData <- Data2
  MaxFed = 4
INVARIANTS TypeOK BuffersHoldOneRun OpenRunsHeldWhole DeliveriesHoldOneRun IntactRunIsDelivered
\* The transport may fall silent: the input is not forced to go on.
CHECK_DEADLOCK FALSE
