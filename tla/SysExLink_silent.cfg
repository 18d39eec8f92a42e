\* a sink that reports success for packets it dropped
SPECIFICATION Spec
CONSTANTS
  Senders <- OneSender
  Lengths <- Lengths15
  Silent = TRUE
  WireSize = 2
  MaxMessages = 2
  MaxFed = 100
  Groups <- Groups01
  BufSize <- Size4
  MaxData <- Data2
INVARIANT DeliveredWereSent
\* The senders run out of messages: MaxMessages bounds the traffic.
CHECK_DEADLOCK FALSE
