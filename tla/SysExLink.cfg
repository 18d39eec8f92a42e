\* three senders, an honest sink that refuses packets when full
SPECIFICATION Spec
CONSTANTS
  Senders <- ThreeSenders
  Lengths <- Lengths15
  Silent = FALSE
  WireSize = 2
  MaxMessages = 3
  MaxFed = 100
  Groups <- Groups01
  BufSize <- Size4
  MaxData <- Data2
INVARIANT DeliveredWereSent
PROPERTIES ImplementsLanes EveryMessageSettles
\* The senders run out of messages: MaxMessages bounds the traffic.
CHECK_DEADLOCK FALSE
