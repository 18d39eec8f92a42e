\* One message is followed to its callback and there the behaviour ends: the
\* dispatcher keeps no state from one message to the next.
CHECK_DEADLOCK FALSE
SPECIFICATION CiCodecSpec
CONSTANTS
  BuiltMessages <- AllMessages
  Damaged       <- Corners
  CutTo         <- Lengths
  Bytes         <- LengthBytes
  SubIds        <- AllSubIds
INVARIANTS
  CiBuiltIsHeard
  NothingPastTheEnd
  BlocksLieInside
  CutIsHeardInPart
