\* One message is followed to its callback and there the behaviour ends: the
\* dispatcher keeps no state from one message to the next.
CHECK_DEADLOCK FALSE
SPECIFICATION UmpSpec
CONSTANTS
  Messages   <- AllMessages
  RawWords   <- Headers
  NewGroups  <- SomeGroups
  CableKinds <- MidiOne
  CommonEvents <- SystemEvents
INVARIANTS
  HeardAsTheyAre
  ReadsNothingPastCount
  RestampMovesGroupOnly
  TranslationRoundTrip
  LoweredIsHeard
