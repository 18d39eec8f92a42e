\* every inbound message, over settings, profiles and properties that change
SPECIFICATION Spec
CONSTANTS
  Names <- NamesA
  ProfileIds <- ProfileP
  Callers <- None
  Messages <- AllMessages
  Options <- MuidOptions
  Seeds <- Seeds1
  Capacity <- Caps210
  ProfileRoom = 1
  MuidSpace = 4
  Fallback = 6
INVARIANTS RepliesCarryMuid InquiriesAnswered
PROPERTY NewMuidAnnounced
\* The application and the peers may stop calling.
CHECK_DEADLOCK FALSE
