\* a collision with the Invalidate broadcast disabled
SPECIFICATION Spec
CONSTANTS
  Names <- None
  ProfileIds <- None
  Callers <- None
  Messages <- MuidMessages
  Options <- AnyOptions
  Seeds <- Seeds1
  Capacity <- Caps000
  ProfileRoom = 2
  MuidSpace = 4
  Fallback = 6
PROPERTY NewMuidAnnounced
\* The application and the peers may stop calling.
CHECK_DEADLOCK FALSE
