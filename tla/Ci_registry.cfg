\* properties and subscribers that come and go, on a full registry
SPECIFICATION Spec
CONSTANTS
  Names <- NamesAB
  ProfileIds <- None
  Callers <- Callers12
  Messages <- None
  Options <- WriteOnly
  Seeds <- Seeds1
  Capacity <- Caps022
  ProfileRoom = 2
  MuidSpace = 4
  Fallback = 6
INVARIANTS TypeOK SubscribersExact NotifyReachesSubscribers
\* The application and the peers may stop calling.
CHECK_DEADLOCK FALSE
