\* A host that goes and comes back at any time and refuses any packet.
SPECIFICATION Spec
CONSTANTS
  kC_Count = 2
  MaxBurst = 1
  Reply <- MCReply
  RxDepth = 1
  MaxAttempts = 1
  WakeTimes <- MCWakeTimes
  MaxLateMs = 600
  MaxFaults = 1
  MaxReceived = 1
  NoThread = NoThread
INVARIANTS
  TypeOK
  RunsUninterrupted
PROPERTIES
  EverySendReturns
  CycleIsWhole
