SPECIFICATION Spec
CONSTANTS
  Jobs = {j1, j2, j3, j4}
  Keys = {k1, k2}
  NoJob = NoJob
INVARIANTS
  TypeOK
  MutualExclusion
  UnlockedMeansReleased
  IInv
PROPERTIES
  NoStarvation
  ImplementsFifoLock
CHECK_DEADLOCK FALSE
