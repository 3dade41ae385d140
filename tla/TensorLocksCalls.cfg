CONSTANTS
  A = A
  B = B
  Threads = {A, B}
  Tensors <- MCTensors
  Storages <- MCTensors
  Storage <- MCStorage
  OnDevice <- MCOnDevice
  Views <- MCViews
  Program <- MCProgram
  MaxCalls = 3
  Nobody = Nobody
SPECIFICATION FairSpec
INVARIANT NoCircularWait
PROPERTY CallsReturn
CHECK_DEADLOCK FALSE
