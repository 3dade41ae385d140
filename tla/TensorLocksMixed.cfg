CONSTANTS
  A = A
  B = B
  Threads = {A, B}
  Tensors <- HostTensors
  Storages <- HostTensors
  Storage <- HostStorage
  OnDevice <- WeightOnDevice
  Views <- NoStorages
  Program <- MixedProgram
  MaxCalls = 1
  Nobody = Nobody
SPECIFICATION Spec
INVARIANT NeverWaitsOnItself
CHECK_DEADLOCK FALSE
