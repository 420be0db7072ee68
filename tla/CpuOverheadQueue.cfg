SPECIFICATION FairSpec
CONSTANTS
  vm1 = vm1  vm2 = vm2  b1 = b1  b2 = b2  b3 = b3  s1 = s1  NULL = NULL
  Guests <- TwoVMs
  Blocks <- ThreeBlocks
  StateMsgs = {}
  Owner <- OwnerAllFirst
  Work <- WorkMixed
  TimeBlocks = {}
  Policy = "FIFO"
  Quantum = 2
  Ipt = 1
  NumVCpus = 2
  NumCPUs = 1
  Overhead = TRUE
INVARIANTS SavedResponseKept

