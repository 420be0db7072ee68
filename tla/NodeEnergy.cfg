SPECIFICATION EnergySpec
CONSTANTS
  vm1 = vm1  vm2 = vm2  host = host  b1 = b1  b2 = b2  b3 = b3  NULL = NULL
  s1 = s1 s2 = s2 s3 = s3 s4 = s4
  Guests <- TheGuests
  Blocks <- TheBlocks
  StateMsgs = {s1, s2, s3, s4}
  Owner <- OwnerOf
  Work <- UnitWork
  TimeBlocks = {}
  Policy = "FIFO"
  Quantum = 2
  Ipt = 1
  NumVCpus = 2
  NumCPUs = 2
  Overhead = TRUE
  memory = memory  disk = disk  network = network
  Devices = {disk, network}
  TopPState = 3
  Durations = {1, 3}
  MaxTime = 4
  MaxUses = 1
INVARIANTS TypeOK MeterExact PartsFollowNode
