SPECIFICATION Spec
CONSTANTS
  MAX_PEERS = 3
  my_id = 1
  Senders = {0, 2, 3, 4}
  Reports <- MCReports
  CpuMax = 6
  RamMax = 10
  QueueMax = 2
INVARIANTS TypeOK ElectsBest WinnerStaysKnown
