SPECIFICATION KSpec
CONSTANTS
  MAX_DEVICES = 6
  Buses = 2
  PCI_MAX_DEVICES = 2
  PCI_MAX_FUNCTIONS = 2
  PCI_MAX_STORED = 3
  ClassTable <- MCClassTable
  Chips <- MCChips
  Addresses <- MCAddresses
  PeerPorts = {80}
  Lengths = {0, 1446, 1447}
  MaxPackets = 2
CHECK_DEADLOCK FALSE
INVARIANTS
  ScanFindsAll
  RegistryHoldsAll
  IpHeadersVerify
