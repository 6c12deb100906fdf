\* Monitor and portal on one file, ufw that fails, processes that are killed. Does every
\* block come to an end?
SPECIFICATION FairSpec
CONSTANTS
  None = None
  AllPorts = AllPorts
  Ips = {a}
  Ports = {http}
  Protected = {}
  BannedPorts = {}
  MaxActiveBlocks = 2
  MaxBlockTime = 1
  Retention = 1
  EntryIds = {e1, e2}
  Horizon = 2
  Modes = {"live", "dry"}
  Portal = TRUE
  UfwFaults = TRUE
  Crashes = TRUE
INVARIANTS TypeOK BlockStays RolledBackForAReason
PROPERTIES LeaseSpec BlockEnds
