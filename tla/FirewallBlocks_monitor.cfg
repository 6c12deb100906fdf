\* The monitor alone, with ufw answering: stops and restarts only between operations.
SPECIFICATION Spec
CONSTANTS
  None = None
  AllPorts = AllPorts
  Ips = {a}
  Ports = {http}
  Protected = {}
  BannedPorts = {}
  MaxActiveBlocks = 2
  MaxBlockTime = 2
  Retention = 2
  EntryIds = {e1, e2, e3}
  Horizon = 3
  Modes = {"live", "digest"}
  Portal = FALSE
  UfwFaults = FALSE
  Crashes = FALSE
INVARIANTS ActiveCeiling OnlyAnOverlapLiftsEarly LiftedOnTime
PROPERTIES StoreNeverRegresses
SYMMETRY Symmetry
