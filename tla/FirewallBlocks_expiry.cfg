\* One process, no failures: does every rule go when its block expires?
SPECIFICATION Spec
CONSTANTS
  None = None
  AllPorts = AllPorts
  Ips = {a}
  Ports = {http}
  Protected = {}
  BannedPorts = {}
  MaxActiveBlocks = 2
  MaxBlockTime = 1
  Retention = 1
  EntryIds = {e1, e2}
  Horizon = 2
  Modes = {"live", "dry"}
  Portal = FALSE
  UfwFaults = FALSE
  Crashes = FALSE
INVARIANT NoBlockSurvivesExpiry
