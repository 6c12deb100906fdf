\* The agent's ticks, with every fault: the rate caps, the audit trail, the end of a tick.
SPECIFICATION FairSpec
CONSTANTS
  None = None
  add_whitelist = add_whitelist
  remove_whitelist = remove_whitelist
  notify = notify
  query = query
  Tools <- MCTools
  Groups <- MCGroups
  Cap <- MCCap
  Window <- MCWindow
  Retention = 2
  MaxHops = 1
  MaxCalls = 2
  MaxTick = 1
  MaxActs = 3
  MaxDecisions = 2
  Horizon = 3
  Modes = {"live", "digest"}
  Faults = {"write", "kill"}
INVARIANTS TypeOK RateCap NoOrphans
PROPERTIES TickEnds
