\* No faults of the monitor: do the caps bound what the agent does?
SPECIFICATION Spec
CONSTANTS
  None = None
  add_whitelist = add_whitelist
  remove_whitelist = remove_whitelist
  notify = notify
  query = query
  Tools <- MCTools
  Groups <- MCGroups
  Cap <- MCCap
  Window <- MCWindow
  Retention = 2
  MaxHops = 1
  MaxCalls = 2
  MaxTick = 1
  MaxActs = 3
  MaxDecisions = 2
  Horizon = 3
  Modes = {"live", "digest"}
  Faults = {}
INVARIANT ActionsWithinCap
