\* Agent and monitor alone: do suppressions end with their time to live?
SPECIFICATION Spec
CONSTANTS
  None = None
  a = a
  scan = scan
  sweep = sweep
  Ips = {a}
  Types = {scan, sweep}
  Spellings = {upper}
  Silenceable = {scan, sweep}
  Trusted <- MCTrusted
  BannedTypes = {}
  MaxTtl = 1
  MaxHours = 1
  CacheAge = 1
  Retention = 0
  EntryIds = {}
  Horizon = 2
  Portal = FALSE
PROPERTIES SuppressionsExpire
