\* Whitelist and suppressed types together: agent, portal, sweep and dispatcher.
SPECIFICATION Spec
CONSTANTS
  None = None
  a = a
  scan = scan
  sweep = sweep
  Ips = {a}
  Types = {scan}
  Spellings = {upper}
  Silenceable = {scan}
  Trusted <- MCTrusted
  BannedTypes = {}
  MaxTtl = 2
  MaxHours = 1
  CacheAge = 1
  Retention = 0
  EntryIds = {e1}
  Horizon = 3
  Portal = TRUE
INVARIANTS TypeOK WhitelistIsFresh SuppressionIsFresh WhitelistingEnds OnlyOverlapsLoseUpdates
SYMMETRY Symmetry
