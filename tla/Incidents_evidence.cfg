\* The cases alone.
SPECIFICATION MCSpec
CONSTANTS
  Parts = {"incidents"}
  port_scan = port_scan
  dns_tunneling = dns_tunneling
  src = src
  in = in
  out = out
  Rearming = {port_scan}
  Deduping = {dns_tunneling}
  Keys = {src}
  Marks = {p1, p2}
  Threshold <- MCThreshold
  Window <- MCWindow
  AlertWindow <- MCAlertWindow
  Epoch <- MCEpoch
  Horizon = 3
  Inside = {in}
  Outside = {out}
  NonRoutable = {}
  Second = 2
  BeaconWindow = 10
  MinContacts = 3
  MinInterval = 3
  MaxInterval = 4
  MaxJitter = 20
  BeaconRest = 3
  Baseline = 1
  Lines <- MCLines
  Lookups <- MCLookups
  Extras <- MCExtras
  ListRest = 1
  LastInstant = 11
  NoAddress = NoAddress
  Threats <- MCThreats
  ExternalIps = {out}
  MinLevel = 3
  Cooldown = 1
  Correlation = 1
  CaseLife = 2
  Assignees = {""}
  Confidences = {50}
  Engines = {0}
  Requested = {"reviewed", "low"}
  MaxCases = 2
  MaxTasks = 2
  CaseHorizon = 3
  AlertTypes = {"scan"}
  Sources = {in, out}
  AlertLevels = {1, 3}
  Enabled = {"ntfy", "email", "siem", "sound", "log", "terminal"}
  ChannelLevel <- MCChannelLevel
  MutedTypes = {}
  Quiet = 1
  Keep = 0
  PageSize = 1
  Lookback = 0
  DigestOmits = {"flood"}
  DigestMax = 1
  MaxEvents = 3
  LogHorizon = 1
  Devices = {in, out}
  Local = {in}
  Trusted = {out}
  Raises = {3}
  Remember = 0
  NegativeTtl = 1
  CacheSize = 1
  InventoryHorizon = 1
  Hosts = {in, out}
  Peers = {out}
  NotAssets = {}
  Sensor = src
  Ports <- MCPorts
  Grades = {4}
  MaxLog = 1
  MaxFindings = 1
  Frames <- MCFrames
  Ipv4 = {in, out}
  NoStream = NoStream
  MaxFrames = 4
  Packets <- MCPackets
  Network = {in, src}
  MaxPackets = 3
  KeepFlows = 1
  DayHours = 2
  DeviceLimit = 1
  DestinationLimit = 1
  PortLimit = 2
  DrillFlows = 1
  StoreHorizon = 3
  Inspected = {in}
  KeepCaptures = 1
  WebHorizon = 2
  MaxWebThreads = 2
PROPERTY EvidenceKept
\* The clock and the numbers of cases and collections are bounded.
CHECK_DEADLOCK FALSE
