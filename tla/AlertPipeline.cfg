\* Capture, detectors, arp-scan and dispatch over two queues of one place each.
SPECIFICATION FairSpec
CONSTANTS
  None = None
  port_scan = port_scan
  tor_exit = tor_exit
  syn = syn
  probe = probe
  src = src
  laptop = laptop
  Rearming = {port_scan}
  Deduping = {tor_exit}
  Keys = {src}
  Marks <- MCMarks
  Threshold <- MCThreshold
  Window <- MCWindow
  AlertWindow <- MCAlertWindow
  Epoch <- MCEpoch
  Horizon = 0
  Chain <- MCChain
  Shapes = {syn, probe}
  Watched <- MCWatched
  KeyOf <- MCKeyOf
  Port <- MCPort
  PortCounting = {port_scan}
  Handlers <- MCHandlers
  Devices = {laptop}
  Inventory = {}
  Shows <- MCShows
  PacketCap = 1
  AlertCap = 1
  MaxPackets = 2
INVARIANTS TypeOK EveryDetectorSeesAll AlertsKept HandlersAgree StopIsPrompt
PROPERTIES Drains
\* An ended monitor stays ended; one that cannot end is the subject of another run.
CHECK_DEADLOCK FALSE
