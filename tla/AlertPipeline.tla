----------------------------- MODULE AlertPipeline -----------------------------
(***************************************************************************)
(* The tasks of run_monitor that move packets and alerts, and its end:     *)
(*                                                                         *)
(*   capture_packets --packet_queue--> detector_loop --alert_queue-->      *)
(*   run_arp_scan_loop ------------------------------^   alert_dispatch_   *)
(*                                                       loop -> handlers  *)
(*                                                                         *)
(* asyncio runs one task until it awaits something that is not there yet.  *)
(* Putting into a queue that has room, and the lock of the device store,   *)
(* which nobody holds across an await, do not suspend: the detector loop   *)
(* keeps the processor while it takes one packet through all detectors,    *)
(* and the scan while it reports its devices, unless the alert queue is    *)
(* full.  `holder' names the task that is in the middle of such a stretch. *)
(* Time-outs and sleeps end at any time: their length is not modelled.     *)
(*                                                                         *)
(* The clock stands still: what detectors make of time is the subject of   *)
(* Detectors, and tasks here are ordered by asyncio, not by the clock.     *)
(*                                                                         *)
(* Sizes of the queues, packets and devices are bounds; whitelists and     *)
(* suppression (AlertFilters) are a free choice to drop an alert; the      *)
(* outcome of a handler is free.                                           *)
(***************************************************************************)
EXTENDS Detectors, SequencesExt

CONSTANTS
  Chain,         \* the detectors, in the order of run_monitor's list
  Shapes,        \* what packets differ in
  Watched,       \* Watched[d]: the shapes that count for detector d
  KeyOf,         \* KeyOf[s]: the key a packet of shape s counts under
  Port,          \* Port[s]: the mark it bears for a detector of distinct ports
  PortCounting,  \* the detectors of distinct ports
  Handlers,      \* the alert handlers, in order
  Devices,       \* devices that arp-scan may find
  Inventory,     \* those of them in the inventory loaded at start
  Shows,         \* Shows[s]: the devices a packet of shape s puts in the inventory
  PacketCap,     \* maxsize of packet_queue
  AlertCap,      \* maxsize of alert_queue
  MaxPackets,    \* bounds the packets
  None

Packet == [no: 1..MaxPackets, shape: Shapes]
Alert  == [by: Detector, no: 1..MaxPackets] \cup [by: {"arp"}, no: Devices]
Tasks  == {"capture", "detector", "alerts", "arp_scanner"}

ASSUME PipelineAssumption ==
  /\ Chain \in Seq(Detector) /\ IsInjective(Chain)
  /\ Watched \in [Detector -> SUBSET Shapes] /\ KeyOf \in [Shapes -> Keys]
  /\ Port \in [Shapes -> Marks] /\ 1..MaxPackets \subseteq Marks
  /\ PortCounting \subseteq Detector /\ Inventory \subseteq Devices
  /\ Shows \in [Shapes -> SUBSET Devices]
  /\ Handlers \in Seq(Range(Handlers)) /\ MaxPackets \in Nat
  /\ {PacketCap, AlertCap, Len(Handlers)} \subseteq Nat \ {0}
  /\ "arp" \notin Detector /\ None \notin Packet \cup Alert \cup Tasks

VARIABLES
  stopping,       \* stop_event
  phase,          \* gather is "running"; "closing" after it failed; "ended"
  holder,         \* the task that runs on without awaiting, or None
  packet_queue,
  alert_queue,
  cap,            \* capture: where it is, and the packet it is putting
  det,            \* detector_loop: where, its packet, the next detector, the alert to put
  disp,           \* alert_dispatch_loop: where, its alert, the next handler
  arp,            \* the scan: where, the devices left to report, the alert to put
  known,          \* the devices in the inventory
  captured,       \* history: every packet captured
  produced,       \* history: the alerts of each producer, in order
  settled,        \* history: the alerts dropped or taken through all handlers
  tried,          \* history: the alerts each handler was called with
  late            \* history: packets and alerts taken since stop_event was set

queues == <<packet_queue, alert_queue>>
histories == <<captured, produced, settled, tried, late>>
vars == <<detectorVars, stopping, phase, holder, queues, cap, det, disp, arp, known, histories>>

Outcome == [alert: Alert, dropped: BOOLEAN]

CaptureState  == [at: {"start", "read", "put", "done"}, packet: Packet \cup {None}]
DetectorState == [at: {"get", "run", "put", "done"}, packet: Packet \cup {None},
                  next: 1..Len(Chain) + 1, alert: Alert \cup {None}]
DispatchState == [at: {"get", "send", "done"}, alert: Alert \cup {None},
                  next: 1..Len(Handlers) + 1]
ScanState     == [at: {"scan", "report", "put", "wait", "done"}, left: SUBSET Devices,
                  alert: Alert \cup {None}]

TypeOK ==
  /\ DetectorsTypeOK
  /\ stopping \in BOOLEAN /\ phase \in {"running", "closing", "ended"}
  /\ holder \in {"detector", "arp_scanner", None}
  /\ packet_queue \in Seq(Packet) /\ Len(packet_queue) <= PacketCap
  /\ alert_queue \in Seq(Alert) /\ Len(alert_queue) <= AlertCap
  /\ cap \in CaptureState /\ det \in DetectorState
  /\ disp \in DispatchState /\ arp \in ScanState
  /\ known \subseteq Devices
  /\ captured \in Seq(Packet) /\ settled \in Seq(Outcome)
  /\ produced \in [{"detector", "arp_scanner"} -> Seq(Alert)]
  /\ tried \in [DOMAIN Handlers -> Seq(Alert)]
  /\ late \in [packets: Nat, alerts: Nat]

\* Every task has begun: their first turns come before anything can set stop_event.
Init ==
  /\ DetectorsInit
  /\ stopping = FALSE /\ phase = "running" /\ holder = None
  /\ packet_queue = <<>> /\ alert_queue = <<>>
  /\ cap = [at |-> "start", packet |-> None]
  /\ det = [at |-> "get", packet |-> None, next |-> 1, alert |-> None]
  /\ disp = [at |-> "get", alert |-> None, next |-> 1]
  /\ arp = [at |-> "scan", left |-> {}, alert |-> None]
  /\ known = Inventory
  /\ captured = <<>> /\ settled = <<>>
  /\ produced = [t \in {"detector", "arp_scanner"} |-> <<>>]
  /\ tried = [h \in DOMAIN Handlers |-> <<>>]
  /\ late = [packets |-> 0, alerts |-> 0]

MayRun(task) == phase # "ended" /\ holder \in {None, task}

-------------------------------------------------------------------------------
(* capture_packets *)

CaptureOnly == UNCHANGED <<detectorVars, stopping, phase, holder, alert_queue, det, disp, arp,
                           known, produced, settled, tried, late>>

\* tshark starts.  It may fail to, and is tried again after a sleep.
StartTshark ==
  /\ MayRun("capture") /\ cap.at = "start"
  /\ cap' = [cap EXCEPT !.at = IF stopping THEN "done" ELSE "read"]
  /\ UNCHANGED <<packet_queue, captured>> /\ CaptureOnly

\* A line with a packet.  With stop_event set it is read and not used.
ReadPacket(s) ==
  /\ MayRun("capture") /\ cap.at = "read" /\ ~stopping
  /\ Len(captured) < MaxPackets
  /\ LET p == [no |-> Len(captured) + 1, shape |-> s]
     IN  /\ captured' = Append(captured, p)
         /\ IF Len(packet_queue) < PacketCap
            THEN packet_queue' = Append(packet_queue, p) /\ UNCHANGED cap
            ELSE cap' = [at |-> "put", packet |-> p] /\ UNCHANGED packet_queue
  /\ CaptureOnly

\* A line of any kind after stop_event is set ends the loop and kills tshark; one without
\* a packet before that is skipped.
ReadOther ==
  /\ MayRun("capture") /\ cap.at = "read" /\ stopping
  /\ cap' = [cap EXCEPT !.at = "start"]
  /\ UNCHANGED <<packet_queue, captured>> /\ CaptureOnly

\* tshark exits, or its stream fails: it is started again, after a sleep.
StreamEnds ==
  /\ MayRun("capture") /\ cap.at = "read"
  /\ cap' = [cap EXCEPT !.at = "start"]
  /\ UNCHANGED <<packet_queue, captured>> /\ CaptureOnly

PutOverfull ==   \* mutant: the wake-up does not look at the queue again
  /\ MayRun("capture") /\ cap.at = "put"
  /\ packet_queue' = Append(packet_queue, cap.packet)
  /\ cap' = [at |-> "read", packet |-> None]
  /\ UNCHANGED captured /\ CaptureOnly

\* The blocked put goes through.
PutPacket ==
  /\ MayRun("capture") /\ cap.at = "put" /\ Len(packet_queue) < PacketCap
  /\ packet_queue' = Append(packet_queue, cap.packet)
  /\ cap' = [at |-> "read", packet |-> None]
  /\ UNCHANGED captured /\ CaptureOnly

Capture == \/ StartTshark \/ (\E s \in Shapes : ReadPacket(s)) \/ ReadOther
           \/ StreamEnds \/ PutPacket

-------------------------------------------------------------------------------
(* detector_loop *)

DetectorOnly == UNCHANGED <<stopping, phase, cap, disp, arp, captured, settled, tried>>

NoTest == "get"   \* mutant: stop_event is not looked at

\* Where a loop goes on: `while not stop_event.is_set()'.
LoopTest == IF stopping THEN "done" ELSE "get"

\* A packet is there; the inventory is updated, then the detectors are run.
GetPacket ==
  /\ MayRun("detector") /\ det.at = "get" /\ packet_queue # <<>>
  /\ LET p == Head(packet_queue)
     IN  /\ det' = [at |-> "run", packet |-> p, next |-> 1, alert |-> None]
         /\ known' = known \cup Shows[p.shape]
  /\ packet_queue' = Tail(packet_queue)
  /\ holder' = "detector"
  /\ late' = IF stopping THEN [late EXCEPT !.packets = @ + 1] ELSE late
  /\ UNCHANGED <<detectorVars, alert_queue, produced>> /\ DetectorOnly

\* No packet for a second.
GetTimesOut ==
  /\ MayRun("detector") /\ det.at = "get"
  /\ FlushExpired
  /\ det' = [det EXCEPT !.at = LoopTest]
  /\ UNCHANGED <<holder, queues, known, produced, late>> /\ DetectorOnly

\* Producer task hands over alert a: it goes on with `on', or waits with `blocked'.
Offer(task, a, state, on, blocked) ==
  /\ produced' = [produced EXCEPT ![task] = Append(@, a)]
  /\ IF Len(alert_queue) < AlertCap
     THEN alert_queue' = Append(alert_queue, a) /\ state' = on /\ holder' = task
     ELSE UNCHANGED alert_queue /\ state' = blocked /\ holder' = None

\* The next detector looks at the packet.
RunDetector ==
  /\ MayRun("detector") /\ det.at = "run" /\ det.next <= Len(Chain)
  /\ LET d == Chain[det.next]
         p == det.packet
         k == KeyOf[p.shape]
         m == IF d \in PortCounting THEN Port[p.shape] ELSE p.no
         a == [by |-> d, no |-> p.no]
         on == [det EXCEPT !.next = @ + 1]
     IN  \/ /\ p.shape \notin Watched[d]
            /\ det' = on
            /\ UNCHANGED <<detectorVars, alert_queue, produced, holder>>
         \/ /\ p.shape \in Watched[d] /\ ~Alerts(d, k, m)
            /\ Process(d, k, m) /\ det' = on
            /\ UNCHANGED <<alert_queue, produced, holder>>
         \/ /\ p.shape \in Watched[d] /\ Alerts(d, k, m)
            /\ Process(d, k, m)
            /\ Offer("detector", a, det, on, [det EXCEPT !.at = "put", !.alert = a])
  /\ UNCHANGED <<packet_queue, known, late>> /\ DetectorOnly

BreakAfterAlert ==   \* mutant: detectors after the one that waited do not see the packet
  /\ MayRun("detector") /\ det.at = "put" /\ Len(alert_queue) < AlertCap
  /\ alert_queue' = Append(alert_queue, det.alert)
  /\ det' = [det EXCEPT !.at = "run", !.next = Len(Chain) + 1, !.alert = None]
  /\ holder' = "detector"
  /\ UNCHANGED <<detectorVars, packet_queue, known, produced, late>> /\ DetectorOnly

\* The blocked put goes through, and the loop over the detectors goes on.
PutDetectorAlert ==
  /\ MayRun("detector") /\ det.at = "put" /\ Len(alert_queue) < AlertCap
  /\ alert_queue' = Append(alert_queue, det.alert)
  /\ det' = [det EXCEPT !.at = "run", !.next = @ + 1, !.alert = None]
  /\ holder' = "detector"
  /\ UNCHANGED <<detectorVars, packet_queue, known, produced, late>> /\ DetectorOnly

PacketDone ==
  /\ MayRun("detector") /\ det.at = "run" /\ det.next > Len(Chain)
  /\ det' = [at |-> LoopTest, packet |-> None, next |-> 1, alert |-> None]
  /\ holder' = None
  /\ UNCHANGED <<detectorVars, queues, known, produced, late>> /\ DetectorOnly

DetectorLoop == \/ GetPacket \/ GetTimesOut \/ RunDetector
                \/ PutDetectorAlert \/ PacketDone

-------------------------------------------------------------------------------
(* alert_dispatch_loop *)

DispatchOnly == UNCHANGED <<detectorVars, stopping, phase, holder, packet_queue, cap, det, arp,
                            known, captured, produced>>

\* No alert for a second.
DispatchTimesOut ==
  /\ MayRun("alerts") /\ disp.at = "get" /\ stopping
  /\ disp' = [disp EXCEPT !.at = LoopTest]
  /\ UNCHANGED <<alert_queue, settled, tried, late>> /\ DispatchOnly

ReturnOnDrop == "done"   \* mutant: `return' where the loop should go on

AfterDrop == LoopTest

\* The next alert is dropped by one of the filters, or goes to the handlers.
TakeAlert ==
  /\ MayRun("alerts") /\ disp.at = "get" /\ alert_queue # <<>>
  /\ alert_queue' = Tail(alert_queue)
  /\ late' = IF stopping THEN [late EXCEPT !.alerts = @ + 1] ELSE late
  /\ LET a == Head(alert_queue)
     IN  \/ /\ settled' = Append(settled, [alert |-> a, dropped |-> TRUE])
            /\ disp' = [disp EXCEPT !.at = AfterDrop]
         \/ /\ disp' = [at |-> "send", alert |-> a, next |-> 1]
            /\ UNCHANGED settled
  /\ UNCHANGED tried /\ DispatchOnly

FirstSend(next) == next = 1   \* mutant: a handler that raises ends the round

LastSend(next) == next = Len(Handlers)

\* The next handler is called.  An exception of its own is caught: the round goes on.
Send ==
  /\ MayRun("alerts") /\ disp.at = "send"
  /\ tried' = [tried EXCEPT ![disp.next] = Append(@, disp.alert)]
  /\ IF LastSend(disp.next)
     THEN /\ settled' = Append(settled, [alert |-> disp.alert, dropped |-> FALSE])
          /\ disp' = [at |-> LoopTest, alert |-> None, next |-> 1]
     ELSE /\ disp' = [disp EXCEPT !.next = @ + 1]
          /\ UNCHANGED settled
  /\ UNCHANGED <<alert_queue, late>> /\ DispatchOnly

Dispatch == DispatchTimesOut \/ TakeAlert \/ Send

-------------------------------------------------------------------------------
(* run_arp_scan_loop *)

ScanOnly == UNCHANGED <<detectorVars, stopping, phase, packet_queue, cap, det, disp, captured,
                        settled, tried, late>>

TestScan ==
  /\ MayRun("arp_scanner") /\ arp.at = "wait"
  /\ arp' = [arp EXCEPT !.at = IF stopping THEN "done" ELSE "scan"]
  /\ UNCHANGED <<holder, alert_queue, known, produced>> /\ ScanOnly

\* arp-scan comes back, in its thread, with some devices or none.
Found(devices) ==
  /\ MayRun("arp_scanner") /\ arp.at = "scan"
  /\ IF devices = {} THEN arp' = [arp EXCEPT !.at = "wait"] /\ UNCHANGED holder
                     ELSE /\ arp' = [arp EXCEPT !.at = "report", !.left = devices]
                          /\ holder' = "arp_scanner"
  /\ UNCHANGED <<alert_queue, known, produced>> /\ ScanOnly

\* The next device is put in the inventory, and reported if it was not there.
Report(d) ==
  /\ MayRun("arp_scanner") /\ arp.at = "report" /\ d \in arp.left
  /\ known' = known \cup {d}
  /\ LET rest == [arp EXCEPT !.left = @ \ {d}]
         a == [by |-> "arp", no |-> d]
     IN  \/ d \in known /\ arp' = rest /\ UNCHANGED <<alert_queue, produced, holder>>
         \/ /\ d \notin known
            /\ Offer("arp_scanner", a, arp, rest, [rest EXCEPT !.at = "put", !.alert = a])
  /\ ScanOnly

PutTwice ==   \* mutant: the blocked alert stays in hand and is put again
  /\ MayRun("arp_scanner") /\ arp.at = "put" /\ Len(alert_queue) < AlertCap
  /\ alert_queue' = Append(alert_queue, arp.alert)
  /\ \/ arp' = [arp EXCEPT !.at = "report", !.alert = None] /\ holder' = "arp_scanner"
     \/ UNCHANGED <<arp, holder>>
  /\ UNCHANGED <<known, produced>> /\ ScanOnly

PutScanAlert ==
  /\ MayRun("arp_scanner") /\ arp.at = "put" /\ Len(alert_queue) < AlertCap
  /\ alert_queue' = Append(alert_queue, arp.alert)
  /\ arp' = [arp EXCEPT !.at = "report", !.alert = None]
  /\ holder' = "arp_scanner"
  /\ UNCHANGED <<known, produced>> /\ ScanOnly

ScanDone ==
  /\ MayRun("arp_scanner") /\ arp.at = "report" /\ arp.left = {}
  /\ arp' = [arp EXCEPT !.at = "wait"]
  /\ holder' = None
  /\ UNCHANGED <<alert_queue, known, produced>> /\ ScanOnly

Scan == \/ TestScan \/ (\E ds \in SUBSET Devices : Found(ds)) \/ (\E d \in Devices : Report(d))
        \/ PutScanAlert \/ ScanDone

-------------------------------------------------------------------------------
(* run_monitor: quitting, failing, and the end *)

TaskState == [capture |-> cap.at, detector |-> det.at, alerts |-> disp.at, arp_scanner |-> arp.at]

EndOnly == UNCHANGED <<detectorVars, queues, known, histories>>

\* The key q.
Quit ==
  /\ phase = "running" /\ holder = None
  /\ stopping' = TRUE
  /\ UNCHANGED <<phase, holder, cap, det, disp, arp>> /\ EndOnly

\* A task raises, or main is cancelled: gather returns although tasks still run.  The
\* task is one of those not modelled here, or is in the middle of a packet or a report.
Fails ==
  /\ phase = "running"
  /\ phase' = "closing" /\ holder' = None
  /\ \/ holder = None /\ UNCHANGED <<cap, det, disp, arp>>
     \/ det.at = "run" /\ det' = [det EXCEPT !.at = "done"] /\ UNCHANGED <<cap, disp, arp>>
     \/ arp.at = "report" /\ arp' = [arp EXCEPT !.at = "done"] /\ UNCHANGED <<cap, det, disp>>
  /\ UNCHANGED stopping /\ EndOnly

\* The finally clause: stop_event, then the last save of the inventory, ...
Close ==
  /\ phase = "closing" /\ holder = None /\ ~stopping
  /\ stopping' = TRUE
  /\ UNCHANGED <<phase, holder, cap, det, disp, arp>> /\ EndOnly

\* ... then every task is cancelled and waited for.
CancelAll ==
  /\ phase = "closing" /\ holder = None /\ stopping
  /\ phase' = "ended"
  /\ cap' = [cap EXCEPT !.at = "done"] /\ det' = [det EXCEPT !.at = "done"]
  /\ disp' = [disp EXCEPT !.at = "done"] /\ arp' = [arp EXCEPT !.at = "done"]
  /\ UNCHANGED <<stopping, holder>> /\ EndOnly

\* gather returns because all tasks have: nothing is left to cancel.
Finish ==
  /\ phase = "running" /\ \A t \in Tasks : TaskState[t] = "done"
  /\ phase' = "ended"
  /\ UNCHANGED <<stopping, holder, cap, det, disp, arp>> /\ EndOnly

End == Close \/ CancelAll \/ Finish

Next == Capture \/ DetectorLoop \/ Dispatch \/ Scan \/ Quit \/ Fails \/ End

Spec == Init /\ [][Next]_vars

\* asyncio's ready queue is first in, first out, and so are the waiters of a queue: a task
\* that can go on again and again is run.  tshark goes on to deliver lines, or ends.
FairSpec == /\ Spec /\ SF_vars(Capture) /\ SF_vars(DetectorLoop) /\ SF_vars(Dispatch)
            /\ SF_vars(Scan) /\ SF_vars(End)

-------------------------------------------------------------------------------
(* Properties *)

\* What the captured packets have come to: those still on their way, oldest first.
Waiting == packet_queue \o (IF cap.packet = None THEN <<>> ELSE <<cap.packet>>)

\* Detector number i is through with the packet in hand.
Through(i) == i < det.next \/ (det.at = "put" /\ i = det.next)

\* Back-pressure loses no packet and changes no order, and a detector that has to wait
\* with its alert keeps none of the others from seeing the packet: each detector has
\* seen exactly the packets that count for it, up to the one in hand.
EveryDetectorSeesAll ==
  LET taken == Len(captured) - Len(Waiting)
  IN  phase = "running" =>
        /\ SubSeq(captured, taken + 1, Len(captured)) = Waiting
        /\ \A i \in {j \in DOMAIN Chain : Chain[j] \notin PortCounting} :
             {c.mark : c \in UNION {seen[Chain[i]][k] : k \in Keys}} =
             {n \in 1..taken : /\ captured[n].shape \in Watched[Chain[i]]
                               /\ n = taken /\ det.packet # None => Through(i)}

\* The members of A among the elements of s, in their order.
Only(A, s) ==
  LET kept[i \in 0 .. Len(s)] ==
        IF i = 0 THEN <<>>
        ELSE IF s[i] \in A THEN Append(kept[i - 1], s[i]) ELSE kept[i - 1]
  IN  kept[Len(s)]

AlertOf(task) == {a \in Alert : (a.by = "arp") = (task = "arp_scanner")}

InHand == (IF disp.alert = None THEN <<>> ELSE <<disp.alert>>) \o alert_queue

Blocked(task) == LET a == IF task = "arp_scanner" THEN arp.alert ELSE det.alert
                 IN  IF a = None THEN <<>> ELSE <<a>>

Sent == [alert: Alert, dropped: {FALSE}]

Alerted(outcomes) == [i \in DOMAIN outcomes |-> outcomes[i].alert]

\* From the detector or the scan to the handlers, two producers sharing a bounded queue,
\* no alert is lost, doubled or overtaken by a later one of the same producer.
AlertsKept ==
  phase = "running" => \A task \in {"detector", "arp_scanner"} :
    produced[task] = Only(AlertOf(task), Alerted(settled) \o InHand) \o Blocked(task)

\* Whatever a handler raises, every handler is called once with every alert that passes
\* the filters, and in the same order as the others.
HandlersAgree ==
  phase = "running" => \A h \in DOMAIN Handlers :
    tried[h] = Alerted(Only(Sent, settled))
                 \o (IF disp.at = "send" /\ h < disp.next THEN <<disp.alert>> ELSE <<>>)

\* Once stop_event is set, the detector loop and the dispatcher each take at most one
\* more item.
StopIsPrompt == late.packets <= 1 /\ late.alerts <= 1

Drained == packet_queue = <<>> /\ cap.packet = None /\ det.packet = None /\ InHand = <<>>
             /\ \A task \in {"detector", "arp_scanner"} : Blocked(task) = <<>>

\* The loops never wait for one another in a circle: while nobody stops the monitor,
\* everything captured and everything raised gets through.
Drains == []<>(Drained \/ stopping \/ phase # "running")

\* "Q | Quit", and capture_packets "until stop_event is set": once stop_event is set,
\* run_monitor comes to its end.
StopEnds == stopping ~> phase = "ended"
===============================================================================
