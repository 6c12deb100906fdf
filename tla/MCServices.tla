------------------------------ MODULE MCServices ------------------------------
(***************************************************************************)
(* Small instances of the parts that do not share state with one another,   *)
(* for TLC.  Each behaviour is one of one part, chosen at the beginning;     *)
(* the variables of the others keep their first values.                      *)
(***************************************************************************)
EXTENDS Detectors, ContactDetectors, Incidents, EventLog, Inventory, Risk,
        PcapAnalysis, FlowStore, DeepInspectWeb, TLC

CONSTANTS
    Parts,     \* the parts to explore
    port_scan, dns_tunneling, src, in, out

AllParts == {"detectors", "beaconing", "new_ip", "hosts", "malware", "tor", "incidents",
             "events", "inventory", "risk", "pcap", "flows", "web"}

VARIABLE part

partVars == <<detectorVars, contactVars, caseVars, logVars, inventoryVars, riskVars, pcapVars,
              storeVars, webVars>>

\* The detectors: one of each kind, over four clock values.
MCThreshold   == [d \in {port_scan, dns_tunneling} |-> 2]
MCWindow      == [d \in {port_scan, dns_tunneling} |-> 1]
MCAlertWindow == [d \in {dns_tunneling} |-> 2]
MCEpoch       == 0 - 2

\* Lists: a name that is spelt in two ways, and an address; a second name is
\* the operator's own.
Name(label, dot) == [label |-> label, dot |-> dot]
MCLines == {[kind |-> "pair", name |-> Name("listed", FALSE)],
            [kind |-> "pair", name |-> Name("listed", TRUE)],
            [kind |-> "bare", name |-> Name(out, FALSE)]}
MCLookups == {Name("listed", TRUE), Name("own", FALSE)}
MCExtras  == {Name("own", FALSE)}

\* Beacons need the whole clock, the other parts a moment.
ContactTick == InstantPasses /\ (part = "beaconing" \/ instant < 1)

\* Alerts from outside; an operator who looks at cases, grades and assigns them.
MCThreats == {[type |-> "scan", src |-> out, dst |-> in, level |-> 3]}

\* Channels that take everything, or what is MEDIUM, or what is HIGH.
MCChannelLevel == [c \in {"ntfy", "email", "siem", "sound", "log", "terminal"} |->
                     CASE c = "siem" -> 2 [] c \in {"log", "terminal"} -> 1 [] OTHER -> 3]

\* A run of ports that a scan would leave, and a service of its own.
MCPorts == [h \in {in, out} |-> IF h = in THEN 20 .. 23 ELSE {3389}]

\* Frames of one client and one server, with questions in both directions; a
\* flight of several handshake messages and a frame of several DNS messages; two
\* servers that are asked over IPv6; a handshake without a stream.
Frame(kind, from, to, tag, mac) ==
    [kind |-> kind, src |-> from, dst |-> to, tag |-> tag, mac |-> mac, plain |-> TRUE]
Several(f) == [f EXCEPT !.plain = FALSE]
MCFrames ==
    {Frame("query", in, out, 1, "i"), Frame("query", in, out, 2, ""), Frame("query", out, in, 1, ""),
     Frame("response", out, in, 1, "o"), Frame("response", in, out, 1, ""),
     Several(Frame("response", out, in, 1, "o")),
     Frame("query", "six", "server", 1, "i"), Frame("response", "other", "six", 1, "o"),
     Frame("client_hello", in, out, 1, "i"), Frame("client_hello", in, out, NoStream, "i"),
     Frame("server_hello", out, in, 1, "o"), Frame("server_hello", "server", "six", NoStream, "o"),
     Several(Frame("server_hello", out, in, 1, "o")),
     Frame("syn_ack", out, in, 443, "p"), Frame("syn_ack", "server", "six", 443, "p")}

\* Packets of one connection in two protocols, printed in any order, and of
\* others: one of a second device, to two ports of one name, and one from outside.
Packet(from, port, proto, ts, name) ==
    [src |-> from, dst |-> out, port |-> port, proto |-> proto, len |-> ts + 1, ts |-> ts, name |-> name]
MCPackets ==
    {Packet(in, 443, "TCP", t, "") : t \in 0 .. 1}
    \cup {Packet(in, 443, "TLS", 0, "site"), Packet(in, 443, "TLS", 1, "other"), Packet(in, 25, "SMTP", 1, "")}
    \cup {Packet(src, 587, "TCP", 0, ""), Packet(out, 443, "TCP", 0, "")}

\* Ports are interchangeable for the detectors, and nothing else has them.
Symmetry == Permutations(Marks)

MCInit ==
    /\ part \in Parts
    /\ DetectorsInit /\ ContactInit /\ CaseInit /\ LogInit /\ InventoryInit /\ RiskInit
    /\ PcapInit /\ StoreInit /\ WebInit

ContactsStep ==
    \/ part = "beaconing" /\ BeaconNext
    \/ part = "new_ip" /\ NewIpNext
    \/ part \in Lists /\ ListNext(part)
    \/ ContactTick

\* The part's own step.
PartStep ==
    \/ /\ part = "detectors" /\ DetectorsNext
       /\ UNCHANGED <<contactVars, caseVars, logVars, inventoryVars, riskVars, pcapVars, storeVars, webVars>>
    \/ /\ part \in {"beaconing", "new_ip"} \cup Lists /\ ContactsStep
       /\ UNCHANGED <<detectorVars, caseVars, logVars, inventoryVars, riskVars, pcapVars, storeVars, webVars>>
    \/ /\ part = "incidents" /\ CaseNext
       /\ UNCHANGED <<detectorVars, contactVars, logVars, inventoryVars, riskVars, pcapVars, storeVars, webVars>>
    \/ /\ part = "events" /\ LogNext
       /\ UNCHANGED <<detectorVars, contactVars, caseVars, inventoryVars, riskVars, pcapVars, storeVars, webVars>>
    \/ /\ part = "inventory" /\ InventoryNext
       /\ UNCHANGED <<detectorVars, contactVars, caseVars, logVars, riskVars, pcapVars, storeVars, webVars>>
    \/ /\ part = "risk" /\ RiskNext
       /\ UNCHANGED <<detectorVars, contactVars, caseVars, logVars, inventoryVars, pcapVars, storeVars, webVars>>
    \/ /\ part = "pcap" /\ PcapNext
       /\ UNCHANGED <<detectorVars, contactVars, caseVars, logVars, inventoryVars, riskVars, storeVars, webVars>>
    \/ /\ part = "flows" /\ StoreNext
       /\ UNCHANGED <<detectorVars, contactVars, caseVars, logVars, inventoryVars, riskVars, pcapVars, webVars>>
    \/ /\ part = "web" /\ WebNext
       /\ UNCHANGED <<detectorVars, contactVars, caseVars, logVars, inventoryVars, riskVars, pcapVars, storeVars>>

MCNext == PartStep /\ UNCHANGED part

MCSpec == MCInit /\ [][MCNext]_<<partVars, part>>
===============================================================================
