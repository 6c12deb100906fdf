------------------------------ MODULE FlowCapture ------------------------------
(***************************************************************************)
(* How "netwatchm report" turns captured packets into flows                 *)
(* (reports/connection_report.py, capture_flows).  A connection gives one    *)
(* flow per protocol that tshark saw on it, so a handshake and what follows  *)
(* are flows of their own; the name of a server is seen in few packets and   *)
(* is given to all flows of the connection at the end.                       *)
(***************************************************************************)
EXTENDS Integers, FiniteSetsExt, SequencesExt, Functions

CONSTANTS
    Packets,      \* lines that parse: src, dst, port, proto, len, ts, name
    Network,      \* the addresses of the network that is reported
    MaxPackets    \* bound: packets in a capture

ASSUME FlowCaptureAssumption ==
    /\ \A p \in Packets : p.len \in Nat /\ p.ts \in Nat
    /\ MaxPackets \in Nat

VARIABLES
    lines,         \* tshark's output so far
    flows,         \* per key a flow record, without its domain
    domain_hints   \* per connection the first name seen

captureVars == <<lines, flows, domain_hints>>

CaptureInit ==
    /\ lines = << >>
    /\ flows = [k \in {} |-> 0]
    /\ domain_hints = [k \in {} |-> ""]

\* tshark's protocol, if it says more than the transport; else the service of
\* the port over that transport.
WellKnown == {53, 80, 443}

ResolveProtocol(proto, port) ==
    IF proto \in {"TCP", "UDP"} /\ port \in WellKnown THEN <<port, proto>> ELSE <<proto>>

Connection(p) == <<p.src, p.dst, p.port>>
FlowKey(p)    == <<Connection(p), ResolveProtocol(p.proto, p.port)>>

NewFlow(p) == [packets |-> 0, bytes |-> 0, first |-> p.ts, last |-> p.ts]

\* mutant: packets are taken to come in order
CountedInOrder(r, p) ==
    [packets |-> r.packets + 1, bytes |-> r.bytes + p.len, first |-> r.first, last |-> p.ts]

Counted(r, p) ==
    [packets |-> r.packets + 1, bytes |-> r.bytes + p.len,
     first |-> IF p.ts < r.first THEN p.ts ELSE r.first,
     last  |-> IF p.ts > r.last THEN p.ts ELSE r.last]

AddTo(f, k, v) == [x \in DOMAIN f \cup {k} |-> IF x = k THEN v ELSE f[x]]

ReadPacket(p) ==
    /\ Len(lines) < MaxPackets
    /\ lines' = Append(lines, p)
    /\ IF p.src \notin Network THEN UNCHANGED <<flows, domain_hints>>
       ELSE /\ flows' = AddTo(flows, FlowKey(p),
                              Counted(IF FlowKey(p) \in DOMAIN flows THEN flows[FlowKey(p)]
                                      ELSE NewFlow(p), p))
            /\ domain_hints' = IF p.name = "" \/ Connection(p) \in DOMAIN domain_hints
                               THEN domain_hints
                               ELSE AddTo(domain_hints, Connection(p), p.name)

CaptureNext == \E p \in Packets : ReadPacket(p)

\* What is returned: every flow with the name of its connection.
DomainOf(k) == IF k[1] \in DOMAIN domain_hints THEN domain_hints[k[1]] ELSE "none"

-----------------------------------------------------------------------------
\* Nothing the network sent is lost or counted twice when the packets of a
\* connection are spread over flows: packets, bytes and the span of time add
\* up to those of the capture, in whatever order tshark prints them, and all
\* its flows have the first name that was seen, also the ones before it.
PartsAddUp ==
    LET sent == {i \in DOMAIN lines : lines[i].src \in Network}
    IN  \A c \in {Connection(lines[i]) : i \in sent} :
          LET mine  == {i \in sent : Connection(lines[i]) = c}
              parts == {k \in DOMAIN flows : k[1] = c}
              named == {i \in mine : lines[i].name # ""}
          IN  /\ SumFunction([k \in parts |-> flows[k].packets]) = Cardinality(mine)
              /\ SumFunction([k \in parts |-> flows[k].bytes])
                     = SumFunction([i \in mine |-> lines[i].len])
              /\ Min({flows[k].first : k \in parts}) = Min({lines[i].ts : i \in mine})
              /\ Max({flows[k].last : k \in parts}) = Max({lines[i].ts : i \in mine})
              /\ \A k \in parts :
                     DomainOf(k) = IF named = {} THEN "none" ELSE lines[Min(named)].name
===============================================================================
