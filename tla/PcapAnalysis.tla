----------------------------- MODULE PcapAnalysis -----------------------------
(***************************************************************************)
(* What the portal finds in an uploaded capture (_analyze_pcap).  Four      *)
(* questions are put to tshark, each in a process of its own that goes      *)
(* through the capture; here the capture grows by a frame and every question*)
(* that is still being answered takes it.  Queries and answers are the      *)
(* numbers of their frames.  That tshark is not installed, or prints what is*)
(* no text, fails the whole job (PortalJobs); after a time-out or an error of*)
(* tshark the result is "ready" with what there is.                         *)
(***************************************************************************)
EXTENDS Naturals, SequencesExt

CONSTANTS
    Frames,      \* kind, src, dst, tag (DNS id, TCP stream or port), mac, and
                 \* whether its line is plain, of one message
    Ipv4,        \* the addresses that ip.src and ip.dst print
    NoStream,    \* the empty stream of a handshake that is not over TCP
    MaxFrames    \* bound: frames of a capture and questions cut short, together

ASSUME PcapAssumption ==
    /\ MaxFrames \in Nat
    /\ "" \notin Ipv4
    /\ \A f \in Frames : f.plain \in BOOLEAN

Pairings  == {"dns", "tls"}
Questions == Pairings \cup {"addresses", "ports"}

VARIABLES
    frames,      \* the capture so far
    asking,      \* the questions tshark is still at
    heard,       \* per question, the frames it has gone through
    pending,     \* dns_pending and tls_pending
    results,     \* dns_results and tls_results
    ip_to_mac, ip_pkt_count, open_ports

pcapVars == <<frames, asking, heard, pending, results, ip_to_mac, ip_pkt_count, open_ports>>

NoEntries == [k \in {} |-> 0]
Entered(f, k, v) == [x \in DOMAIN f \cup {k} |-> IF x = k THEN v ELSE f[x]]
Popped(f, k)     == [x \in DOMAIN f \ {k} |-> f[x]]

PcapInit ==
    /\ frames = << >>
    /\ asking = Questions /\ heard = [q \in Questions |-> 0]
    /\ pending = [q \in Pairings |-> NoEntries] /\ results = [q \in Pairings |-> {}]
    /\ ip_to_mac = NoEntries /\ ip_pkt_count = NoEntries
    /\ open_ports = {}

\* A frame of another protocol, IPv6 above all, has empty address columns.
Printed(a) == IF a \in Ipv4 THEN a ELSE ""

Asks(q)    == IF q = "dns" THEN "query" ELSE "client_hello"
Answers(q) == IF q = "dns" THEN "response" ELSE "server_hello"

\* By client, server and id: an answer comes back the other way.
DnsKey(f) == IF f.kind = "query" THEN <<Printed(f.src), Printed(f.dst), f.tag>>
             ELSE <<Printed(f.dst), Printed(f.src), f.tag>>
\* By TCP stream; handshakes without one share the empty one.
TlsKey(f) == f.tag
Key(q, f) == IF q = "dns" THEN DnsKey(f) ELSE TlsKey(f)

\* A query is entered over an older one of the same key, an answer takes
\* the query out; an answer without a query is passed over.
AskOnce(queue, k, i) == IF k \in DOMAIN queue THEN queue ELSE Entered(queue, k, i)   \* mutant

Ask(queue, k, i) == Entered(queue, k, i)
Paired(queue, k, i) == IF k \in DOMAIN queue THEN {<<queue[k], i>>} ELSE {}

\* A handshake of several messages prints a list of types and is skipped; several
\* DNS messages in a frame are entered under the list of their ids, where no
\* answer looks.
Heeds(q, f, kind) == q \in asking /\ f.plain /\ f.kind = kind

PairFrame(f, i) ==
    /\ pending' = [q \in Pairings |->
                     IF Heeds(q, f, Asks(q)) THEN Ask(pending[q], Key(q, f), i)
                     ELSE IF Heeds(q, f, Answers(q)) THEN Popped(pending[q], Key(q, f))
                     ELSE pending[q]]
    /\ results' = [q \in Pairings |->
                     IF Heeds(q, f, Answers(q)) THEN results[q] \cup Paired(pending[q], Key(q, f), i)
                     ELSE results[q]]

\* The first MAC of an address is kept; a frame may have none.
AddressFrame(f) ==
    \/ /\ "addresses" \in asking /\ f.src \in Ipv4
       /\ ip_pkt_count' = Entered(ip_pkt_count, f.src,
                                  IF f.src \in DOMAIN ip_pkt_count THEN ip_pkt_count[f.src] + 1 ELSE 1)
       /\ ip_to_mac' = IF f.src \in DOMAIN ip_to_mac \/ f.mac = "" THEN ip_to_mac
                       ELSE Entered(ip_to_mac, f.src, f.mac)
    \/ /\ ~("addresses" \in asking /\ f.src \in Ipv4)
       /\ UNCHANGED <<ip_pkt_count, ip_to_mac>>

PortFrame(f) ==
    open_ports' = IF "ports" \in asking /\ f.kind = "syn_ack"
                  THEN open_ports \cup {<<Printed(f.src), f.tag>>} ELSE open_ports

Bounded == Len(frames) + Cardinality(Questions \ asking) < MaxFrames

ReadFrame(f) ==
    /\ Bounded
    /\ frames' = Append(frames, f)
    /\ heard' = [q \in Questions |-> IF q \in asking THEN heard[q] + 1 ELSE heard[q]]
    /\ PairFrame(f, Len(frames) + 1)
    /\ AddressFrame(f)
    /\ PortFrame(f)
    /\ UNCHANGED asking

\* After 90 seconds nothing of an answer is used, and the job goes on.
TimesOut(q) ==
    /\ Bounded
    /\ asking' = asking \ {q}
    /\ heard' = [heard EXCEPT ![q] = 0]
    /\ pending' = [p \in Pairings |-> IF p = q THEN NoEntries ELSE pending[p]]
    /\ results' = [p \in Pairings |-> IF p = q THEN {} ELSE results[p]]
    /\ ip_pkt_count' = IF q = "addresses" THEN NoEntries ELSE ip_pkt_count
    /\ ip_to_mac'    = IF q = "addresses" THEN NoEntries ELSE ip_to_mac
    /\ open_ports'   = IF q = "ports" THEN {} ELSE open_ports
    /\ UNCHANGED frames

\* tshark gives up, on a damaged frame say; its exit status is not looked at.
BreaksOff(q) ==
    /\ Bounded
    /\ asking' = asking \ {q}
    /\ UNCHANGED <<frames, heard, pending, results, ip_to_mac, ip_pkt_count, open_ports>>

PcapNext ==
    \/ \E f \in Frames : ReadFrame(f)
    \/ \E q \in asking : TimesOut(q) \/ BreaksOff(q)

PcapSpec == PcapInit /\ [][PcapNext]_pcapVars

\* The devices of the result; the ports of an address are those it answered on.
ResultDevices ==
    {[ip |-> a, packets |-> ip_pkt_count[a],
      mac |-> IF a \in DOMAIN ip_to_mac THEN ip_to_mac[a] ELSE "",
      ports |-> {p[2] : p \in {r \in open_ports : r[1] = a}}] : a \in DOMAIN ip_pkt_count}

-----------------------------------------------------------------------------
(* Properties, of the part of the capture that the question concerned got    *)
(* through, before it timed out or broke off.                                *)

\* Who talks with whom, whatever is printed; and whether the line tells.
Talk(q, f) ==
    IF q = "tls" THEN f.tag
    ELSE IF f.kind = "query" THEN <<f.src, f.dst, f.tag>> ELSE <<f.dst, f.src, f.tag>>
Tells(q, f) == IF q = "tls" THEN f.tag # NoStream ELSE f.src \in Ipv4 /\ f.dst \in Ipv4

\* The messages of i's talk between the frames i and j.
Between(q, i, j) ==
    {k \in i + 1 .. j - 1 : /\ frames[k].kind \in {Asks(q), Answers(q)}
                            /\ Talk(q, frames[k]) = Talk(q, frames[i])}

\* i asks, j answers, and their lines can be read.
Fit(q, i, j) ==
    /\ i < j /\ frames[i].plain /\ frames[j].plain
    /\ frames[i].kind = Asks(q) /\ frames[j].kind = Answers(q)

\* Every latency in the result is that of an answer and the last query of its
\* talk, however often queries are sent again, ids are reused, answers come
\* twice or the capture begins in the middle; only a message in between that
\* cannot be read goes unseen.  Talks over IPv6, and handshakes without a TCP
\* stream, are told apart by id at most.
LatenciesAreRight ==
    \A q \in Pairings :
        /\ results[q] \subseteq (1 .. heard[q]) \X (1 .. heard[q])
        /\ \A i, j \in 1 .. heard[q] :
             IF Tells(q, frames[i])
             THEN <<i, j>> \in results[q] <=>
                      /\ Fit(q, i, j) /\ Talk(q, frames[i]) = Talk(q, frames[j])
                      /\ \A k \in Between(q, i, j) : ~frames[k].plain
             ELSE <<i, j>> \in results[q] =>
                      Fit(q, i, j) /\ frames[i].tag = frames[j].tag /\ ~Tells(q, frames[j])

SentBy(a) == {i \in 1 .. heard["addresses"] : frames[i].src = a}

\* The devices are the IPv4 senders, servers too, with their frames, their first
\* MAC and the ports they answered on.
DevicesAreSenders ==
    /\ {d.ip : d \in ResultDevices} = {a \in Ipv4 : SentBy(a) # {}}
    /\ \A d \in ResultDevices :
         /\ d.packets = Cardinality(SentBy(d.ip))
         /\ d.ports = {frames[i].tag : i \in {j \in 1 .. heard["ports"] :
                                                frames[j].src = d.ip /\ frames[j].kind = "syn_ack"}}
         /\ \/ d.mac = "" /\ \A i \in SentBy(d.ip) : frames[i].mac = ""
            \/ \E i \in SentBy(d.ip) : /\ d.mac = frames[i].mac /\ d.mac # ""
                                       /\ \A j \in SentBy(d.ip) : j < i => frames[j].mac = ""

AnswersArePaired == LatenciesAreRight /\ DevicesAreSenders
===============================================================================
