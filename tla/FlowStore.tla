------------------------------- MODULE FlowStore -------------------------------
(***************************************************************************)
(* flows.db (reports/flow_store.py): a report stores the flows it captured  *)
(* and drops those that are too old; the analytics page (query_analytics)    *)
(* and the portal (_query_flows_endpoint) group and list the rest.  Where     *)
(* amounts are equal, an ORDER BY ... LIMIT may keep either: a query with a  *)
(* limit is given as the set of its possible answers.                         *)
(***************************************************************************)
EXTENDS FlowCapture

CONSTANTS
    KeepFlows,         \* _RETENTION_HOURS
    DayHours,          \* hours in a day
    DeviceLimit,       \* the limits of the lists: devices,
    DestinationLimit,  \* destinations,
    PortLimit,         \* ports,
    DrillFlows,        \* and flows of one device
    StoreHorizon       \* bound: the last hour

ASSUME FlowStoreAssumption ==
    /\ DayHours \in Nat \ {0} /\ KeepFlows \in Nat /\ StoreHorizon \in Nat
    /\ {DeviceLimit, DestinationLimit, PortLimit, DrillFlows} \subseteq Nat \ {0}

VARIABLES
    oclock,    \* the time
    rows,      \* the table flows: a row per report and key
    reports,   \* history: the number of reports stored
    reported   \* history: per stored report and line, the packet and the time

storeVars == <<captureVars, oclock, rows, reports, reported>>

StoreInit ==
    /\ CaptureInit /\ oclock = 0 /\ reports = 0
    /\ rows = [i \in {} |-> 0] /\ reported = [j \in {} |-> 0]

NewCapture ==
    /\ lines' = << >>
    /\ flows' = [k \in {} |-> 0]
    /\ domain_hints' = [k \in {} |-> ""]

StoredRow(k) == [at |-> oclock, key |-> k, bytes |-> flows[k].bytes,
                 packets |-> flows[k].packets, name |-> DomainOf(k)]

Captured == {i \in DOMAIN lines : lines[i].src \in Network}

TooOld(r) == r.at + KeepFlows < oclock

\* One transaction.  A capture without flows is not stored at all.
InsertReport ==
    LET new   == {reports + 1} \X DOMAIN flows
        table == [i \in DOMAIN rows \cup new |-> IF i \in new THEN StoredRow(i[2]) ELSE rows[i]]
        heard == {reports + 1} \X Captured
    IN  /\ flows # [k \in {} |-> 0]
        /\ rows' = [i \in {r \in DOMAIN table : ~TooOld(table[r])} |-> table[i]]
        /\ reports' = reports + 1
        /\ reported' = [j \in DOMAIN reported \cup heard |->
                           IF j \in heard THEN [packet |-> lines[j[2]], at |-> oclock] ELSE reported[j]]
        /\ NewCapture
        /\ UNCHANGED oclock

\* Nothing was captured, or the database cannot be written: a warning.
DropReport ==
    /\ lines # << >>
    /\ NewCapture
    /\ UNCHANGED <<oclock, rows, reports, reported>>

HourPasses ==
    /\ oclock < StoreHorizon
    /\ oclock' = oclock + 1
    /\ UNCHANGED <<captureVars, rows, reports, reported>>

ReadLine ==
    /\ Cardinality(DOMAIN reported) + Len(lines) < MaxPackets
    /\ CaptureNext
    /\ UNCHANGED <<oclock, rows, reports, reported>>

StoreNext == ReadLine \/ InsertReport \/ DropReport \/ HourPasses

StoreSpec == StoreInit /\ [][StoreNext]_storeVars

-----------------------------------------------------------------------------
(* The queries.                                                             *)

All == DOMAIN rows

\* The columns a query can group by.
Device      == [i \in All |-> rows[i].key[1][1]]
Destination == [i \in All |-> rows[i].key[1][2]]
Port        == [i \in All |-> rows[i].key[1][3]]
Protocol    == [i \in All |-> rows[i].key[2]]

Bytes(I) == SumFunction([i \in I |-> rows[i].bytes])

Groups(By, I)     == {By[i] : i \in I}
BytesOf(By, I, g) == Bytes({i \in I : By[i] = g})

\* GROUP BY ... ORDER BY bytes DESC LIMIT n
Listings(By, I, n) ==
    LET groups == Groups(By, I)
        size   == IF Cardinality(groups) < n THEN Cardinality(groups) ELSE n
    IN  {L \in kSubset(size, groups) :
            \A g \in L, h \in groups \ L : BytesOf(By, I, h) <= BytesOf(By, I, g)}

Totals == [flows |-> Cardinality(All), bytes |-> Bytes(All),
           packets |-> SumFunction([i \in All |-> rows[i].packets])]

TopDevices      == Listings(Device, All, DeviceLimit)
TopDestinations == Listings(Destination, All, DestinationLimit)

\* The flows of one device, by destination and protocol.
DrillDown(d) == Listings([i \in All |-> <<Destination[i], Protocol[i]>>],
                         {i \in All : Device[i] = d}, DrillFlows)

\* Where one device sends most ("why" it is the first of the list), and the one
\* destination that every listed device is shown with.
DestinationsOf(d, n) == Listings(Destination, {i \in All : Device[i] = d}, n)
MainDestination(d) == DestinationsOf(d, 1)

\* The ports with the most bytes, then several ports under one name.
AppName(p) == IF p = 587 THEN 25 ELSE p    \* SMTP
TopApps == {[a \in {AppName(p) : p \in L} |->
                SumFunction([p \in {q \in L : AppName(q) = a} |-> BytesOf(Port, All, p)])] :
              L \in Listings(Port, All, PortLimit)}

\* "The last 24 hours" of the portal: the times are compared as text, a row's
\* with a T and the limit's with a blank between date and hour, so that of the
\* limit's day every row is taken.  The hours of both days are added up.
ShownHourly == {i \in All : rows[i].at \div DayHours + 1 >= oclock \div DayHours}
Hourly      == [h \in {rows[i].at % DayHours : i \in ShownHourly} |->
                  Bytes({i \in ShownHourly : rows[i].at % DayHours = h})]

-----------------------------------------------------------------------------
(* Properties.                                                              *)

\* What the pages say of the traffic is what was captured by the reports that
\* were stored within the retention, counted back from the last of them: in
\* all, by protocol and by device, whichever flows the packets were spread
\* over; a device left out has sent no more than one that is listed; the
\* details of a device, and the applications, never exceed what it sent, and
\* fall short only by what the limits cut off; and the portal's last day has
\* every row of the last day and none that is two days old.
ReportsAddUp ==
    LET recent == {j \in DOMAIN reported :
                     \A k \in DOMAIN reported : reported[k].at <= reported[j].at + KeepFlows}
        Sent(J) == SumFunction([j \in J |-> reported[j].packet.len])
        Proto(j) == ResolveProtocol(reported[j].packet.proto, reported[j].packet.port)
        From(d) == {j \in recent : reported[j].packet.src = d}
    IN  /\ Totals.bytes = Sent(recent) /\ Totals.packets = Cardinality(recent)
        /\ \A q \in {Proto(j) : j \in recent} :
               BytesOf(Protocol, All, q) = Sent({j \in recent : Proto(j) = q})
        /\ \A L \in TopDevices : \A d \in L :
               /\ BytesOf(Device, All, d) = Sent(From(d))
               /\ \A e \in Network \ L : Sent(From(e)) <= Sent(From(d))
        /\ \A L \in TopDestinations : \A d \in L :
               BytesOf(Destination, All, d) = Sent({j \in recent : reported[j].packet.dst = d})
        /\ \A d \in Groups(Device, All) : \A L \in DrillDown(d) :
               LET told == {i \in All : Device[i] = d /\ <<Destination[i], Protocol[i]>> \in L}
               IN  /\ Bytes(told) <= Sent(From(d))
                   /\ Cardinality(L) < DrillFlows => Bytes(told) = Sent(From(d))
        /\ \A d \in Groups(Device, All) :
               \A L \in DestinationsOf(d, DestinationLimit) \cup MainDestination(d) : \A t \in L :
                   /\ \E j \in From(d) : reported[j].packet.dst = t
                   /\ Cardinality(Groups(Destination, All)) = 1 =>
                          BytesOf(Destination, {i \in All : Device[i] = d}, t) = Sent(From(d))
        /\ \A A \in TopApps : \A a \in DOMAIN A :
               LET used == {j \in recent : AppName(reported[j].packet.port) = a}
               IN  /\ A[a] <= Sent(used)
                   /\ Cardinality(Groups(Port, All)) <= PortLimit => A[a] = Sent(used)
        /\ \A i \in All :
               /\ rows[i].at > oclock - DayHours => i \in ShownHourly
               /\ i \in ShownHourly => rows[i].at > oclock - 2 * DayHours
        /\ SumFunction(Hourly) = Bytes(ShownHourly)

\* From the packets to the pages nothing is lost or counted twice.
FlowsAddUp == PartsAddUp /\ ReportsAddUp
===============================================================================
