--------------------------- MODULE ContactDetectors ---------------------------
(***************************************************************************)
(* The detectors that look at who is contacted rather than how often        *)
(* (detector/): beaconing, which looks for contacts at a steady pace;        *)
(* new_ip, which reports addresses not seen during the baseline; and the     *)
(* detectors of a remote list (base.py, malware_domain, adult_domain,        *)
(* tracker_domain, tor_exit), whose list a thread downloads anew meanwhile.  *)
(* A tick of the clock is a fraction of a second.                            *)
(***************************************************************************)
EXTENDS Integers, FiniteSets, FiniteSetsExt, Functions

CONSTANTS
    Inside,        \* local addresses
    Outside,       \* routable ones
    NonRoutable,   \* multicast, broadcast and link-local ones
    Second,        \* ticks of a second
    BeaconWindow, MinContacts, MinInterval, MaxInterval, MaxJitter,  \* MaxJitter in per cent
    BeaconRest,    \* alert_window_seconds of beaconing
    Baseline,      \* baseline_period
    Lines,         \* lines a download may have: kind and name
    Extras,        \* extra_domains: names
    Lookups,       \* names that packets look up
    ListRest,      \* alert_window_seconds of the lists
    LastInstant    \* bound: the end of time

ASSUME ContactAssumption ==
    /\ Second \in Nat \ {0} /\ MinContacts \in Nat \ {0, 1}
    /\ {BeaconWindow, MinInterval, MaxInterval, MaxJitter, BeaconRest,
        Baseline, ListRest, LastInstant} \subseteq Nat

Addresses == Inside \cup Outside \cup NonRoutable

VARIABLES
    instant,
    contacts, beaconed,     \* _contacts and _alerted of beaconing, per pair
    packets, beacons,       \* history: times of packets, times of alerts, per pair
    known, announced,       \* _known_ips; history: how often an address was reported
    settled,                \* history: the addresses of packets within the baseline
    items, listed_at,       \* _items and _alerted of each list
    feed, due, told         \* history: last good download; contacts to report; alerts

beaconVars  == <<contacts, beaconed, packets, beacons>>
newIpVars   == <<known, announced, settled>>
listVars    == <<items, listed_at, feed, due, told>>
contactVars == <<instant, beaconVars, newIpVars, listVars>>

Lists == {"hosts", "malware", "tor"}
Pairs == Addresses \X Addresses

ContactInit ==
    /\ instant = 0
    /\ contacts = [p \in Pairs |-> {}] /\ packets = contacts
    /\ beaconed = [p \in Pairs |-> {}] /\ beacons = beaconed
    /\ known = {} /\ settled = {} /\ announced = [a \in Addresses |-> 0]
    /\ items = [l \in Lists |-> {}]
    /\ listed_at = [l \in Lists |-> {}]
    /\ feed = [l \in Lists |-> {}] /\ due = {} /\ told = {}

-----------------------------------------------------------------------------
(* Beaconing.  Sums over the gaps between the contacts: with n gaps that    *)
(* sum to S and whose squares sum to Q, the mean is S/n and the square of    *)
(* the coefficient of variation (n Q - S^2) / S^2.                           *)

LocalToExternal(p) == p[1] \in Inside /\ p[2] \in Outside

Folded(C)   == C # {} /\ instant - Max(C) < Second
WithinBeaconWindow(C) == {c \in C : c >= instant - BeaconWindow}

GapBefore(C, c) == c - Max({d \in C : d < c})
Later(C)        == C \ {Min(C)}
GapSum(C)       == SumFunction([c \in Later(C) |-> GapBefore(C, c)])
SquareSum(C)    == SumFunction([c \in Later(C) |-> GapBefore(C, c) * GapBefore(C, c)])

Steady(C) ==
    LET n == Cardinality(C) - 1
        S == GapSum(C)
    IN  /\ n + 1 >= MinContacts
        /\ n * MinInterval <= S /\ S <= n * MaxInterval /\ S > 0
        /\ 10000 * (n * SquareSum(C) - S * S) <= MaxJitter * MaxJitter * S * S

RestsTooLong(stamps, span) == \E s \in stamps : instant - s <= span    \* mutant

Rests(stamps, span) == \E s \in stamps : instant - s < span

\* A packet of another pair is none of its business.
ProcessBeacon(p) ==
    /\ LocalToExternal(p)
    /\ packets' = [packets EXCEPT ![p] = @ \cup {instant}]
    /\ IF Folded(contacts[p])
       THEN UNCHANGED <<contacts, beaconed, beacons>>
       ELSE LET C == WithinBeaconWindow(contacts[p] \cup {instant})
            IN  /\ contacts' = [contacts EXCEPT ![p] = C]
                /\ IF Steady(C) /\ ~Rests(beaconed[p], BeaconRest)
                   THEN /\ beaconed' = [beaconed EXCEPT ![p] = {instant}]
                        /\ beacons' = [beacons EXCEPT ![p] = @ \cup {instant}]
                   ELSE UNCHANGED <<beaconed, beacons>>
    /\ UNCHANGED <<instant, newIpVars, listVars>>

FlushBeacons ==
    /\ contacts' = [p \in Pairs |-> WithinBeaconWindow(contacts[p])]
    /\ beaconed' = [p \in Pairs |-> {s \in beaconed[p] : s >= instant - BeaconRest}]
    /\ UNCHANGED <<instant, packets, beacons, newIpVars, listVars>>

-----------------------------------------------------------------------------
(* New addresses: both are remembered, the first of them is reported.       *)

InBaseline == instant < Baseline

ProcessNewIp(src, dst) ==
    LET new   == {src, dst} \ known
        first == IF src \in new THEN src ELSE dst
    IN  /\ known' = known \cup new
        /\ announced' = IF new = {} \/ InBaseline THEN announced
                        ELSE [announced EXCEPT ![first] = @ + 1]
        /\ settled' = IF InBaseline THEN settled \cup {src, dst} ELSE settled
        /\ UNCHANGED <<instant, beaconVars, listVars>>

-----------------------------------------------------------------------------
(* Remote lists.  A line of a hosts file names an address and a domain, a   *)
(* bare line one thing only; the rest are comments.                          *)

Strip(n) == [n EXCEPT !.dot = FALSE]

Parse(l, L) ==
    LET pair == {line.name : line \in {m \in L : m.kind = "pair"}}
        bare == {line.name : line \in {m \in L : m.kind = "bare"}}
    IN  CASE l = "hosts"   -> pair \cup Extras
          [] l = "malware" -> {Strip(n) : n \in pair \cup bare} \cup Extras
          [] l = "tor"     -> {n.label : n \in bare}

\* The download takes long; the set is replaced in one assignment.
Refresh(l, L) ==
    /\ items' = [items EXCEPT ![l] = Parse(l, L)]
    /\ feed' = [feed EXCEPT ![l] = {L}]
    /\ UNCHANGED <<instant, beaconVars, newIpVars, listed_at, due, told>>

\* A download that fails, at the start too, leaves the set as it is.
RefreshFails == UNCHANGED contactVars

\* What a packet is matched by and under which key alerts are held back: a name
\* for the domain lists, an address for the list of exit nodes.
Matches(l, src, dst, name, I) ==
    CASE l # "tor" /\ Strip(name) \in I -> {<<src, Strip(name)>>}
      [] l = "tor" /\ src \in I         -> {<<src>>}
      [] l = "tor" /\ src \notin I /\ dst \in I -> {<<dst>>}
      [] OTHER -> {}

Quieted(l, k) == \E e \in listed_at[l] : e.key = k /\ instant - e.at < ListRest

ProcessList(l, src, dst, name) ==
    LET hits == {k \in Matches(l, src, dst, name, items[l]) : ~Quieted(l, k)}
        owed == UNION {Matches(l, src, dst, name, Parse(l, L)) : L \in feed[l]}
    IN  /\ listed_at' = [listed_at EXCEPT ![l] = {e \in @ : e.key \notin hits}
                                                 \cup {[key |-> k, at |-> instant] : k \in hits}]
        /\ told' = told \cup {<<l, k, instant>> : k \in hits}
        /\ due' = due \cup {<<l, k, instant>> : k \in owed}
        /\ UNCHANGED <<instant, beaconVars, newIpVars, items, feed>>

FlushLists ==
    /\ listed_at' = [l \in Lists |-> {e \in listed_at[l] : instant - e.at < ListRest}]
    /\ UNCHANGED <<instant, beaconVars, newIpVars, items, feed, due, told>>

InstantPasses ==
    /\ instant < LastInstant
    /\ instant' = instant + 1
    /\ UNCHANGED <<beaconVars, newIpVars, listVars>>

BeaconNext == (\E p \in Pairs : ProcessBeacon(p)) \/ FlushBeacons
NewIpNext  == \E s, d \in Addresses : ProcessNewIp(s, d)
ListNext(l) ==
    \/ \E L \in SUBSET Lines : Refresh(l, L)
    \/ \E s, d \in Addresses, n \in Lookups : ProcessList(l, s, d, n)
    \/ FlushLists

ContactNext ==
    \/ BeaconNext \/ NewIpNext \/ InstantPasses \/ RefreshFails
    \/ \E l \in Lists : ListNext(l)

ContactSpec == ContactInit /\ [][ContactNext]_contactVars

-----------------------------------------------------------------------------
(* Properties.                                                              *)

\* A beacon of bursts: from its first packet on, a burst shorter than a second
\* begins every "pace" ticks and nothing else is seen.
Beacon(W, pace) ==
    /\ \A c \in W : (c - Min(W)) % pace < Second
    /\ \A c \in Min(W) .. Max(W) : (c - Min(W)) % pace = 0 => c \in W
    /\ (Max(W) - Min(W)) % pace = 0

\* Whoever is contacted at a steady pace, by bursts of packets, is reported
\* within the alert window of each burst: folding, trimming, flushing and the
\* arithmetic lose no beacon.  (Nothing is said of windows whose first contact a
\* packet less than a second before may have swallowed.)
PeriodicIsFlagged ==
    \A p \in Pairs :
        \A t \in packets[p] :
            LET W == {c \in packets[p] : t - BeaconWindow <= c /\ c <= t}
            IN  (\E pace \in {q \in MinInterval .. MaxInterval : q > Second} :
                    /\ Beacon(W, pace)
                    /\ (t - Min(W)) \div pace + 1 >= MinContacts
                    /\ ~\E c \in packets[p] : Min(W) - Second < c /\ c < Min(W))
                => \E s \in beacons[p] : s = t \/ (t - BeaconRest < s /\ s <= t)

\* No address is reported twice, and none that the baseline has seen.
NewIsReportedOnce ==
    \A a \in Addresses : announced[a] <= (IF a \in settled THEN 0 ELSE 1)

\* What the last good download or the configuration lists is reported, unless
\* it was within the alert window before, whatever downloads fail in between.
ListedIsReported ==
    \A d \in due : \E s \in 0 .. d[3] :
        <<d[1], d[2], s>> \in told /\ (s = d[3] \/ d[3] - s < ListRest)

ContactsAreReported == PeriodicIsFlagged /\ NewIsReportedOnce /\ ListedIsReported
===============================================================================
