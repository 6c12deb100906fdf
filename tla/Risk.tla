--------------------------------- MODULE Risk ---------------------------------
(***************************************************************************)
(* The risk register of the portal (grc/risk.py, _build_grc_assessment):     *)
(* the inventory's ports, the alerts in events.db, the verdicts in           *)
(* forensics.db and the operator's list of verified devices are folded into  *)
(* a score for each device and a result for each of five controls.  The      *)
(* variables are those four sources; the register is computed anew for each  *)
(* request.                                                                  *)
(***************************************************************************)
EXTENDS Integers, FiniteSets, SequencesExt

CONSTANTS
    Hosts,          \* the addresses in the inventory
    Peers,          \* those that are external
    NotAssets,      \* multicast, broadcast, loopback and the like
    Sensor,         \* the host the portal runs on
    Ports,          \* per host, the ports that may be observed
    Grades,         \* levels of the alerts, 1 (LOW) to 4 (CRITICAL)
    MaxLog,         \* bound: alerts in events.db
    MaxFindings     \* bound: cases in forensics.db

NoMore == 65536    \* beyond every port

ASSUME RiskAssumption ==
    /\ Peers \subseteq Hosts /\ NotAssets \subseteq Hosts
    /\ Ports \in [Hosts -> SUBSET (1 .. NoMore - 1)] /\ Grades \subseteq 1 .. 4
    /\ MaxLog \in Nat /\ MaxFindings \in Nat

VARIABLES
    observed,   \* per host in the inventory, its ports_observed
    log,        \* the alerts: level, source, destination
    findings,   \* the verdicts of cases: source, destination, verdict
    verified    \* verified.json

riskVars == <<observed, log, findings, verified>>

LogEntry == [level : Grades, src : Hosts, dst : Hosts]
Finding  == [src : Hosts, dst : Hosts, verdict : {"benign", "suspicious", "malicious"}]

RiskTypeOK ==
    /\ DOMAIN observed \subseteq Hosts /\ \A h \in DOMAIN observed : observed[h] \subseteq Ports[h]
    /\ log \in Seq(LogEntry)
    /\ findings \subseteq Finding
    /\ verified \subseteq Hosts

RiskInit ==
    /\ observed = [h \in {} |-> {}]
    /\ log = << >> /\ findings = {} /\ verified = {}

-----------------------------------------------------------------------------
(* What the monitor and the operator do to the sources.                     *)

Enlist(h) ==
    /\ h \notin DOMAIN observed
    /\ observed' = [x \in DOMAIN observed \cup {h} |-> IF x = h THEN {} ELSE observed[x]]
    /\ UNCHANGED <<log, findings, verified>>

Observe(h, p) ==
    /\ h \in DOMAIN observed
    /\ observed' = [observed EXCEPT ![h] = @ \cup {p}]
    /\ UNCHANGED <<log, findings, verified>>

LogAlert(e) ==
    /\ Len(log) < MaxLog
    /\ log' = Append(log, e)
    /\ UNCHANGED <<observed, findings, verified>>

RecordVerdict(f) ==
    /\ Cardinality(findings) < MaxFindings
    /\ findings' = findings \cup {f}
    /\ UNCHANGED <<observed, log, verified>>

\* One request both ways: marking verified, and taking that back.
SetVerified(h) ==
    /\ verified' = IF h \in verified THEN verified \ {h} ELSE verified \cup {h}
    /\ UNCHANGED <<observed, log, findings>>

RiskNext ==
    \/ \E h \in Hosts : Enlist(h) \/ \E p \in Ports[h] : Observe(h, p)
    \/ \E e \in LogEntry : LogAlert(e)
    \/ \E f \in Finding : RecordVerdict(f)
    \/ \E h \in Hosts : SetVerified(h)

RiskSpec == RiskInit /\ [][RiskNext]_riskVars

-----------------------------------------------------------------------------
(* The facts about a host.                                                  *)

\* Severity goes to the source; a host that is only the target of an alert
\* has it counted.
WorstLevel(h, L)  == LET mine == {L[i].level : i \in {j \in DOMAIN L : L[j].src = h}}
                     IN  CHOOSE m \in mine \cup {0} : \A n \in mine : n <= m
AlertCount(h, L) == Cardinality({i \in DOMAIN L : h \in {L[i].src, L[i].dst}})

\* The worst verdict of the cases a host is in, at either end.
VerdictOf(h) ==
    LET mine == {f.verdict : f \in {g \in findings : h \in {g.src, g.dst}}}
    IN  CASE "malicious" \in mine -> "malicious"
          [] "malicious" \notin mine /\ "suspicious" \in mine -> "suspicious"
          [] OTHER -> "unknown"

\* _PORT_NAMES above 1023: a port above 1023 is a service only if it has a name.
NamedPorts == {1194, 1433, 1883, 2049, 2375, 2376, 3000, 3306, 3389, 5353, 5432, 5900, 6379,
               8080, 8443, 8765, 8766, 9090, 9100, 27017, 51820}
Services(h) == {p \in observed[h] : p < 1024 \/ p \in NamedPorts}

\* _drop_scan_runs: the ports are gone through in order; the run of consecutive
\* ports that begins at p is kept if it is short, and the search goes on behind
\* it.
OneMore == 5    \* mutant

RunThreshold == 4

RunEnd(S, p) == CHOOSE q \in S : p .. q \subseteq S /\ p <= q /\ q + 1 \notin S
Behind(S, q) == Min({r \in S : r > q} \cup {NoMore})

DropScanRuns(S) ==
    LET kept[p \in S \cup {NoMore}] ==
            IF p = NoMore THEN {}
            ELSE (IF RunEnd(S, p) - p + 1 < RunThreshold THEN p .. RunEnd(S, p) ELSE {})
                     \cup kept[Behind(S, RunEnd(S, p))]
    IN  kept[Behind(S, 0)]

-----------------------------------------------------------------------------
(* assess_device.                                                           *)

Weight(p) ==
    CASE p = 23 -> 25
      [] p \in {512, 3389} -> 20
      [] p \in {445, 5900} -> 18
      [] p = 21 -> 15
      [] p \in {139, 161, 1433} -> 12
      [] p \in {135, 3306, 5432} -> 10
      [] p = 25 -> 6
      [] OTHER -> 0

AtMost(bound, n) == IF n > bound THEN bound ELSE n

Exposure(ports) ==
    AtMost(60, SumFunction([p \in ports |-> Weight(p)])
                   + (IF Cardinality(ports) > 5 THEN Cardinality(ports) - 5 ELSE 0))

LevelScore(level) == CASE level = 0 -> 0 [] level = 1 -> 5 [] level = 2 -> 15
                       [] level = 3 -> 30 [] level = 4 -> 40

Threat(level, count) == AtMost(55, LevelScore(level) + 2 * AtMost(10, count))

Intel(verdict, external) ==
    CASE external /\ verdict = "malicious" -> 40
      [] external /\ verdict = "suspicious" -> 20
      [] OTHER -> 0

\* A verified device keeps 85 per cent of its risk, rounded down.
DeviceScore(ports, level, count, verdict, known, external) ==
    LET raw == Exposure(ports) + Threat(level, count) + Intel(verdict, external)
    IN  AtMost(100, IF known THEN (raw * 85) \div 100 ELSE raw)

RiskLevel(score) ==
    CASE score >= 75 -> "critical"
      [] score \in 50 .. 74 -> "high"
      [] score \in 25 .. 49 -> "medium"
      [] OTHER -> "low"

-----------------------------------------------------------------------------
(* _build_grc_assessment, given the alerts L and the verified devices V.    *)

Register == {h \in DOMAIN observed : h \notin NotAssets /\ h # Sensor}
Owned    == Register \ Peers

Score(h, L, V) ==
    DeviceScore(DropScanRuns(Services(h)), WorstLevel(h, L), AlertCount(h, L),
                VerdictOf(h), h \in V, h \in Peers)

Exposing(P) == {h \in Owned : DropScanRuns(Services(h)) \cap P # {}}
AtRisk(L, V) == {h \in Register : RiskLevel(Score(h, L, V)) \in {"high", "critical"}}

\* assess_controls: per control, pass, warn or fail.
Controls(L, V) ==
    [inventory |-> IF Owned = {} THEN "warn"
                   ELSE IF 10 * Cardinality(Owned \cap V) >= 9 * Cardinality(Owned) THEN "pass"
                   ELSE IF 2 * Cardinality(Owned \cap V) >= Cardinality(Owned) THEN "warn" ELSE "fail",
     services  |-> IF Exposing({21, 23, 161, 512}) # {} THEN "fail" ELSE "pass",
     admin     |-> IF Exposing({22, 23, 3389, 5900}) \ V # {} THEN "fail" ELSE "pass",
     logging   |-> IF L # << >> THEN "pass" ELSE "warn",
     defense   |-> IF AtRisk(L, V) # {} THEN "fail" ELSE "pass"]

Compliance(L, V) ==
    LET results == Controls(L, V)
    IN  20 * Cardinality({c \in DOMAIN results : results[c] = "pass"})

-----------------------------------------------------------------------------
(* Properties.                                                              *)

\* A device is not scored for what others did: lowering the level of every
\* alert in which it is not the source leaves its score as it is, and so,
\* for a device of one's own, does whatever verdict was found on the peers
\* it met.
Mild(h) == [i \in DOMAIN log |-> IF log[i].src = h THEN log[i] ELSE [log[i] EXCEPT !.level = 1]]

BlameIsFair ==
    \A h \in Register :
        /\ Score(h, log, verified) = Score(h, Mild(h), verified)
        /\ h \notin Peers => Intel(VerdictOf(h), h \in Peers) = 0
        /\ (/\ h \notin Peers /\ Services(h) = {}
            /\ \A i \in DOMAIN log : log[i].src # h) => RiskLevel(Score(h, log, verified)) = "low"

\* Whatever the ports, what is dropped is exactly what belongs to a block of
\* four or more consecutive ones.
OnlyRunsAreDropped ==
    \A h \in DOMAIN observed :
        LET S == Services(h)
        IN  DropScanRuns(S) =
                {p \in S : ~\E first \in p - 3 .. p : first .. first + 3 \subseteq S}

\* Vouching for a device never makes anything look worse.
VerifyingHelps ==
    \A h \in Register :
        /\ Compliance(log, verified \cup {h}) >= Compliance(log, verified)
        /\ \A g \in Register : Score(g, log, verified \cup {h}) <= Score(g, log, verified)

RegisterIsSound == BlameIsFair /\ OnlyRunsAreDropped /\ VerifyingHelps
===============================================================================
