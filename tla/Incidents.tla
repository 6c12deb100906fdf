------------------------------- MODULE Incidents -------------------------------
(***************************************************************************)
(* Incident cases (alerts/forensic_handler.py, forensics/store.py and       *)
(* capture.py, enrich/reputation.py) and their triage in the portal.  The   *)
(* monitor opens or correlates a case for an alert and starts a task that   *)
(* captures packets, asks for the reputation of the address and stores both *)
(* in the case's row; the portal, another process, sets the row's status,   *)
(* priority and assignee meanwhile.                                         *)
(***************************************************************************)
EXTENDS Reputation, FiniteSets, FiniteSetsExt

CONSTANTS
    Threats,        \* records: type, src, dst, level
    ExternalIps,      \* the addresses that are not private
    NoAddress,     \* an alert need not have both addresses
    MinLevel,      \* min_level, as a number
    Cooldown,      \* cooldown_seconds
    Correlation,   \* correlation_seconds
    CaseLife,      \* retention_days
    Requested,     \* statuses and priorities an operator may ask for
    Assignees,     \* who a case may be given to
    Confidences,   \* what AbuseIPDB may answer
    Engines,       \* how many engines VirusTotal may count
    MaxCases,      \* bound: cases ever opened
    MaxTasks,      \* bound: collections ever started
    CaseHorizon    \* bound: the last moment

ASSUME CaseAssumption ==
    /\ \A a \in Threats : a.level \in 1 .. 4
    /\ Cooldown \in Nat /\ Correlation \in Nat /\ CaseLife \in Nat
    /\ MaxCases \in Nat /\ MaxTasks \in Nat /\ CaseHorizon \in Nat
    /\ Confidences \subseteq Nat /\ Engines \subseteq Nat

VARIABLES
    time,      \* seconds, coarsely
    cooled,    \* _cooldown: per address, when its last case was touched
    cases,     \* the rows of forensics.db, by id
    nextCase,  \* AUTOINCREMENT
    tasks,     \* the collections under way, by number
    nextTask

caseVars == <<time, cooled, cases, nextCase, tasks, nextTask>>

Statuses   == {"open", "reviewed", "false_positive"}
Priorities == {"low", "medium", "high", "critical"}
LevelPriority == <<"low", "medium", "high", "critical">>

\* Two alerts belong to the same case by type and addresses.
CaseKey(a) == <<a.type, a.src, a.dst>>
CaseKeys   == {CaseKey(a) : a \in Threats}

\* The external address if there is one, the destination first.
PickTarget(a) ==
    CASE a.dst \in ExternalIps -> a.dst
      [] a.dst \notin ExternalIps /\ a.src \in ExternalIps -> a.src
      [] OTHER -> IF a.src # NoAddress THEN a.src ELSE a.dst

Targeted == {PickTarget(a) : a \in Threats} \ {NoAddress}

\* A row; "touched" remembers that the portal has ever set its status.
Case == [key : CaseKeys, created : Nat, lastSeen : Nat, hits : Nat, status : Statuses,
         priority : Priorities, assignee : Assignees \cup {""}, pcap : BOOLEAN,
         opinion : [verdict : Verdicts, score : Nat], touched : BOOLEAN]

Task == [case : Nat, target : Targeted, stage : {"capture", "enrich"}, pcap : BOOLEAN]

CaseTypeOK ==
    /\ time \in Nat /\ nextCase \in Nat /\ nextTask \in Nat
    /\ DOMAIN cooled \subseteq Targeted
    /\ cooled \in [DOMAIN cooled -> Nat]
    /\ DOMAIN cases \subseteq 1 .. nextCase
    /\ cases \in [DOMAIN cases -> Case]
    /\ DOMAIN tasks \subseteq 1 .. nextTask
    /\ tasks \in [DOMAIN tasks -> Task]

NoRows == [x \in {} |-> 0]

CaseInit ==
    /\ time = 0
    /\ cooled = NoRows /\ cases = NoRows /\ tasks = NoRows
    /\ nextCase = 0 /\ nextTask = 0

-----------------------------------------------------------------------------
(* The monitor: an alert.                                                   *)

Put(f, x, y) == [z \in DOMAIN f \cup {x} |-> IF z = x THEN y ELSE f[z]]
Without(f, x) == [z \in DOMAIN f \ {x} |-> f[z]]

Admitted(a) ==
    /\ a.level >= MinLevel
    /\ PickTarget(a) # NoAddress
    /\ PickTarget(a) \in DOMAIN cooled => time - cooled[PickTarget(a)] >= Cooldown

\* mutant: an alert at the very end of the window opens a case of its own
CorrelatedTooShort(a) ==
    {i \in DOMAIN cases : /\ cases[i].key = CaseKey(a)
                          /\ cases[i].status = "open"
                          /\ cases[i].lastSeen + Correlation > time}

\* Open cases of the alert's key that were seen within the window.
Correlated(a) ==
    {i \in DOMAIN cases : /\ cases[i].key = CaseKey(a)
                          /\ cases[i].status = "open"
                          /\ cases[i].lastSeen + Correlation >= time}

\* ORDER BY last_seen DESC LIMIT 1 takes one of these.
Latest(I) == {i \in I : \A j \in I : cases[j].lastSeen <= cases[i].lastSeen}

NewCase(a) ==
    [key |-> CaseKey(a), created |-> time, lastSeen |-> time, hits |-> 1, status |-> "open",
     priority |-> LevelPriority[a.level], assignee |-> "", pcap |-> FALSE,
     opinion |-> NoOpinion, touched |-> FALSE]

Correlate(i) ==
    cases' = [cases EXCEPT ![i].hits = @ + 1, ![i].lastSeen = time]

\* A new row, and with it the rows that are too old go.
OpenCase(a) ==
    cases' = LET grown == Put(cases, nextCase + 1, NewCase(a))
                 kept  == {i \in DOMAIN grown : grown[i].created + CaseLife >= time}
             IN  [i \in kept |-> grown[i]]

StartTask(i, t) ==
    /\ nextTask < MaxTasks
    /\ tasks' = Put(tasks, nextTask + 1,
                    [case |-> i, target |-> t, stage |-> "capture", pcap |-> FALSE])
    /\ nextTask' = nextTask + 1

SendForensic(a) ==
    /\ Admitted(a)
    /\ cooled' = Put(cooled, PickTarget(a), time)
    /\ \/ /\ \E i \in Latest(Correlated(a)) : Correlate(i) /\ StartTask(i, PickTarget(a))
          /\ UNCHANGED nextCase
       \/ /\ Correlated(a) = {} /\ nextCase < MaxCases
          /\ OpenCase(a)
          /\ nextCase' = nextCase + 1
          /\ StartTask(nextCase + 1, PickTarget(a))
    /\ UNCHANGED time

\* The store raises: no case, no collection, and the address is cooled down.
SendFails(a) ==
    /\ Admitted(a)
    /\ cooled' = Put(cooled, PickTarget(a), time)
    /\ UNCHANGED <<time, cases, nextCase, tasks, nextTask>>

-----------------------------------------------------------------------------
(* The collection: a capture in a thread, then the providers in a thread,   *)
(* then one UPDATE of the row, which may be gone.                           *)

\* tshark missing, failing, or seeing no packet: no file.
CapturePackets(k) ==
    /\ tasks[k].stage = "capture"
    /\ \E got \in BOOLEAN : tasks' = [tasks EXCEPT ![k].stage = "enrich", ![k].pcap = got]
    /\ UNCHANGED <<time, cooled, cases, nextCase, nextTask>>

\* Any provider may fail, be switched off or be without a key.
ProviderAnswers ==
    [gn : {NoOpinion} \cup {Greynoise(c, n) : c \in {"malicious", "benign", "other"}, n \in BOOLEAN},
     ab : {NoOpinion} \cup {Abuseipdb(c) : c \in Confidences},
     vt : {NoOpinion} \cup {Virustotal(m, u) : m \in Engines, u \in Engines}]

\* An enquiry that raises leaves the verdict unknown.
Opinions(t) ==
    {NoOpinion} \cup {Enrich(t \notin ExternalIps, TRUE, p.gn, p.ab, p.vt) : p \in ProviderAnswers}

\* mutant: the row is written anew
ReplaceRow(i, pcap, o) ==
    cases' = IF i \in DOMAIN cases
             THEN [cases EXCEPT ![i].pcap = pcap, ![i].opinion = o, ![i].status = "open"]
             ELSE cases

UpdateArtifacts(i, pcap, o) ==
    cases' = IF i \in DOMAIN cases
             THEN [cases EXCEPT ![i].pcap = pcap, ![i].opinion = o]
             ELSE cases

EnrichAndStore(k) ==
    /\ tasks[k].stage = "enrich"
    /\ \/ \E o \in Opinions(tasks[k].target) : UpdateArtifacts(tasks[k].case, tasks[k].pcap, o)
       \/ UNCHANGED cases      \* the update fails and is logged
    /\ tasks' = Without(tasks, k)
    /\ UNCHANGED <<time, cooled, nextCase, nextTask>>

\* Cooldowns and collections live in the monitor's memory.
MonitorRestart ==
    /\ DOMAIN cooled # {}
    /\ cooled' = NoRows /\ tasks' = NoRows
    /\ UNCHANGED <<time, cases, nextCase, nextTask>>

-----------------------------------------------------------------------------
(* The portal.                                                              *)

SetIncidentStatus(i, s) ==
    /\ s \in Statuses
    /\ cases' = [cases EXCEPT ![i].status = s, ![i].touched = TRUE]
    /\ UNCHANGED <<time, cooled, nextCase, tasks, nextTask>>

\* The two fields of a triage request are written one after the other; the
\* second may find the row gone.
SetIncidentPriority(i, p) ==
    /\ p \in Priorities
    /\ cases' = [cases EXCEPT ![i].priority = p]
    /\ UNCHANGED <<time, cooled, nextCase, tasks, nextTask>>

SetIncidentAssignee(i, n) ==
    /\ cases' = [cases EXCEPT ![i].assignee = n]
    /\ UNCHANGED <<time, cooled, nextCase, tasks, nextTask>>

Triage ==
    \E i \in DOMAIN cases :
        \/ \E s \in Requested : SetIncidentStatus(i, s)
        \/ \E p \in Requested : SetIncidentPriority(i, p)
        \/ \E n \in Assignees : SetIncidentAssignee(i, n)

CaseTick ==
    /\ time < CaseHorizon
    /\ time' = time + 1
    /\ UNCHANGED <<cooled, cases, nextCase, tasks, nextTask>>

CaseNext ==
    \/ \E a \in Threats : SendForensic(a) \/ SendFails(a)
    \/ \E k \in DOMAIN tasks : CapturePackets(k) \/ EnrichAndStore(k)
    \/ MonitorRestart
    \/ Triage
    \/ CaseTick

CaseSpec == CaseInit /\ [][CaseNext]_caseVars

-----------------------------------------------------------------------------
(* Properties.                                                              *)

\* Decisions are left as they were.
DecisionsStay ==
    \A i \in DOMAIN cases \cap DOMAIN cases' :
        /\ cases'[i].status = cases[i].status
        /\ cases'[i].priority = cases[i].priority
        /\ cases'[i].assignee = cases[i].assignee

\* A row goes only when its life from its creation is over; none comes
\* back, say by the evidence of a case that is gone: what is new was opened now.
RowsLive ==
    /\ \A i \in DOMAIN cases \ DOMAIN cases' : cases[i].created + CaseLife < time
    /\ \A i \in DOMAIN cases' \ DOMAIN cases :
         i = nextCase + 1 /\ nextCase' = i /\ cases'[i].created = time

\* What the operator decided about a case is changed by the operator only, as
\* long as the case lives: a collection that ends later, alerts that recur and the
\* pruning of other cases leave it.
TriageKept == [][(DecisionsStay \/ Triage) /\ RowsLive]_caseVars

\* Repeated alerts do not split a case: of two open cases of the same type
\* and addresses the later was opened only after the earlier had been silent
\* for the whole window, unless the operator closed one in between.
CasesApart ==
    \A i, j \in DOMAIN cases :
        (/\ i < j /\ cases[i].key = cases[j].key
         /\ cases[i].status = "open" /\ ~cases[i].touched) =>
            cases[i].lastSeen + Correlation < cases[j].created

\* A verdict is no milder than its own score, whichever providers failed or
\* answered, and whichever of several collections stored its answer last.
VerdictBacked == \A i \in DOMAIN cases : Backed(cases[i].opinion)

\* The cases an operator works from: one per matter, each with a verdict that
\* its score bears out.
CasesAreSound == CasesApart /\ VerdictBacked

\* The handler's promise that a case records whatever did succeed: what one
\* collection captured is not taken from the case again.
EvidenceKept ==
    [][\A i \in DOMAIN cases \cap DOMAIN cases' : cases[i].pcap => cases'[i].pcap]_caseVars
===============================================================================
