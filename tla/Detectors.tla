------------------------------- MODULE Detectors -------------------------------
(***************************************************************************)
(* The threshold detectors of detector/: what they keep of the packets     *)
(* they see, and when they raise an alert.  A packet counts for a detector *)
(* as a contact of some key (its source, its source and port, its source   *)
(* and destination, ...) that bears a mark: its port, for the port scan,   *)
(* which counts different ports; one of its own, for detectors that count  *)
(* packets.                                                                *)
(*                                                                         *)
(*  - Rearming: port_scan, brute_force, exfiltration.  An alert sets a     *)
(*    flag for the key; a packet that finds the window below the threshold *)
(*    clears it, and so does a flush that finds the window empty.          *)
(*  - Deduping: dns_tunneling, data_hog and, with a threshold of 1, the    *)
(*    detectors of a remote list.  An alert is dated; the next one waits   *)
(*    for alert_window_seconds.                                            *)
(*                                                                         *)
(* Contacts bear the time a packet is processed at, not the time tshark    *)
(* stamped on it.  They arrive in the order of the clock, so a deque whose *)
(* head is trimmed is the set of the contacts from the cutoff on.          *)
(***************************************************************************)
EXTENDS Integers, Sequences, FiniteSets

CONSTANTS
  Rearming, Deduping,   \* the detectors, by the way they hold back further alerts
  Keys,
  Marks,
  Threshold,     \* ports_per_window, attempts_per_window, queries_per_window, ...
  Window,        \* window_seconds
  AlertWindow,   \* alert_window_seconds
  Horizon,       \* bounds the clock
  Epoch          \* the time 0.0 that _alerted.get(key, 0.0) stands for

Detector == Rearming \cup Deduping
Contacts == [at: Int, mark: Marks]

\* One packet never makes a burst for the detectors that clear their flag; the epoch
\* is longer ago than any alert window.
ASSUME DetectorsAssumption ==
  /\ Rearming \cap Deduping = {}
  /\ Threshold \in [Detector -> Nat \ {0}] /\ \A d \in Rearming : Threshold[d] >= 2
  /\ Window \in [Detector -> Nat] /\ AlertWindow \in [Deduping -> Nat]
  /\ Horizon \in Nat
  /\ Epoch \in Int /\ \A d \in Deduping : AlertWindow[d] <= 0 - Epoch

VARIABLES
  now,          \* time.time(), never set back
  windows,      \* _windows, _suspicious: the contacts kept; no entry is the empty set
  alerted,      \* _alerted, for rearming detectors: the flags
  alerted_at,   \* _alerted, for deduping ones: the date of the last alert
  seen,         \* history: every contact
  raised        \* history: the times of the alerts

detectorVars == <<now, windows, alerted, alerted_at, seen, raised>>

DetectorsTypeOK ==
  /\ now \in Nat
  /\ windows \in [Detector -> [Keys -> SUBSET Contacts]]
  /\ alerted \in [Rearming -> SUBSET Keys]
  /\ alerted_at \in [Deduping -> [Keys -> Nat \cup {Epoch}]]
  /\ seen \in [Detector -> [Keys -> SUBSET Contacts]]
  /\ raised \in [Detector -> [Keys -> Seq(Nat)]]

\* The distinct ports, or the number of packets, of the contacts in S.
Measure(S) == Cardinality({c.mark : c \in S})

trim(d, S) == {c \in S : c.at >= now - Window[d]}

-------------------------------------------------------------------------------
DetectorsInit ==
  /\ now = 0
  /\ windows = [d \in Detector |-> [k \in Keys |-> {}]]
  /\ alerted = [d \in Rearming |-> {}]
  /\ alerted_at = [d \in Deduping |-> [k \in Keys |-> Epoch]]
  /\ seen = windows
  /\ raised = [d \in Detector |-> [k \in Keys |-> <<>>]]

\* The window of d once it holds the packet in hand.
Filled(d, k, m) == trim(d, windows[d][k] \cup {[at |-> now, mark |-> m]})
Hit(d, k, m)    == Measure(Filled(d, k, m)) >= Threshold[d]

HeldBack(d, k) == now - alerted_at[d][k] < AlertWindow[d]

\* process() returns an alert.
Alerts(d, k, m) ==
  Hit(d, k, m) /\ IF d \in Rearming THEN k \notin alerted[d] ELSE ~HeldBack(d, k)

\* mutant: only a flush clears the flag of a key
StuckFlag(d, k, m) ==
  alerted' = [alerted EXCEPT ![d] = IF Hit(d, k, m) THEN @ \cup {k} ELSE @]

SetFlag(d, k, m) ==
  alerted' = [alerted EXCEPT ![d] = IF Hit(d, k, m) THEN @ \cup {k} ELSE @ \ {k}]

\* process() of detector d on a packet that counts for it.
Process(d, k, m) ==
  /\ windows' = [windows EXCEPT ![d][k] = Filled(d, k, m)]
  /\ \/ d \in Rearming /\ SetFlag(d, k, m) /\ UNCHANGED alerted_at
     \/ /\ d \in Deduping
        /\ alerted_at' = IF Alerts(d, k, m) THEN [alerted_at EXCEPT ![d][k] = now] ELSE alerted_at
        /\ UNCHANGED alerted
  /\ seen' = [seen EXCEPT ![d][k] = @ \cup {[at |-> now, mark |-> m]}]
  /\ raised' = IF Alerts(d, k, m) THEN [raised EXCEPT ![d][k] = Append(@, now)] ELSE raised
  /\ UNCHANGED now

\* mutant: a flush drops windows and leaves flags
NoFlag(d) == {}

Emptied(d) == {k \in Keys : trim(d, windows[d][k]) = {}}

\* flush_expired() of every detector: windows are trimmed, emptied ones forgotten with
\* their flags, and so are dates an alert window old.
FlushExpired ==
  /\ windows' = [d \in Detector |-> [k \in Keys |-> trim(d, windows[d][k])]]
  /\ alerted' = [d \in Rearming |-> alerted[d] \ Emptied(d)]
  /\ alerted_at' = [d \in Deduping |-> [k \in Keys |->
                     IF HeldBack(d, k) THEN alerted_at[d][k] ELSE Epoch]]
  /\ UNCHANGED <<now, seen, raised>>

Tick == /\ now < Horizon /\ now' = now + 1
        /\ UNCHANGED <<windows, alerted, alerted_at, seen, raised>>

DetectorsNext ==
  \/ \E d \in Detector, k \in Keys, m \in Marks : Process(d, k, m)
  \/ FlushExpired
  \/ Tick

DetectorsSpec == DetectorsInit /\ [][DetectorsNext]_detectorVars

-------------------------------------------------------------------------------
\* Trimming, forgetting emptied windows, flags and dates never change an answer: every
\* alert is raised, and only those, that the whole history of contacts calls for.
Alarm == INSTANCE BurstAlarm
Alarms == Alarm!Spec

\* A flag never outlives the window of its key: flush_expired looks for flags to clear
\* among the windows only.
FlagsHaveWindows == \A d \in Rearming : \A k \in alerted[d] : windows[d][k] # {}

\* Two alerts of a deduping detector for one key are an alert window apart, whatever
\* flush_expired and the arrival of packets do in between.
AlertsApart ==
  \A d \in Deduping, k \in Keys : \A i, j \in DOMAIN raised[d][k] :
    i < j => raised[d][k][j] - raised[d][k][i] >= AlertWindow[d]
===============================================================================
