---------------------------- MODULE Detectors_proofs ----------------------------
(***************************************************************************)
(* For every set of detectors, thresholds and windows: what the detectors  *)
(* throw away never changes an answer (they implement BurstAlarm), no flag *)
(* outlives its window, and the alerts of a deduping detector are an alert *)
(* window apart.                                                           *)
(***************************************************************************)
EXTENDS Detectors, TLAPS, FiniteSetTheorems

\* Nothing recent is missing from a window, and nothing is there that was not seen.
WindowsExact ==
  \A d \in Detector, k \in Keys :
    /\ windows[d][k] \subseteq seen[d][k]
    /\ \A c \in seen[d][k] : c.at <= now /\ (c.at >= now - Window[d] => c \in windows[d][k])

\* A flag says that the last contact found the threshold reached.  It is missing then
\* only where a flush found the window empty, and there it is empty still.
FlagsExact ==
  \A d \in Rearming, k \in Keys :
    /\ k \in alerted[d] => Alarm!Above(d, seen[d][k])
    /\ Alarm!Above(d, seen[d][k]) /\ k \notin alerted[d] =>
         \A c \in seen[d][k] : c.at < now - Window[d]

\* A date is that of the last alert, unless that is too long ago to matter.
DatesExact ==
  \A d \in Deduping, k \in Keys :
    LET n == Len(raised[d][k])
    IN  IF raised[d][k] = <<>>
        THEN alerted_at[d][k] = Epoch
        ELSE /\ raised[d][k][n] <= now
             /\ \/ alerted_at[d][k] = raised[d][k][n]
                \/ alerted_at[d][k] = Epoch /\ now - raised[d][k][n] >= AlertWindow[d]

Inv == DetectorsTypeOK /\ WindowsExact /\ FlagsExact /\ DatesExact

-------------------------------------------------------------------------------
(* The window with the packet in hand *)

New(m)         == [at |-> now, mark |-> m]
After(d, k, m) == seen[d][k] \cup {New(m)}

\* What process() looks at is the recent part of the whole history.
LEMMA FilledIsRecent ==
  ASSUME DetectorsAssumption, DetectorsTypeOK, WindowsExact,
         NEW d \in Detector, NEW k \in Keys, NEW m \in Marks
  PROVE  Filled(d, k, m) = {c \in After(d, k, m) : c.at >= now - Window[d]}
  BY DEF DetectorsAssumption, DetectorsTypeOK, WindowsExact, Filled, trim, After, New

\* So the detector and the promise agree on when the threshold is reached.
LEMMA HitIsReached ==
  ASSUME DetectorsAssumption, DetectorsTypeOK, WindowsExact,
         NEW d \in Detector, NEW k \in Keys, NEW m \in Marks
  PROVE  Hit(d, k, m) <=> Alarm!Reached(d, After(d, k, m), now)
<1> DEFINE Recent == {c \in After(d, k, m) : c.at >= now - Window[d]}
<1>1. Filled(d, k, m) = Recent
  BY FilledIsRecent
<1> HIDE DEF Recent
<1>2. Measure(Recent) = Alarm!Weight(Recent)
  BY Zenon DEF Measure, Alarm!Weight, Cardinality, Alarm!Cardinality
<1>3. Hit(d, k, m) <=> Measure(Recent) >= Threshold[d]
  BY <1>1 DEF Hit
<1> QED BY <1>2, <1>3 DEF Alarm!Reached, Recent

\* The packet in hand is the last contact.
LEMMA NewestDecides ==
  ASSUME DetectorsAssumption, DetectorsTypeOK, WindowsExact,
         NEW d \in Detector, NEW k \in Keys, NEW m \in Marks
  PROVE  Alarm!Above(d, After(d, k, m)) <=> Alarm!Reached(d, After(d, k, m), now)
<1> DEFINE S == After(d, k, m)
<1>1. New(m) \in S /\ New(m).at = now
  BY DEF After, New
<1>2. now \in Nat /\ \A e \in S : e.at \in Int /\ e.at <= now
  BY DEF DetectorsTypeOK, Contacts, WindowsExact, After, New
<1>3. ASSUME Alarm!Above(d, S) PROVE Alarm!Reached(d, S, now)
  <2>1. PICK c \in S : (\A e \in S : e.at <= c.at) /\ Alarm!Reached(d, S, c.at)
    BY <1>3 DEF Alarm!Above
  <2>2. c.at = now
    BY <2>1, <1>1, <1>2
  <2> QED BY <2>1, <2>2
<1>4. ASSUME Alarm!Reached(d, S, now) PROVE Alarm!Above(d, S)
  BY <1>4, <1>1, <1>2 DEF Alarm!Above
<1> QED BY <1>3, <1>4

\* A packet alone in its window does not reach the threshold of a rearming detector.
LEMMA AloneIsNoBurst ==
  ASSUME DetectorsAssumption, DetectorsTypeOK, WindowsExact,
         NEW d \in Rearming, NEW k \in Keys, NEW m \in Marks,
         \A c \in seen[d][k] : c.at < now - Window[d]
  PROVE  ~Hit(d, k, m)
<1>1. d \in Detector /\ Window[d] \in Nat /\ Threshold[d] >= 2 /\ now \in Nat
  BY DEF DetectorsAssumption, Detector, DetectorsTypeOK
<1>2. \A c \in seen[d][k] : c.at \in Int
  BY <1>1 DEF DetectorsTypeOK, Contacts
<1>3. Filled(d, k, m) = {New(m)}
  BY <1>1, <1>2, FilledIsRecent DEF After, New
<1>4. {c.mark : c \in Filled(d, k, m)} = {m}
  BY <1>3 DEF New
<1>5. Measure(Filled(d, k, m)) = 1
  BY <1>4, FS_Singleton DEF Measure
<1>6. Threshold[d] \in Nat
  BY <1>1 DEF DetectorsAssumption
<1>7. ~(1 >= Threshold[d])
  BY <1>1, <1>6
<1> QED BY <1>5, <1>7 DEF Hit

\* A rearming detector returns an alert exactly when the threshold is crossed.
LEMMA AlertIsCrossing ==
  ASSUME DetectorsAssumption, Inv, NEW d \in Rearming, NEW k \in Keys, NEW m \in Marks
  PROVE  Alerts(d, k, m) <=> Alarm!Crosses(d, seen[d][k], After(d, k, m))
<1>1. d \in Detector
  BY DEF Detector
<1>2. Hit(d, k, m) <=> Alarm!Above(d, After(d, k, m))
  BY <1>1, HitIsReached, NewestDecides DEF Inv
<1>3. Alerts(d, k, m) <=> Hit(d, k, m) /\ k \notin alerted[d]
  BY DEF Alerts
<1>4. k \in alerted[d] => Alarm!Above(d, seen[d][k])
  BY DEF Inv, FlagsExact
<1>5. ASSUME Alarm!Above(d, seen[d][k]), k \notin alerted[d] PROVE ~Hit(d, k, m)
  <2>1. \A c \in seen[d][k] : c.at < now - Window[d]
    BY <1>5 DEF Inv, FlagsExact
  <2> QED BY <2>1, AloneIsNoBurst DEF Inv
<1> QED BY <1>2, <1>3, <1>4, <1>5 DEF Alarm!Crosses

\* A date holds an alert back exactly when the last alert is recent.
LEMMA HeldBackIsRecent ==
  ASSUME DetectorsAssumption, Inv, NEW d \in Deduping, NEW k \in Keys
  PROVE  ~HeldBack(d, k) <=>
           (raised[d][k] # <<>> => now - raised[d][k][Len(raised[d][k])] >= AlertWindow[d])
<1>1. /\ now \in Nat /\ AlertWindow[d] \in Nat /\ Epoch \in Int /\ AlertWindow[d] <= 0 - Epoch
      /\ raised[d][k] \in Seq(Nat) /\ alerted_at[d][k] \in Nat \cup {Epoch}
  BY DEF DetectorsAssumption, Inv, DetectorsTypeOK, Detector
<1>2. CASE raised[d][k] = <<>>
  <2>1. alerted_at[d][k] = Epoch
    BY <1>2 DEF Inv, DatesExact
  <2> QED BY <1>1, <1>2, <2>1 DEF HeldBack
<1>3. CASE raised[d][k] # <<>>
  <2> DEFINE last == raised[d][k][Len(raised[d][k])]
  <2>1. last \in Nat
    BY <1>1, <1>3
  <2>2. \/ alerted_at[d][k] = last
        \/ alerted_at[d][k] = Epoch /\ now - last >= AlertWindow[d]
    BY <1>3 DEF Inv, DatesExact
  <2> QED BY <1>1, <1>3, <2>1, <2>2 DEF HeldBack
<1> QED BY <1>2, <1>3

\* A deduping detector returns an alert exactly when one is due.
LEMMA AlertIsDue ==
  ASSUME DetectorsAssumption, Inv, NEW d \in Deduping, NEW k \in Keys, NEW m \in Marks
  PROVE  Alerts(d, k, m) <=> Alarm!Due(d, raised[d][k], After(d, k, m))
<1>1. d \in Detector /\ d \notin Rearming
  BY DEF Detector, DetectorsAssumption
<1>2. Hit(d, k, m) <=> Alarm!Reached(d, After(d, k, m), now)
  BY <1>1, HitIsReached DEF Inv
<1>3. Alerts(d, k, m) <=> Hit(d, k, m) /\ ~HeldBack(d, k)
  BY <1>1 DEF Alerts
<1> QED BY <1>2, <1>3, HeldBackIsRecent DEF Alarm!Due

-------------------------------------------------------------------------------
(* Type correctness *)

LEMMA InitTypeOK == DetectorsAssumption /\ DetectorsInit => DetectorsTypeOK
  BY DEF DetectorsAssumption, DetectorsInit, DetectorsTypeOK, Detector

LEMMA NextTypeOK ==
  ASSUME DetectorsAssumption, DetectorsTypeOK, [DetectorsNext]_detectorVars
  PROVE  DetectorsTypeOK'
<1>1. ASSUME NEW d \in Detector, NEW k \in Keys, NEW m \in Marks, Process(d, k, m)
      PROVE  DetectorsTypeOK'
  <2>1. New(m) \in Contacts /\ now \in Int
    BY DEF New, Contacts, DetectorsTypeOK
  <2>2. Filled(d, k, m) \in SUBSET Contacts
    BY <2>1 DEF Filled, trim, New, DetectorsTypeOK
  <2>3. windows' \in [Detector -> [Keys -> SUBSET Contacts]]
    BY <1>1, <2>2 DEF Process, DetectorsTypeOK
  <2>4. alerted' \in [Rearming -> SUBSET Keys]
    <3>1. alerted \in [Rearming -> SUBSET Keys]
      BY DEF DetectorsTypeOK
    <3>2. ASSUME d \in Rearming, SetFlag(d, k, m) PROVE alerted' \in [Rearming -> SUBSET Keys]
      <4>1. alerted[d] \cup {k} \subseteq Keys /\ alerted[d] \ {k} \subseteq Keys
        BY <3>1, <3>2
      <4> QED BY <3>1, <3>2, <4>1 DEF SetFlag
    <3> QED BY <1>1, <3>1, <3>2 DEF Process
  <2>5. alerted_at' \in [Deduping -> [Keys -> Nat \cup {Epoch}]]
    <3>1. alerted_at \in [Deduping -> [Keys -> Nat \cup {Epoch}]] /\ now \in Nat
      BY DEF DetectorsTypeOK
    <3>2. CASE alerted_at' = alerted_at
      BY <3>1, <3>2
    <3>3. CASE d \in Deduping /\ alerted_at' = [alerted_at EXCEPT ![d][k] = now]
      BY <3>1, <3>3
    <3> QED BY <1>1, <3>2, <3>3 DEF Process
  <2>6. seen' \in [Detector -> [Keys -> SUBSET Contacts]]
    BY <1>1, <2>1 DEF Process, New, DetectorsTypeOK
  <2>7. raised' \in [Detector -> [Keys -> Seq(Nat)]]
    <3>1. Append(raised[d][k], now) \in Seq(Nat)
      BY DEF DetectorsTypeOK
    <3> QED BY <1>1, <3>1 DEF Process, DetectorsTypeOK
  <2>8. now' \in Nat
    BY <1>1 DEF Process, DetectorsTypeOK
  <2> QED BY <2>3, <2>4, <2>5, <2>6, <2>7, <2>8 DEF DetectorsTypeOK
<1>2. ASSUME FlushExpired PROVE DetectorsTypeOK'
  BY <1>2 DEF FlushExpired, trim, Detector, DetectorsTypeOK
<1>3. ASSUME Tick PROVE DetectorsTypeOK'
  BY <1>3 DEF Tick, DetectorsTypeOK
<1>4. ASSUME UNCHANGED detectorVars PROVE DetectorsTypeOK'
  BY <1>4 DEF detectorVars, DetectorsTypeOK
<1> QED BY <1>1, <1>2, <1>3, <1>4 DEF DetectorsNext

\* The state of the detectors keeps its types for ever.
THEOREM DetectorsTypeCorrect == DetectorsSpec => []DetectorsTypeOK
<1>1. DetectorsInit => DetectorsTypeOK
  BY InitTypeOK, DetectorsAssumption
<1>2. DetectorsTypeOK /\ [DetectorsNext]_detectorVars => DetectorsTypeOK'
  BY NextTypeOK, DetectorsAssumption
<1> QED BY <1>1, <1>2, PTL DEF DetectorsSpec

-------------------------------------------------------------------------------
(* Windows *)

LEMMA NextWindowsExact ==
  ASSUME DetectorsAssumption, DetectorsTypeOK, WindowsExact, [DetectorsNext]_detectorVars
  PROVE  WindowsExact'
<1>0. now \in Nat /\ \A e \in Detector, k \in Keys : \A c \in seen[e][k] : c.at \in Int
  BY DEF DetectorsTypeOK, Contacts
<1>1. ASSUME NEW d \in Detector, NEW k \in Keys, NEW m \in Marks, Process(d, k, m)
      PROVE  WindowsExact'
  <2>1. /\ now' = now
        /\ windows' = [windows EXCEPT ![d][k] = Filled(d, k, m)]
        /\ seen' = [seen EXCEPT ![d][k] = After(d, k, m)]
    BY <1>1 DEF Process, After, New
  <2> SUFFICES ASSUME NEW e \in Detector, NEW j \in Keys
               PROVE  /\ windows'[e][j] \subseteq seen'[e][j]
                      /\ \A c \in seen'[e][j] :
                           c.at <= now /\ (c.at >= now - Window[e] => c \in windows'[e][j])
    BY <2>1 DEF WindowsExact
  <2>2. CASE e = d /\ j = k
    <3>1. windows'[e][j] = {c \in After(d, k, m) : c.at >= now - Window[d]}
      BY <2>1, <2>2, FilledIsRecent DEF DetectorsTypeOK
    <3>2. seen'[e][j] = After(d, k, m)
      BY <2>1, <2>2 DEF DetectorsTypeOK
    <3>3. \A c \in After(d, k, m) : c.at <= now
      BY <1>0 DEF After, New, WindowsExact
    <3> QED BY <2>2, <3>1, <3>2, <3>3
  <2>3. CASE ~(e = d /\ j = k)
    <3>1. windows'[e][j] = windows[e][j] /\ seen'[e][j] = seen[e][j]
      BY <2>1, <2>3 DEF DetectorsTypeOK
    <3> QED BY <3>1 DEF WindowsExact
  <2> QED BY <2>2, <2>3
<1>2. ASSUME FlushExpired PROVE WindowsExact'
  BY <1>2 DEF FlushExpired, trim, WindowsExact
<1>3. ASSUME Tick PROVE WindowsExact'
  <2>1. now' = now + 1 /\ UNCHANGED <<windows, seen>>
    BY <1>3 DEF Tick
  <2>2. Window \in [Detector -> Nat]
    BY DEF DetectorsAssumption
  <2>3. \A e \in Detector, k \in Keys : \A c \in seen[e][k] :
          c.at <= now + 1 /\ (c.at >= (now + 1) - Window[e] => c.at >= now - Window[e])
    BY <1>0, <2>2 DEF WindowsExact
  <2> QED BY <2>1, <2>3 DEF WindowsExact
<1>4. ASSUME UNCHANGED detectorVars PROVE WindowsExact'
  BY <1>4 DEF detectorVars, WindowsExact
<1> QED BY <1>1, <1>2, <1>3, <1>4 DEF DetectorsNext

-------------------------------------------------------------------------------
(* Flags *)

LEMMA NextFlagsExact ==
  ASSUME DetectorsAssumption, Inv, [DetectorsNext]_detectorVars
  PROVE  FlagsExact'
<1>0. /\ Rearming \subseteq Detector /\ now \in Nat /\ Window \in [Detector -> Nat]
      /\ \A e \in Detector, k \in Keys : \A c \in seen[e][k] : c.at \in Int
  BY DEF Inv, DetectorsTypeOK, Contacts, DetectorsAssumption, Detector
<1>1. ASSUME NEW d \in Detector, NEW k \in Keys, NEW m \in Marks, Process(d, k, m)
      PROVE  FlagsExact'
  <2>1. /\ now' = now
        /\ seen' = [seen EXCEPT ![d][k] = After(d, k, m)]
        /\ \/ d \in Rearming /\ SetFlag(d, k, m)
           \/ d \notin Rearming /\ alerted' = alerted
    BY <1>1 DEF Process, After, New, DetectorsAssumption
  <2>2. Hit(d, k, m) <=> Alarm!Above(d, After(d, k, m))
    BY HitIsReached, NewestDecides DEF Inv
  <2> SUFFICES ASSUME NEW e \in Rearming, NEW j \in Keys
               PROVE  /\ j \in alerted'[e] => Alarm!Above(e, seen'[e][j])
                      /\ Alarm!Above(e, seen'[e][j]) /\ j \notin alerted'[e] =>
                           \A c \in seen'[e][j] : c.at < now - Window[e]
    BY <2>1, Zenon DEF FlagsExact, Alarm!Above, Alarm!Reached, Alarm!Weight, Alarm!Cardinality
  <2>3. CASE e = d /\ j = k
    <3>1. seen'[e][j] = After(d, k, m)
      BY <2>1, <2>3 DEF Inv, DetectorsTypeOK
    <3>2. j \in alerted'[e] <=> Hit(d, k, m)
      BY <2>1, <2>3 DEF SetFlag, Inv, DetectorsTypeOK
    <3> QED BY <2>2, <2>3, <3>1, <3>2
  <2>4. CASE ~(e = d /\ j = k)
    <3>1. seen'[e][j] = seen[e][j]
      BY <1>0, <2>1, <2>4 DEF Inv, DetectorsTypeOK
    <3>2. j \in alerted'[e] <=> j \in alerted[e]
      BY <2>1, <2>4 DEF SetFlag, Inv, DetectorsTypeOK
    <3> QED BY <3>1, <3>2 DEF Inv, FlagsExact
  <2> QED BY <2>3, <2>4
<1>2. ASSUME FlushExpired PROVE FlagsExact'
  <2>1. now' = now /\ seen' = seen /\ alerted' = [d \in Rearming |-> alerted[d] \ Emptied(d)]
    BY <1>2 DEF FlushExpired
  <2>2. ASSUME NEW d \in Rearming, NEW k \in Emptied(d), NEW c \in seen[d][k]
        PROVE  c.at < now - Window[d]
    <3>1. c \notin trim(d, windows[d][k]) /\ k \in Keys /\ d \in Detector
      BY <1>0 DEF Emptied
    <3>2. c.at >= now - Window[d] => c \in windows[d][k]
      BY <3>1 DEF Inv, WindowsExact
    <3> QED BY <1>0, <3>1, <3>2 DEF trim
  <2> QED BY <2>1, <2>2 DEF Inv, FlagsExact, Alarm!Above, Alarm!Reached
<1>3. ASSUME Tick PROVE FlagsExact'
  <2>1. now' = now + 1 /\ UNCHANGED <<alerted, seen>>
    BY <1>3 DEF Tick
  <2>2. \A d \in Rearming, k \in Keys : \A c \in seen[d][k] :
          c.at < now - Window[d] => c.at < (now + 1) - Window[d]
    BY <1>0
  <2> QED BY <2>1, <2>2 DEF Inv, FlagsExact, Alarm!Above, Alarm!Reached
<1>4. ASSUME UNCHANGED detectorVars PROVE FlagsExact'
  BY <1>4 DEF detectorVars, Inv, FlagsExact, Alarm!Above, Alarm!Reached
<1> QED BY <1>1, <1>2, <1>3, <1>4 DEF DetectorsNext

-------------------------------------------------------------------------------
(* Dates *)

LEMMA NextDatesExact ==
  ASSUME DetectorsAssumption, Inv, [DetectorsNext]_detectorVars
  PROVE  DatesExact'
<1>0. /\ now \in Nat /\ AlertWindow \in [Deduping -> Nat] /\ Epoch \in Int
      /\ alerted_at \in [Deduping -> [Keys -> Nat \cup {Epoch}]]
      /\ raised \in [Detector -> [Keys -> Seq(Nat)]] /\ Deduping \subseteq Detector
  BY DEF Inv, DetectorsTypeOK, DetectorsAssumption, Detector
<1>1. ASSUME NEW d \in Detector, NEW k \in Keys, NEW m \in Marks, Process(d, k, m)
      PROVE  DatesExact'
  <2>1. CASE d \in Deduping /\ Alerts(d, k, m)
    <3>1. /\ alerted_at' = [alerted_at EXCEPT ![d][k] = now]
          /\ raised' = [raised EXCEPT ![d][k] = Append(@, now)] /\ now' = now
      BY <1>1, <2>1 DEF Process, DetectorsAssumption
    <3> SUFFICES ASSUME NEW e \in Deduping, NEW j \in Keys
                 PROVE  LET n == Len(raised'[e][j])
                        IN  IF raised'[e][j] = <<>>
                            THEN alerted_at'[e][j] = Epoch
                            ELSE /\ raised'[e][j][n] <= now
                                 /\ \/ alerted_at'[e][j] = raised'[e][j][n]
                                    \/ /\ alerted_at'[e][j] = Epoch
                                       /\ now - raised'[e][j][n] >= AlertWindow[e]
      BY <3>1 DEF DatesExact
    <3>2. CASE e = d /\ j = k
      <4>1. raised'[e][j] = Append(raised[d][k], now) /\ alerted_at'[e][j] = now
        BY <1>0, <3>1, <3>2
      <4> DEFINE alerts == Append(raised[d][k], now)
      <4>2. raised[d][k] \in Seq(Nat)
        BY <1>0
      <4>3. Len(alerts) = Len(raised[d][k]) + 1 /\ Len(raised[d][k]) \in Nat
        BY <1>0, <4>2
      <4>4. alerts[Len(alerts)] = now
        BY <1>0, <4>2, <4>3
      <4> HIDE DEF alerts
      <4>5. alerts # <<>>
        BY <4>3
      <4>6. raised'[e][j] = alerts
        BY <4>1 DEF alerts
      <4> QED BY <1>0, <4>1, <4>4, <4>5, <4>6
    <3>3. CASE ~(e = d /\ j = k)
      <4>1. raised'[e][j] = raised[e][j] /\ alerted_at'[e][j] = alerted_at[e][j]
        BY <1>0, <3>1, <3>3
      <4> QED BY <4>1 DEF Inv, DatesExact
    <3> QED BY <3>2, <3>3
  <2>2. CASE d \in Deduping /\ ~Alerts(d, k, m)
    BY <1>1, <2>2 DEF Process, DetectorsAssumption, Inv, DatesExact
  <2>3. CASE d \notin Deduping
    <3>1. alerted_at' = alerted_at /\ now' = now
      BY <1>1, <2>3 DEF Process
    <3>2. \A e \in Deduping, j \in Keys : raised'[e][j] = raised[e][j]
      BY <1>0, <1>1, <2>3 DEF Process
    <3> QED BY <3>1, <3>2 DEF Inv, DatesExact
  <2> QED BY <2>1, <2>2, <2>3
<1>2. ASSUME FlushExpired PROVE DatesExact'
  <2>1. /\ now' = now /\ raised' = raised
        /\ \A d \in Deduping, k \in Keys :
             alerted_at'[d][k] = IF HeldBack(d, k) THEN alerted_at[d][k] ELSE Epoch
    BY <1>2 DEF FlushExpired
  <2>2. \A d \in Deduping, k \in Keys : ~HeldBack(d, k) /\ raised[d][k] # <<>> =>
          now - raised[d][k][Len(raised[d][k])] >= AlertWindow[d]
    BY HeldBackIsRecent
  <2> QED BY <2>1, <2>2 DEF Inv, DatesExact
<1>3. ASSUME Tick PROVE DatesExact'
  <2>1. now' = now + 1 /\ UNCHANGED <<alerted_at, raised>>
    BY <1>3 DEF Tick
  <2>2. \A d \in Deduping, k \in Keys : raised[d][k] # <<>> =>
          raised[d][k][Len(raised[d][k])] \in Nat
    BY <1>0
  <2>3. \A d \in Deduping : AlertWindow[d] \in Nat
    BY <1>0
  <2> QED BY <1>0, <2>1, <2>2, <2>3 DEF Inv, DatesExact
<1>4. ASSUME UNCHANGED detectorVars PROVE DatesExact'
  BY <1>4 DEF detectorVars, Inv, DatesExact
<1> QED BY <1>1, <1>2, <1>3, <1>4 DEF DetectorsNext

LEMMA InitInv == DetectorsAssumption /\ DetectorsInit => Inv
<1> SUFFICES ASSUME DetectorsAssumption, DetectorsInit PROVE Inv
  OBVIOUS
<1>1. DetectorsTypeOK
  BY InitTypeOK
<1>2. WindowsExact
  BY DEF DetectorsInit, WindowsExact
<1>3. \A d \in Rearming, k \in Keys : seen[d][k] = {} /\ k \notin alerted[d]
  BY DEF DetectorsInit, Detector
<1>4. FlagsExact
  BY <1>3 DEF FlagsExact
<1>5. \A d \in Deduping, k \in Keys : raised[d][k] = <<>> /\ alerted_at[d][k] = Epoch
  BY DEF DetectorsInit, Detector
<1>6. DatesExact
  BY <1>5 DEF DatesExact
<1> QED BY <1>1, <1>2, <1>4, <1>6 DEF Inv

LEMMA NextInv ==
  ASSUME DetectorsAssumption, Inv, [DetectorsNext]_detectorVars
  PROVE  Inv'
  BY NextTypeOK, NextWindowsExact, NextFlagsExact, NextDatesExact DEF Inv

\* The inductive invariant holds for ever.
THEOREM InvHolds == DetectorsSpec => []Inv
<1>1. DetectorsInit => Inv
  BY InitInv, DetectorsAssumption
<1>2. Inv /\ [DetectorsNext]_detectorVars => Inv'
  BY NextInv, DetectorsAssumption
<1> QED BY <1>1, <1>2, PTL DEF DetectorsSpec

-------------------------------------------------------------------------------
(* The detectors keep the promise of BurstAlarm *)

LEMMA InitIsAlarmInit == DetectorsInit => Alarm!Init
  BY DEF DetectorsInit, Alarm!Init, Detector

\* A packet is a contact that raises an alert exactly when the promise calls for one.
LEMMA ProcessIsContact ==
  ASSUME DetectorsAssumption, Inv, NEW d \in Detector, NEW k \in Keys, NEW m \in Marks,
         Process(d, k, m)
  PROVE  Alarm!Contact(d, k, m)
<1>1. /\ seen' = [seen EXCEPT ![d][k] = After(d, k, m)] /\ now' = now
      /\ raised' = IF Alerts(d, k, m) THEN [raised EXCEPT ![d][k] = Append(@, now)] ELSE raised
  BY DEF Process, After, New
<1>2. seen' = [seen EXCEPT ![d][k] = seen[d][k] \cup {[at |-> now, mark |-> m]}]
  BY <1>1 DEF After, New
<1>3. CASE d \in Rearming
  <2>1. Alerts(d, k, m) <=> Alarm!Crosses(d, seen[d][k], After(d, k, m))
    BY <1>3, AlertIsCrossing
  <2> QED BY <1>1, <1>2, <1>3, <2>1, Zenon DEF Alarm!Contact, After, New
<1>4. CASE d \notin Rearming
  <2>1. Alerts(d, k, m) <=> Alarm!Due(d, raised[d][k], After(d, k, m))
    BY <1>4, AlertIsDue DEF Detector
  <2> QED BY <1>1, <1>2, <1>4, <2>1, Zenon DEF Alarm!Contact, After, New
<1> QED BY <1>3, <1>4

\* Trimming windows and forgetting flags and dates never change an answer: the
\* detectors implement BurstAlarm, which forgets nothing.
THEOREM DetectorsImplementAlarm == DetectorsSpec => Alarms
<1>1. DetectorsInit => Alarm!Init
  BY InitIsAlarmInit
<1>2. ASSUME Inv, [DetectorsNext]_detectorVars PROVE [Alarm!Next]_<<now, seen, raised>>
  <2>1. ASSUME NEW d \in Detector, NEW k \in Keys, NEW m \in Marks, Process(d, k, m)
        PROVE  Alarm!Next
    BY <1>2, <2>1, ProcessIsContact, DetectorsAssumption DEF Alarm!Next, Detector
  <2>2. ASSUME FlushExpired PROVE UNCHANGED <<now, seen, raised>>
    BY <2>2 DEF FlushExpired
  <2>3. ASSUME Tick PROVE Alarm!Next
    BY <2>3 DEF Tick, Alarm!Next, Alarm!Advance
  <2>4. ASSUME UNCHANGED detectorVars PROVE UNCHANGED <<now, seen, raised>>
    BY <2>4 DEF detectorVars
  <2> QED BY <1>2, <2>1, <2>2, <2>3, <2>4 DEF DetectorsNext
<1> QED BY <1>1, <1>2, InvHolds, PTL DEF DetectorsSpec, Alarms, Alarm!Spec, Alarm!alarmVars

-------------------------------------------------------------------------------
(* Flags and windows, alerts and alert windows *)

\* No flag outlives the window of its key, so that flush_expired, which walks through
\* the windows, reaches every flag.
THEOREM FlagsAreReached == DetectorsSpec => []FlagsHaveWindows
<1>1. DetectorsInit => FlagsHaveWindows
  BY DEF DetectorsInit, FlagsHaveWindows
<1>2. ASSUME Inv, FlagsHaveWindows, [DetectorsNext]_detectorVars PROVE FlagsHaveWindows'
  <2>0. Rearming \subseteq Detector /\ now \in Nat /\ Window \in [Detector -> Nat]
    BY <1>2, DetectorsAssumption DEF Inv, DetectorsTypeOK, DetectorsAssumption, Detector
  <2>1. ASSUME NEW d \in Detector, NEW k \in Keys, NEW m \in Marks, Process(d, k, m)
        PROVE  FlagsHaveWindows'
    <3>1. New(m) \in Filled(d, k, m)
      BY <2>0 DEF Filled, trim, New
    <3>2. /\ windows' = [windows EXCEPT ![d][k] = Filled(d, k, m)]
          /\ \/ d \in Rearming /\ SetFlag(d, k, m)
             \/ d \notin Rearming /\ alerted' = alerted
      BY <2>1, DetectorsAssumption DEF Process, DetectorsAssumption
    <3> SUFFICES ASSUME NEW e \in Rearming, NEW j \in alerted'[e] PROVE windows'[e][j] # {}
      BY DEF FlagsHaveWindows
    <3>3. CASE e = d /\ j = k
      BY <1>2, <2>0, <3>1, <3>2, <3>3 DEF Inv, DetectorsTypeOK
    <3>4. CASE ~(e = d /\ j = k)
      <4>1. j \in alerted[e]
        BY <1>2, <3>2, <3>4 DEF SetFlag, Inv, DetectorsTypeOK
      <4>2. j \in Keys /\ windows'[e][j] = windows[e][j]
        BY <1>2, <2>0, <3>2, <3>4, <4>1 DEF Inv, DetectorsTypeOK
      <4> QED BY <1>2, <4>1, <4>2 DEF FlagsHaveWindows
    <3> QED BY <3>3, <3>4
  <2>2. ASSUME FlushExpired PROVE FlagsHaveWindows'
    <3> SUFFICES ASSUME NEW e \in Rearming, NEW j \in alerted'[e] PROVE windows'[e][j] # {}
      BY DEF FlagsHaveWindows
    <3>1. j \in alerted[e] /\ j \notin Emptied(e)
      BY <2>2 DEF FlushExpired
    <3>2. j \in Keys
      BY <1>2, <3>1 DEF Inv, DetectorsTypeOK
    <3> QED BY <2>0, <2>2, <3>1, <3>2 DEF FlushExpired, Emptied
  <2>3. ASSUME Tick PROVE FlagsHaveWindows'
    BY <1>2, <2>3 DEF Tick, FlagsHaveWindows
  <2>4. ASSUME UNCHANGED detectorVars PROVE FlagsHaveWindows'
    BY <1>2, <2>4 DEF detectorVars, FlagsHaveWindows
  <2> QED BY <1>2, <2>1, <2>2, <2>3, <2>4 DEF DetectorsNext
<1> QED BY <1>1, <1>2, InvHolds, PTL DEF DetectorsSpec

\* Two alerts of a deduping detector for one key are an alert window apart, although
\* dates are forgotten.
THEOREM DedupingIsKept == DetectorsSpec => []AlertsApart
<1>1. DetectorsInit => AlertsApart
  <2> SUFFICES ASSUME DetectorsInit, NEW d \in Deduping, NEW k \in Keys
               PROVE  DOMAIN raised[d][k] = {}
    BY DEF AlertsApart
  <2>1. raised[d][k] = <<>>
    BY DEF DetectorsInit, Detector
  <2> QED BY <2>1
<1>2. ASSUME Inv, AlertsApart, [DetectorsNext]_detectorVars PROVE AlertsApart'
  <2>0. /\ now \in Nat /\ AlertWindow \in [Deduping -> Nat] /\ Deduping \subseteq Detector
        /\ raised \in [Detector -> [Keys -> Seq(Nat)]]
    BY <1>2, DetectorsAssumption DEF Inv, DetectorsTypeOK, DetectorsAssumption, Detector
  <2>1. ASSUME raised' = raised PROVE AlertsApart'
    BY <1>2, <2>1 DEF AlertsApart
  <2>2. ASSUME NEW d \in Detector, NEW k \in Keys, NEW m \in Marks, Process(d, k, m),
               raised' # raised
        PROVE  AlertsApart'
    <3>1. Alerts(d, k, m) /\ raised' = [raised EXCEPT ![d][k] = Append(@, now)]
      BY <2>2 DEF Process
    <3> SUFFICES ASSUME NEW e \in Deduping, NEW j \in Keys,
                        NEW a \in DOMAIN raised'[e][j], NEW b \in DOMAIN raised'[e][j], a < b
                 PROVE  raised'[e][j][b] - raised'[e][j][a] >= AlertWindow[e]
      BY DEF AlertsApart
    <3>2. CASE e = d /\ j = k
      <4> DEFINE old == raised[d][k]
                 n   == Len(old)
      <4>1. old \in Seq(Nat) /\ n \in Nat /\ raised'[e][j] = Append(old, now)
        BY <2>0, <3>1, <3>2
      <4>2. /\ DOMAIN Append(old, now) = 1..(n + 1) /\ Append(old, now)[n + 1] = now
            /\ \A i \in 1..n : Append(old, now)[i] = old[i] /\ old[i] \in Nat
        BY <2>0, <4>1
      <4>3. ~HeldBack(d, k)
        BY <3>1, <3>2, DetectorsAssumption DEF Alerts, DetectorsAssumption
      <4>4. old # <<>> => now - old[n] >= AlertWindow[d]
        BY <1>2, <3>2, <4>3, HeldBackIsRecent, DetectorsAssumption
      <4>5. \A i \in 1..n, l \in 1..n : i < l => old[l] - old[i] >= AlertWindow[d]
        BY <1>2, <2>0, <3>2, <4>1 DEF AlertsApart
      <4>6. AlertWindow[d] \in Nat
        BY <2>0, <3>2
      <4>7. a \in 1..(n + 1) /\ b \in 1..(n + 1) /\ a \in 1..n
        BY <4>1, <4>2
      <4>8. CASE b \in 1..n
        BY <3>2, <4>1, <4>2, <4>5, <4>7, <4>8
      <4>9. CASE b = n + 1
        <5>1. old # <<>> /\ n \in 1..n
          BY <4>1, <4>7
        <5> HIDE DEF old, n
        <5>2. old[a] \in Nat /\ old[n] \in Nat
          BY <4>2, <4>7, <5>1
        <5>3. now - old[n] >= AlertWindow[d]
          BY <4>4, <5>1
        <5>4. CASE a = n
          BY <3>2, <4>1, <4>2, <4>7, <4>9, <5>3, <5>4
        <5>5. CASE a < n
          <6>1. old[n] - old[a] >= AlertWindow[d]
            BY <4>5, <4>7, <5>1, <5>5
          <6>2. now - old[a] >= AlertWindow[d]
            BY <2>0, <4>6, <5>2, <5>3, <6>1
          <6> QED BY <3>2, <4>1, <4>2, <4>7, <4>9, <6>2
        <5> QED BY <4>1, <4>7, <5>4, <5>5
      <4> QED BY <4>1, <4>7, <4>8, <4>9
    <3>3. CASE ~(e = d /\ j = k)
      <4>1. raised'[e][j] = raised[e][j]
        BY <2>0, <3>1, <3>3
      <4> QED BY <1>2, <4>1 DEF AlertsApart
    <3> QED BY <3>2, <3>3
  <2> QED BY <1>2, <2>1, <2>2 DEF DetectorsNext, FlushExpired, Tick, detectorVars
<1> QED BY <1>1, <1>2, InvHolds, PTL DEF DetectorsSpec
===============================================================================
