-------------------------- MODULE AlertPipeline_proofs --------------------------
(***************************************************************************)
(* The properties of AlertPipeline for queues of any length, any chain of  *)
(* detectors, any handlers and any number of packets.                      *)
(*                                                                         *)
(* Two properties speak of the members of a sequence that pass a test      *)
(* (Only), a recursion over the sequence.  Its two equations, OnlyOfNone   *)
(* and OnlyAppends, are proved here from the well-foundedness of < on Nat: *)
(* SetInduction is induction for sets of numbers instead of predicates.    *)
(***************************************************************************)
EXTENDS AlertPipeline, Detectors_proofs, SequenceTheorems, WellFoundedInduction

-------------------------------------------------------------------------------
(* Induction, and the recursion of Only *)

LEMMA LessIsWellFounded == IsWellFoundedOn({p \in Nat \X Nat : p[1] < p[2]}, Nat)
BY NatLessThanWellFounded DEF OpToRel

LEMMA SetInduction ==
  ASSUME NEW S, 0 \in S, \A n \in Nat : n \in S => n + 1 \in S
  PROVE  Nat \subseteq S
<1> DEFINE R == {p \in Nat \X Nat : p[1] < p[2]}
<1>1. IsWellFoundedOn(R, Nat)
  BY LessIsWellFounded
<1>2. SUFFICES ASSUME Nat \ S # {} PROVE FALSE
  OBVIOUS
<1> HIDE DEF R
<1>3. PICK x \in Nat \ S : \A y \in Nat \ S : ~(<<y, x>> \in R)
  BY <1>1, <1>2, WFMin
<1>4. x # 0 /\ x - 1 \in Nat /\ x - 1 \notin S
  OBVIOUS
<1>5. <<x - 1, x>> \in R
  BY <1>4 DEF R
<1> QED BY <1>3, <1>4, <1>5

Body(A, s, f, i) ==
  IF i = 0 THEN << >> ELSE IF s[i] \in A THEN Append(f[i - 1], s[i]) ELSE f[i - 1]

Kept(A, s, n) == {f \in [0 .. n -> Seq(A)] : \A i \in 0 .. n : f[i] = Body(A, s, f, i)}

LEMMA KeptExists ==
  ASSUME NEW A, NEW s
  PROVE  \A n \in Nat : Kept(A, s, n) # {}
<1> DEFINE S == {n \in Nat : Kept(A, s, n) # {}}
<1>1. 0 \in S
  <2>1. [i \in 0 .. 0 |-> << >>] \in Kept(A, s, 0)
    BY DEF Kept, Body
  <2> QED BY <2>1
<1>2. ASSUME NEW n \in Nat, n \in S PROVE n + 1 \in S
  <2>1. PICK f \in Kept(A, s, n) : TRUE
    BY <1>2
  <2>2. f \in [0 .. n -> Seq(A)] /\ \A i \in 0 .. n : f[i] = Body(A, s, f, i)
    BY <2>1 DEF Kept
  <2> DEFINE e == Body(A, s, f, n + 1)
             g == [i \in 0 .. n + 1 |-> IF i = n + 1 THEN e ELSE f[i]]
  <2>3. e \in Seq(A)
    BY <2>2 DEF Body
  <2> HIDE DEF e
  <2>4. g \in [0 .. n + 1 -> Seq(A)]
    BY <2>2, <2>3
  <2>5. ASSUME NEW i \in 0 .. n + 1 PROVE g[i] = Body(A, s, g, i)
    <3>1. CASE i = n + 1
      BY <3>1, <2>2 DEF e, Body
    <3>2. CASE i \in 0 .. n
      <4>1. i = 0 \/ i - 1 \in 0 .. n
        BY <3>2
      <4>2. g[i] = f[i] /\ f[i] = Body(A, s, f, i)
        BY <3>2, <2>2
      <4>3. i # 0 => g[i - 1] = f[i - 1]
        BY <4>1, <3>2
      <4> QED BY <4>2, <4>3 DEF Body
    <3> QED BY <3>1, <3>2
  <2>6. g \in Kept(A, s, n + 1)
    BY <2>4, <2>5 DEF Kept
  <2> QED BY <2>6
<1> HIDE DEF S
<1>3. Nat \subseteq S
  BY <1>1, <1>2, SetInduction
<1> QED BY <1>3 DEF S

LEMMA KeptUnique ==
  ASSUME NEW A, NEW s, NEW t, NEW n \in Nat, NEW m \in Nat, n <= m,
         \A i \in 1 .. n : s[i] = t[i],
         NEW f \in Kept(A, s, n), NEW g \in Kept(A, t, m)
  PROVE  \A i \in 0 .. n : f[i] = g[i]
<1> DEFINE S == {i \in Nat : i <= n => f[i] = g[i]}
<1>1. /\ \A i \in 0 .. n : f[i] = Body(A, s, f, i)
      /\ \A i \in 0 .. n : g[i] = Body(A, t, g, i)
  BY DEF Kept
<1>2. 0 \in S
  BY <1>1 DEF Body
<1>3. ASSUME NEW i \in Nat, i \in S PROVE i + 1 \in S
  BY <1>1, <1>3 DEF Body
<1> HIDE DEF S
<1>4. Nat \subseteq S
  BY <1>2, <1>3, SetInduction
<1> QED BY <1>4 DEF S

LEMMA OnlyIsKept ==
  ASSUME NEW A, NEW s, NEW f \in Kept(A, s, Len(s))
  PROVE  Only(A, s) = f[Len(s)]
<1> DEFINE P(g) == g = [i \in 0 .. Len(s) |-> Body(A, s, g, i)]
<1>1. f = [i \in 0 .. Len(s) |-> Body(A, s, f, i)]
  BY DEF Kept
<1>2. P(CHOOSE g : P(g))
  BY <1>1
<1> DEFINE h == CHOOSE g : P(g)
<1>3. Only(A, s) = h[Len(s)]
  BY DEF Only, Body
<1> HIDE DEF h
<1> QED BY <1>1, <1>2, <1>3

LEMMA OnlyOfNone == ASSUME NEW A PROVE Only(A, << >>) = << >>
<1>1. PICK f \in Kept(A, << >>, 0) : TRUE
  BY KeptExists
<1>2. Only(A, << >>) = f[Len(<< >>)]
  BY <1>1, OnlyIsKept
<1> QED BY <1>1, <1>2 DEF Kept, Body

LEMMA OnlyTyped ==
  ASSUME NEW A, NEW T, NEW s \in Seq(T)
  PROVE  Only(A, s) \in Seq(A)
<1>1. PICK f \in Kept(A, s, Len(s)) : TRUE
  BY KeptExists
<1> QED BY <1>1, OnlyIsKept DEF Kept

LEMMA OnlyAppends ==
  ASSUME NEW A, NEW T, NEW s \in Seq(T), NEW e \in T
  PROVE  /\ Only(A, s) \in Seq(A)
         /\ Only(A, Append(s, e)) = IF e \in A THEN Append(Only(A, s), e) ELSE Only(A, s)
<1> DEFINE t == Append(s, e)
           n == Len(s)
<1>1. /\ n \in Nat /\ t \in Seq(T) /\ Len(t) = n + 1 /\ t[n + 1] = e
      /\ \A i \in 1 .. n : s[i] = t[i]
  OBVIOUS
<1> HIDE DEF t, n
<1>2. PICK f \in Kept(A, s, n) : TRUE
  BY <1>1, KeptExists
<1>3. PICK g \in Kept(A, t, n + 1) : TRUE
  BY <1>1, KeptExists
<1>4. Only(A, s) = f[n]
  BY <1>1, <1>2, OnlyIsKept DEF n
<1>5. Only(A, t) = g[n + 1]
  BY <1>1, <1>3, OnlyIsKept DEF n
<1>6. f[n] = g[n]
  BY <1>1, <1>2, <1>3, KeptUnique
<1>7. f[n] \in Seq(A) /\ g[n + 1] = Body(A, t, g, n + 1)
  BY <1>1, <1>2, <1>3 DEF Kept
<1>8. g[n + 1] = IF e \in A THEN Append(g[n], e) ELSE g[n]
  BY <1>1, <1>7 DEF Body
<1> QED BY <1>4, <1>5, <1>6, <1>7, <1>8 DEF t

-------------------------------------------------------------------------------
(* Types, and what the tasks hold where *)

CaptureHolds ==
  phase # "ended" => (cap.packet = None <=> cap.at # "put")

\* A detector loop that failed keeps what it held; nothing is run any more then.
DetectorHolds ==
  /\ det.at = "get" => det.packet = None /\ det.alert = None
  /\ det.at = "run" => det.packet # None /\ det.alert = None
  /\ det.at = "put" => /\ det.packet # None /\ det.next <= Len(Chain)
                       /\ det.alert \in AlertOf("detector")
  /\ det.at = "done" /\ phase = "running" => det.packet = None /\ det.alert = None

DispatchHolds ==
  /\ disp.at = "send" => disp.alert # None /\ disp.next <= Len(Handlers)
  /\ disp.at # "send" /\ phase # "ended" => disp.alert = None

ScanHolds ==
  /\ arp.at = "put" => arp.alert \in AlertOf("arp_scanner")
  /\ arp.at # "put" /\ phase # "ended" => arp.alert = None

Placed == CaptureHolds /\ DetectorHolds /\ DispatchHolds /\ ScanHolds

Typed == TypeOK /\ Placed

\* What the assumption says of single constants.
LEMMA Constants ==
  /\ Len(Chain) \in Nat /\ \A i \in 1 .. Len(Chain) : Chain[i] \in Detector
  /\ \A s \in Shapes : KeyOf[s] \in Keys /\ Port[s] \in Marks /\ Shows[s] \subseteq Devices
  /\ 1 .. MaxPackets \subseteq Marks
  /\ MaxPackets \in Nat /\ PacketCap \in Nat \ {0} /\ AlertCap \in Nat \ {0}
  /\ Len(Handlers) \in Nat \ {0} /\ DOMAIN Handlers = 1 .. Len(Handlers)
  /\ None \notin Packet /\ None \notin Alert /\ None \notin Tasks
BY PipelineAssumption DEF PipelineAssumption

\* Alerts of the two producers.
LEMMA AlertsTyped ==
  /\ \A d \in Detector, n \in 1 .. MaxPackets :
       [by |-> d, no |-> n] \in AlertOf("detector") /\ [by |-> d, no |-> n] \notin AlertOf("arp_scanner")
  /\ \A d \in Devices :
       [by |-> "arp", no |-> d] \in AlertOf("arp_scanner") /\ [by |-> "arp", no |-> d] \notin AlertOf("detector")
  /\ \A t : AlertOf(t) \subseteq Alert
  /\ AlertOf("detector") \cap AlertOf("arp_scanner") = {}
BY PipelineAssumption DEF PipelineAssumption, AlertOf, Alert


LEMMA AppendFits ==
  ASSUME NEW S, NEW q \in Seq(S), NEW e \in S
  PROVE  Append(q, e) \in Seq(S) /\ \A n \in Nat : Len(q) < n => Len(Append(q, e)) <= n
OBVIOUS

LEMMA TypedInit == Init => Typed
<1> SUFFICES ASSUME Init PROVE Typed
  OBVIOUS
<1>1. DetectorsTypeOK
  BY InitTypeOK, DetectorsAssumption DEF Init
<1>2. cap \in CaptureState /\ det \in DetectorState /\ disp \in DispatchState /\ arp \in ScanState
  BY Constants DEF Init, CaptureState, DetectorState, DispatchState, ScanState
<1>3. /\ known \subseteq Devices
      /\ produced \in [{"detector", "arp_scanner"} -> Seq(Alert)]
      /\ tried \in [DOMAIN Handlers -> Seq(Alert)]
      /\ late \in [packets: Nat, alerts: Nat]
  BY PipelineAssumption DEF Init, PipelineAssumption
<1>4. /\ packet_queue = <<>> /\ alert_queue = <<>> /\ captured = <<>> /\ settled = <<>>
      /\ stopping = FALSE /\ phase = "running" /\ holder = None
  BY DEF Init
<1>5. TypeOK
  <2>1. /\ packet_queue \in Seq(Packet) /\ Len(packet_queue) <= PacketCap
        /\ alert_queue \in Seq(Alert) /\ Len(alert_queue) <= AlertCap
        /\ captured \in Seq(Packet) /\ settled \in Seq(Outcome)
    BY <1>4, Constants
  <2> QED BY <1>1, <1>2, <1>3, <1>4, <2>1 DEF TypeOK
<1>6. Placed
  BY DEF Init, Placed, CaptureHolds, DetectorHolds, DispatchHolds, ScanHolds
<1> QED BY <1>5, <1>6 DEF Typed

LEMMA CaptureTyped ==
  ASSUME Typed, Capture
  PROVE  Typed'
<1>1. /\ UNCHANGED <<detectorVars, stopping, phase, holder, alert_queue, det, disp, arp, known,
                     produced, settled, tried, late>>
  BY DEF Capture, StartTshark, ReadPacket, ReadOther, StreamEnds, PutPacket, CaptureOnly
<1>2. DetectorsTypeOK'
  BY <1>1 DEF DetectorsTypeOK, detectorVars, Typed, TypeOK
<1>3. DetectorHolds' /\ DispatchHolds' /\ ScanHolds'
  BY <1>1 DEF Typed, Placed, DetectorHolds, DispatchHolds, ScanHolds
<1>4. /\ cap \in CaptureState /\ phase # "ended" /\ (cap.packet = None <=> cap.at # "put")
      /\ packet_queue \in Seq(Packet) /\ Len(packet_queue) <= PacketCap /\ captured \in Seq(Packet)
  BY DEF Typed, TypeOK, Placed, CaptureHolds, Capture, StartTshark, ReadPacket, ReadOther,
         StreamEnds, PutPacket, MayRun
<1>5. SUFFICES /\ cap' \in CaptureState /\ (cap'.packet = None <=> cap'.at # "put")
               /\ packet_queue' \in Seq(Packet) /\ Len(packet_queue') <= PacketCap
               /\ captured' \in Seq(Packet)
  BY <1>1, <1>2, <1>3 DEF Typed, TypeOK, Placed, CaptureHolds
<1>6. CASE StartTshark \/ ReadOther \/ StreamEnds
  <2>1. PICK a \in {"start", "read", "done"} : cap' = [cap EXCEPT !.at = a]
    BY <1>6 DEF StartTshark, ReadOther, StreamEnds
  <2>2. cap.at # "put" /\ packet_queue' = packet_queue /\ captured' = captured
    BY <1>6 DEF StartTshark, ReadOther, StreamEnds
  <2> QED BY <1>4, <2>1, <2>2 DEF CaptureState
<1>7. ASSUME NEW s \in Shapes, ReadPacket(s)
      PROVE  /\ cap' \in CaptureState /\ (cap'.packet = None <=> cap'.at # "put")
             /\ packet_queue' \in Seq(Packet) /\ Len(packet_queue') <= PacketCap
             /\ captured' \in Seq(Packet)
  <2> DEFINE p == [no |-> Len(captured) + 1, shape |-> s]
  <2>1. p \in Packet
    BY <1>4, <1>7, Constants DEF ReadPacket, Packet
  <2>2. /\ captured' = Append(captured, p)
        /\ \/ packet_queue' = Append(packet_queue, p) /\ cap' = cap /\ Len(packet_queue) < PacketCap
           \/ packet_queue' = packet_queue /\ cap' = [at |-> "put", packet |-> p]
        /\ cap.at = "read"
    BY <1>7 DEF ReadPacket
  <2> HIDE DEF p
  <2>3. [at |-> "put", packet |-> p] \in CaptureState
    BY <2>1 DEF CaptureState
  <2>4. CASE packet_queue' = Append(packet_queue, p) /\ cap' = cap /\ Len(packet_queue) < PacketCap
    BY <1>4, <2>1, <2>2, <2>4, Constants
  <2>5. CASE packet_queue' = packet_queue /\ cap' = [at |-> "put", packet |-> p]
    BY <1>4, <2>1, <2>2, <2>3, <2>5, Constants
  <2> QED BY <2>2, <2>4, <2>5
<1>8. CASE PutPacket
  <2>1. cap.packet \in Packet
    BY <1>4, <1>8 DEF PutPacket, CaptureState
  <2>2. [at |-> "read", packet |-> None] \in CaptureState
    BY DEF CaptureState
  <2> QED BY <1>4, <1>8, <2>1, <2>2, Constants DEF PutPacket
<1> QED BY <1>6, <1>7, <1>8 DEF Capture

\* The packet in hand while the detectors run, and the alert it may raise.
LEMMA InHandTyped ==
  ASSUME Typed, det.at = "run", det.next <= Len(Chain)
  PROVE  LET d == Chain[det.next]
             p == det.packet
             m == IF d \in PortCounting THEN Port[p.shape] ELSE p.no
         IN  /\ p \in Packet /\ d \in Detector /\ m \in Marks /\ KeyOf[p.shape] \in Keys
             /\ det.next \in 1 .. Len(Chain)
             /\ [by |-> d, no |-> p.no] \in AlertOf("detector")
<1>1. det.packet \in Packet /\ det.next \in 1 .. Len(Chain)
  BY Constants DEF Typed, TypeOK, Placed, DetectorHolds, DetectorState
<1>2. det.packet.shape \in Shapes /\ det.packet.no \in 1 .. MaxPackets
  BY <1>1 DEF Packet
<1> QED BY <1>1, <1>2, Constants, AlertsTyped

\* Whatever the tasks do is a step of the detectors, or none.
LEMMA StepsDetectors ==
  ASSUME Typed, [Next]_vars
  PROVE  [DetectorsNext]_detectorVars
<1>1. CASE Capture
  BY <1>1 DEF Capture, StartTshark, ReadPacket, ReadOther, StreamEnds, PutPacket, CaptureOnly
<1>2. CASE GetPacket \/ PutDetectorAlert \/ PacketDone
  BY <1>2 DEF GetPacket, PutDetectorAlert, PacketDone
<1>3. CASE GetTimesOut
  BY <1>3 DEF GetTimesOut, DetectorsNext
<1>4. CASE RunDetector
  <2> DEFINE d == Chain[det.next]
             p == det.packet
             m == IF d \in PortCounting THEN Port[p.shape] ELSE p.no
  <2>1. det.at = "run" /\ det.next <= Len(Chain)
    BY <1>4 DEF RunDetector
  <2>2. UNCHANGED detectorVars \/ Process(d, KeyOf[p.shape], m)
    BY <1>4 DEF RunDetector
  <2>3. d \in Detector /\ KeyOf[p.shape] \in Keys /\ m \in Marks
    BY <2>1, InHandTyped
  <2> QED BY <2>2, <2>3 DEF DetectorsNext
<1>5. CASE Dispatch
  BY <1>5 DEF Dispatch, DispatchTimesOut, TakeAlert, Send, DispatchOnly
<1>6. CASE Scan
  BY <1>6 DEF Scan, TestScan, Found, Report, PutScanAlert, ScanDone, ScanOnly
<1>7. CASE Quit \/ Fails \/ End
  BY <1>7 DEF Quit, Fails, End, Close, CancelAll, Finish, EndOnly
<1>8. CASE UNCHANGED vars
  BY <1>8 DEF vars
<1> QED BY <1>1, <1>2, <1>3, <1>4, <1>5, <1>6, <1>7, <1>8 DEF Next, DetectorLoop

LEMMA DetectorTyped ==
  ASSUME Typed, DetectorLoop
  PROVE  Typed'
<1>1. UNCHANGED <<stopping, phase, cap, disp, arp, captured, settled, tried>>
  BY DEF DetectorLoop, GetPacket, GetTimesOut, RunDetector, PutDetectorAlert, PacketDone, DetectorOnly
<1>2. DetectorsTypeOK'
  BY StepsDetectors, NextTypeOK, DetectorsAssumption DEF Next, Typed, TypeOK
<1>3. CaptureHolds' /\ DispatchHolds' /\ ScanHolds'
  BY <1>1 DEF Typed, Placed, CaptureHolds, DispatchHolds, ScanHolds
<1>4. /\ det \in DetectorState /\ phase # "ended" /\ DetectorHolds
      /\ packet_queue \in Seq(Packet) /\ Len(packet_queue) <= PacketCap
      /\ alert_queue \in Seq(Alert) /\ Len(alert_queue) <= AlertCap
      /\ known \subseteq Devices /\ holder \in {"detector", "arp_scanner", None}
      /\ produced \in [{"detector", "arp_scanner"} -> Seq(Alert)]
      /\ late \in [packets: Nat, alerts: Nat]
  BY DEF Typed, TypeOK, Placed, DetectorLoop, GetPacket, GetTimesOut, RunDetector,
         PutDetectorAlert, PacketDone, MayRun
<1> DEFINE Goal == /\ det \in DetectorState /\ DetectorHolds
                   /\ packet_queue \in Seq(Packet) /\ Len(packet_queue) <= PacketCap
                   /\ alert_queue \in Seq(Alert) /\ Len(alert_queue) <= AlertCap
                   /\ known \subseteq Devices /\ holder \in {"detector", "arp_scanner", None}
                   /\ produced \in [{"detector", "arp_scanner"} -> Seq(Alert)]
                   /\ late \in [packets: Nat, alerts: Nat]
<1>5. SUFFICES Goal'
  BY <1>1, <1>2, <1>3 DEF Typed, TypeOK, Placed
<1>6. CASE GetPacket
  <2>1. Head(packet_queue) \in Packet /\ Tail(packet_queue) \in Seq(Packet)
        /\ Len(Tail(packet_queue)) <= PacketCap
    BY <1>4, <1>6, Constants DEF GetPacket
  <2>2. /\ packet_queue' = Tail(packet_queue) /\ UNCHANGED <<alert_queue, produced>> /\ holder' = "detector"
        /\ det' = [at |-> "run", packet |-> Head(packet_queue), next |-> 1, alert |-> None]
        /\ known' = known \cup Shows[Head(packet_queue).shape]
        /\ late' \in {[late EXCEPT !.packets = @ + 1], late}
    BY <1>6 DEF GetPacket
  <2>3. det' \in DetectorState /\ DetectorHolds'
    BY <2>1, <2>2, Constants DEF DetectorState, DetectorHolds
  <2>4. known' \subseteq Devices
    BY <1>4, <2>1, <2>2, Constants DEF Packet
  <2> QED BY <1>4, <2>1, <2>2, <2>3, <2>4
<1>7. CASE GetTimesOut
  <2>1. /\ det' = [det EXCEPT !.at = LoopTest] /\ det.at = "get" /\ LoopTest \in {"get", "done"}
        /\ UNCHANGED <<holder, packet_queue, alert_queue, known, produced, late>>
    BY <1>7 DEF GetTimesOut, queues, LoopTest
  <2>2. det \in DetectorState /\ det.packet = None /\ det.alert = None
    BY <1>4, <2>1 DEF DetectorHolds
  <2>3. det' \in DetectorState /\ det'.at = LoopTest /\ det'.packet = None /\ det'.alert = None
    BY <2>1, <2>2 DEF DetectorState
  <2>4. DetectorHolds'
    BY <2>1, <2>3 DEF DetectorHolds
  <2> QED BY <1>4, <2>1, <2>3, <2>4
<1>8. CASE RunDetector
  <2> DEFINE d == Chain[det.next]
             a == [by |-> d, no |-> det.packet.no]
  <2>1. /\ det.at = "run" /\ det.next <= Len(Chain) /\ UNCHANGED <<packet_queue, known, late>>
        /\ \/ det' = [det EXCEPT !.next = @ + 1] /\ UNCHANGED <<alert_queue, produced, holder>>
           \/ /\ Len(alert_queue) < AlertCap /\ alert_queue' = Append(alert_queue, a)
              /\ det' = [det EXCEPT !.next = @ + 1] /\ holder' = "detector"
              /\ produced' = [produced EXCEPT !["detector"] = Append(@, a)]
           \/ /\ det' = [det EXCEPT !.at = "put", !.alert = a] /\ alert_queue' = alert_queue /\ holder' = None
              /\ produced' = [produced EXCEPT !["detector"] = Append(@, a)]
    BY <1>8 DEF RunDetector, Offer
  <2>2. a \in AlertOf("detector") /\ a \in Alert /\ det.next \in 1 .. Len(Chain)
    BY <2>1, InHandTyped, AlertsTyped
  <2> HIDE DEF a, d
  <2>3. [produced EXCEPT !["detector"] = Append(@, a)] \in [{"detector", "arp_scanner"} -> Seq(Alert)]
    BY <1>4, <2>2
  <2>4. CASE det' = [det EXCEPT !.next = @ + 1]
    <3>1. det.next + 1 \in 1 .. Len(Chain) + 1
      BY <2>2, Constants
    <3>2. det \in DetectorState /\ det.packet # None /\ det.alert = None
      BY <1>4, <2>1 DEF DetectorHolds
    <3>3. det' \in DetectorState /\ det'.at = "run" /\ det'.packet # None /\ det'.alert = None
      BY <2>1, <2>4, <3>1, <3>2 DEF DetectorState
    <3>4. DetectorHolds'
      BY <3>3 DEF DetectorHolds
    <3>5. alert_queue' \in Seq(Alert) /\ Len(alert_queue') <= AlertCap
      <4>1. alert_queue' = alert_queue \/ (alert_queue' = Append(alert_queue, a) /\ Len(alert_queue) < AlertCap)
        BY <2>1
      <4>2. /\ Append(alert_queue, a) \in Seq(Alert)
            /\ Len(alert_queue) < AlertCap => Len(Append(alert_queue, a)) <= AlertCap
        BY <1>4, <2>2, AppendFits, Constants
      <4> QED BY <1>4, <4>1, <4>2
    <3>6. holder' \in {"detector", "arp_scanner", None} /\ produced' \in [{"detector", "arp_scanner"} -> Seq(Alert)]
      BY <1>4, <2>1, <2>3
    <3> QED BY <1>4, <2>1, <3>3, <3>4, <3>5, <3>6
  <2>5. CASE det' = [det EXCEPT !.at = "put", !.alert = a] /\ alert_queue' = alert_queue
    <3>1. det \in DetectorState /\ det.packet # None
      BY <1>4, <2>1 DEF DetectorHolds
    <3>2. /\ det' \in DetectorState /\ det'.at = "put" /\ det'.packet # None /\ det'.next = det.next
          /\ det'.alert = a
      BY <2>2, <2>5, <3>1 DEF DetectorState
    <3>3. DetectorHolds'
      BY <2>1, <2>2, <3>2 DEF DetectorHolds
    <3>4. holder' \in {"detector", "arp_scanner", None} /\ produced' \in [{"detector", "arp_scanner"} -> Seq(Alert)]
      BY <1>4, <2>1, <2>3
    <3> QED BY <1>4, <2>1, <2>5, <3>2, <3>3, <3>4
  <2> QED BY <2>1, <2>4, <2>5
<1>9. CASE PutDetectorAlert
  <2>1. /\ det.at = "put" /\ Len(alert_queue) < AlertCap /\ alert_queue' = Append(alert_queue, det.alert)
        /\ det' = [det EXCEPT !.at = "run", !.next = @ + 1, !.alert = None] /\ holder' = "detector"
        /\ UNCHANGED <<packet_queue, known, produced, late>>
    BY <1>9 DEF PutDetectorAlert
  <2>2. det.alert \in Alert /\ det.next + 1 \in 1 .. Len(Chain) + 1
    BY <1>4, <2>1, AlertsTyped, Constants DEF DetectorHolds, DetectorState
  <2>3. det \in DetectorState /\ det.packet # None
    BY <1>4, <2>1 DEF DetectorHolds
  <2>4. det' \in DetectorState /\ det'.at = "run" /\ det'.packet # None /\ det'.alert = None
    BY <2>1, <2>2, <2>3 DEF DetectorState
  <2>5. DetectorHolds'
    BY <2>4 DEF DetectorHolds
  <2> QED BY <1>4, <2>1, <2>2, <2>4, <2>5, Constants
<1>10. CASE PacketDone
  <2>1. /\ det' = [at |-> LoopTest, packet |-> None, next |-> 1, alert |-> None]
        /\ LoopTest \in {"get", "done"} /\ holder' = None
        /\ UNCHANGED <<packet_queue, alert_queue, known, produced, late>>
    BY <1>10 DEF PacketDone, queues, LoopTest
  <2>2. det' \in DetectorState /\ DetectorHolds'
    BY <2>1, Constants DEF DetectorState, DetectorHolds
  <2> QED BY <1>4, <2>1, <2>2
<1> QED BY <1>6, <1>7, <1>8, <1>9, <1>10 DEF DetectorLoop

LEMMA DispatchTyped ==
  ASSUME Typed, Dispatch
  PROVE  Typed'
<1>1. UNCHANGED <<detectorVars, stopping, phase, holder, packet_queue, cap, det, arp,
                  known, captured, produced>>
  BY DEF Dispatch, DispatchTimesOut, TakeAlert, Send, DispatchOnly
<1>2. DetectorsTypeOK'
  BY <1>1 DEF DetectorsTypeOK, detectorVars, Typed, TypeOK
<1>3. CaptureHolds' /\ DetectorHolds' /\ ScanHolds'
  BY <1>1 DEF Typed, Placed, CaptureHolds, DetectorHolds, ScanHolds
<1>4. /\ disp \in DispatchState /\ phase # "ended" /\ DispatchHolds
      /\ alert_queue \in Seq(Alert) /\ Len(alert_queue) <= AlertCap
      /\ settled \in Seq(Outcome) /\ tried \in [DOMAIN Handlers -> Seq(Alert)]
      /\ late \in [packets: Nat, alerts: Nat]
  BY DEF Typed, TypeOK, Placed, Dispatch, DispatchTimesOut, TakeAlert, Send, MayRun
<1> DEFINE Goal == /\ disp \in DispatchState /\ DispatchHolds
                   /\ alert_queue \in Seq(Alert) /\ Len(alert_queue) <= AlertCap
                   /\ settled \in Seq(Outcome) /\ tried \in [DOMAIN Handlers -> Seq(Alert)]
                   /\ late \in [packets: Nat, alerts: Nat]
<1>5. SUFFICES Goal'
  BY <1>1, <1>2, <1>3 DEF Typed, TypeOK, Placed
<1>6. CASE DispatchTimesOut
  <2>1. /\ disp.at = "get" /\ disp' = [disp EXCEPT !.at = LoopTest] /\ LoopTest \in {"get", "done"}
        /\ UNCHANGED <<alert_queue, settled, tried, late>>
    BY <1>6 DEF DispatchTimesOut, LoopTest
  <2>2. disp' \in DispatchState /\ DispatchHolds'
    BY <1>4, <2>1 DEF DispatchState, DispatchHolds
  <2> QED BY <1>4, <2>1, <2>2
<1>7. CASE TakeAlert
  <2> DEFINE o == [alert |-> Head(alert_queue), dropped |-> TRUE]
  <2>1. Head(alert_queue) \in Alert /\ Tail(alert_queue) \in Seq(Alert) /\ Len(Tail(alert_queue)) <= AlertCap
    BY <1>4, <1>7, Constants DEF TakeAlert
  <2>2. /\ disp.at = "get" /\ LoopTest \in {"get", "done"}
        /\ alert_queue' = Tail(alert_queue) /\ tried' = tried
        /\ late' \in {[late EXCEPT !.alerts = @ + 1], late}
        /\ \/ settled' = Append(settled, o)
              /\ disp' = [disp EXCEPT !.at = LoopTest]
           \/ settled' = settled /\ disp' = [at |-> "send", alert |-> Head(alert_queue), next |-> 1]
    BY <1>7 DEF TakeAlert, AfterDrop, LoopTest
  <2>3. o \in Outcome
    BY <2>1 DEF Outcome
  <2> HIDE DEF o
  <2>4. disp' \in DispatchState /\ DispatchHolds'
    <3>1. CASE disp' = [disp EXCEPT !.at = LoopTest]
      BY <1>4, <2>2, <3>1 DEF DispatchState, DispatchHolds
    <3>2. CASE disp' = [at |-> "send", alert |-> Head(alert_queue), next |-> 1]
      BY <2>1, <3>2, Constants DEF DispatchState, DispatchHolds
    <3> QED BY <2>2, <3>1, <3>2
  <2>5. settled' \in Seq(Outcome)
    <3>1. settled' \in {settled, Append(settled, o)}
      BY <2>2
    <3>2. settled \in Seq(Outcome) /\ Append(settled, o) \in Seq(Outcome)
      BY <1>4, <2>3
    <3> QED BY <3>1, <3>2
  <2>6. late' \in [packets: Nat, alerts: Nat]
    BY <1>4, <2>2
  <2> QED BY <1>4, <2>1, <2>2, <2>4, <2>5, <2>6
<1>8. CASE Send
  <2> DEFINE o == [alert |-> disp.alert, dropped |-> FALSE]
  <2>1. /\ disp.at = "send" /\ disp.alert \in Alert /\ disp.next \in DOMAIN Handlers
    BY <1>4, <1>8, Constants DEF Send, DispatchHolds, DispatchState
  <2>2. /\ tried' = [tried EXCEPT ![disp.next] = Append(@, disp.alert)]
        /\ UNCHANGED <<alert_queue, late>> /\ LoopTest \in {"get", "done"}
        /\ \/ /\ disp.next = Len(Handlers) /\ disp' = [at |-> LoopTest, alert |-> None, next |-> 1]
              /\ settled' = Append(settled, o)
           \/ disp.next # Len(Handlers) /\ disp' = [disp EXCEPT !.next = @ + 1] /\ settled' = settled
    BY <1>8 DEF Send, LastSend, LoopTest
  <2>3. o \in Outcome
    BY <2>1 DEF Outcome
  <2> HIDE DEF o
  <2>4. disp' \in DispatchState /\ DispatchHolds'
    <3>1. CASE disp' = [at |-> LoopTest, alert |-> None, next |-> 1]
      BY <2>2, <3>1, Constants DEF DispatchState, DispatchHolds
    <3>2. CASE disp.next # Len(Handlers) /\ disp' = [disp EXCEPT !.next = @ + 1]
      <4>1. disp.next + 1 \in 1 .. Len(Handlers) /\ disp.next + 1 \in 1 .. Len(Handlers) + 1
        BY <2>1, <3>2, Constants
      <4>2. disp' \in DispatchState /\ disp'.at = "send" /\ disp'.alert = disp.alert /\ disp'.next = disp.next + 1
        BY <1>4, <2>1, <3>2, <4>1 DEF DispatchState
      <4> QED BY <2>1, <4>1, <4>2, Constants DEF DispatchHolds
    <3> QED BY <2>2, <3>1, <3>2
  <2>5. settled' \in Seq(Outcome) /\ tried' \in [DOMAIN Handlers -> Seq(Alert)]
    <3>1. Append(tried[disp.next], disp.alert) \in Seq(Alert)
      BY <1>4, <2>1
    <3>2. settled' \in {settled, Append(settled, o)}
      BY <2>2
    <3>3. settled' \in Seq(Outcome)
      <4>1. settled \in Seq(Outcome) /\ Append(settled, o) \in Seq(Outcome)
        BY <1>4, <2>3
      <4> QED BY <3>2, <4>1
    <3> QED BY <1>4, <2>1, <2>2, <3>1, <3>3
  <2> QED BY <1>4, <2>2, <2>4, <2>5
<1> QED BY <1>6, <1>7, <1>8 DEF Dispatch

LEMMA ScanTyped ==
  ASSUME Typed, Scan
  PROVE  Typed'
<1>1. UNCHANGED <<detectorVars, stopping, phase, packet_queue, cap, det, disp, captured,
                  settled, tried, late>>
  BY DEF Scan, TestScan, Found, Report, PutScanAlert, ScanDone, ScanOnly
<1>2. DetectorsTypeOK'
  BY <1>1 DEF DetectorsTypeOK, detectorVars, Typed, TypeOK
<1>3. CaptureHolds' /\ DetectorHolds' /\ DispatchHolds'
  BY <1>1 DEF Typed, Placed, CaptureHolds, DetectorHolds, DispatchHolds
<1>4. /\ arp \in ScanState /\ phase # "ended" /\ ScanHolds
      /\ alert_queue \in Seq(Alert) /\ Len(alert_queue) <= AlertCap
      /\ known \subseteq Devices /\ holder \in {"detector", "arp_scanner", None}
      /\ produced \in [{"detector", "arp_scanner"} -> Seq(Alert)]
  BY DEF Typed, TypeOK, Placed, Scan, TestScan, Found, Report, PutScanAlert, ScanDone, MayRun
<1> DEFINE Goal == /\ arp \in ScanState /\ ScanHolds
                   /\ alert_queue \in Seq(Alert) /\ Len(alert_queue) <= AlertCap
                   /\ known \subseteq Devices /\ holder \in {"detector", "arp_scanner", None}
                   /\ produced \in [{"detector", "arp_scanner"} -> Seq(Alert)]
<1>5. SUFFICES Goal'
  BY <1>1, <1>2, <1>3 DEF Typed, TypeOK, Placed
<1>6. CASE TestScan \/ ScanDone
  <2>1. /\ arp.at # "put" /\ \E a \in {"done", "scan", "wait"} : arp' = [arp EXCEPT !.at = a]
        /\ UNCHANGED <<alert_queue, known, produced>> /\ holder' \in {holder, None}
    BY <1>6 DEF TestScan, ScanDone
  <2>2. arp' \in ScanState /\ ScanHolds'
    BY <1>1, <1>4, <2>1 DEF ScanState, ScanHolds
  <2> QED BY <1>4, <2>1, <2>2
<1>7. ASSUME NEW ds \in SUBSET Devices, Found(ds) PROVE Goal'
  <2>1. /\ arp.at = "scan" /\ holder' \in {holder, "arp_scanner"}
        /\ arp' \in {[arp EXCEPT !.at = "wait"], [arp EXCEPT !.at = "report", !.left = ds]}
        /\ UNCHANGED <<alert_queue, known, produced>>
    BY <1>7 DEF Found
  <2>2. arp' \in ScanState /\ ScanHolds'
    BY <1>1, <1>4, <2>1 DEF ScanState, ScanHolds
  <2> QED BY <1>4, <2>1, <2>2
<1>8. ASSUME NEW d \in Devices, Report(d) PROVE Goal'
  <2> DEFINE a == [by |-> "arp", no |-> d]
             rest == [arp EXCEPT !.left = @ \ {d}]
  <2>1. /\ arp.at = "report" /\ known' = known \cup {d}
        /\ \/ arp' = rest /\ UNCHANGED <<alert_queue, produced, holder>>
           \/ /\ Len(alert_queue) < AlertCap /\ alert_queue' = Append(alert_queue, a)
              /\ arp' = rest /\ holder' = "arp_scanner"
              /\ produced' = [produced EXCEPT !["arp_scanner"] = Append(@, a)]
           \/ /\ arp' = [rest EXCEPT !.at = "put", !.alert = a] /\ alert_queue' = alert_queue /\ holder' = None
              /\ produced' = [produced EXCEPT !["arp_scanner"] = Append(@, a)]
    BY <1>8 DEF Report, Offer
  <2>2. a \in AlertOf("arp_scanner") /\ a \in Alert
    BY AlertsTyped
  <2> HIDE DEF a
  <2>3. rest \in ScanState /\ rest.at = "report" /\ rest.alert = None
    BY <1>4, <2>1 DEF ScanState, ScanHolds
  <2> HIDE DEF rest
  <2>4. arp' \in ScanState /\ ScanHolds'
    <3>1. CASE arp' = rest
      BY <2>3, <3>1 DEF ScanHolds
    <3>2. CASE arp' = [rest EXCEPT !.at = "put", !.alert = a]
      BY <2>2, <2>3, <3>2 DEF ScanState, ScanHolds
    <3> QED BY <2>1, <3>1, <3>2
  <2>5. alert_queue' \in Seq(Alert) /\ Len(alert_queue') <= AlertCap
    <3>1. alert_queue' = alert_queue \/ (alert_queue' = Append(alert_queue, a) /\ Len(alert_queue) < AlertCap)
      BY <2>1
    <3>2. /\ Append(alert_queue, a) \in Seq(Alert)
          /\ Len(alert_queue) < AlertCap => Len(Append(alert_queue, a)) <= AlertCap
      BY <1>4, <2>2, AppendFits, Constants
    <3> QED BY <1>4, <3>1, <3>2
  <2>6. produced' \in [{"detector", "arp_scanner"} -> Seq(Alert)]
    <3>1. produced' \in {produced, [produced EXCEPT !["arp_scanner"] = Append(@, a)]}
      BY <2>1
    <3>2. Append(produced["arp_scanner"], a) \in Seq(Alert)
      BY <1>4, <2>2
    <3> QED BY <1>4, <3>1, <3>2
  <2>7. known' \subseteq Devices /\ holder' \in {"detector", "arp_scanner", None}
    BY <1>4, <2>1
  <2> QED BY <2>4, <2>5, <2>6, <2>7
<1>9. CASE PutScanAlert
  <2>1. /\ arp.at = "put" /\ Len(alert_queue) < AlertCap /\ alert_queue' = Append(alert_queue, arp.alert)
        /\ arp' = [arp EXCEPT !.at = "report", !.alert = None] /\ holder' = "arp_scanner"
        /\ UNCHANGED <<known, produced>>
    BY <1>9 DEF PutScanAlert
  <2>2. arp.alert \in Alert
    BY <1>4, <2>1, AlertsTyped DEF ScanHolds
  <2>3. arp' \in ScanState /\ ScanHolds'
    BY <1>4, <2>1 DEF ScanState, ScanHolds
  <2> QED BY <1>4, <2>1, <2>2, <2>3, Constants
<1> QED BY <1>6, <1>7, <1>8, <1>9 DEF Scan

LEMMA EndTyped ==
  ASSUME Typed, Quit \/ Fails \/ End
  PROVE  Typed'
<1>1. UNCHANGED <<detectorVars, packet_queue, alert_queue, known, captured, produced, settled, tried, late>>
  BY DEF Quit, Fails, End, Close, CancelAll, Finish, EndOnly, queues, histories
<1>2. DetectorsTypeOK'
  BY <1>1 DEF DetectorsTypeOK, detectorVars, Typed, TypeOK
<1>3. /\ cap \in CaptureState /\ det \in DetectorState /\ disp \in DispatchState /\ arp \in ScanState
      /\ stopping \in BOOLEAN /\ phase \in {"running", "closing", "ended"}
      /\ holder \in {"detector", "arp_scanner", None} /\ Placed
  BY DEF Typed, TypeOK
<1> DEFINE Goal == /\ cap \in CaptureState /\ det \in DetectorState
                   /\ disp \in DispatchState /\ arp \in ScanState
                   /\ stopping \in BOOLEAN /\ phase \in {"running", "closing", "ended"}
                   /\ holder \in {"detector", "arp_scanner", None} /\ Placed
<1>4. SUFFICES Goal'
  BY <1>1, <1>2 DEF Typed, TypeOK
<1> USE DEF Placed, CaptureHolds, DetectorHolds, DispatchHolds, ScanHolds
<1>5. CASE Quit \/ Close
  BY <1>3, <1>5 DEF Quit, Close
<1>6. CASE Fails
  <2>1. UNCHANGED stopping /\ phase = "running" /\ phase' = "closing" /\ holder' = None
    BY <1>6 DEF Fails
  <2>2. CASE UNCHANGED <<cap, det, disp, arp>>
    BY <1>3, <2>1, <2>2
  <2>3. CASE det.at = "run" /\ det' = [det EXCEPT !.at = "done"] /\ UNCHANGED <<cap, disp, arp>>
    BY <1>3, <2>1, <2>3 DEF DetectorState
  <2>4. CASE arp.at = "report" /\ arp' = [arp EXCEPT !.at = "done"] /\ UNCHANGED <<cap, det, disp>>
    BY <1>3, <2>1, <2>4 DEF ScanState
  <2> QED BY <1>6, <2>2, <2>3, <2>4 DEF Fails
<1>7. CASE CancelAll
  <2>1. /\ phase' = "ended" /\ UNCHANGED <<stopping, holder>>
        /\ cap' = [cap EXCEPT !.at = "done"] /\ det' = [det EXCEPT !.at = "done"]
        /\ disp' = [disp EXCEPT !.at = "done"] /\ arp' = [arp EXCEPT !.at = "done"]
    BY <1>7 DEF CancelAll
  <2>2. cap' \in CaptureState /\ det' \in DetectorState /\ det'.at = "done"
    BY <1>3, <2>1 DEF CaptureState, DetectorState
  <2>3. disp' \in DispatchState /\ arp' \in ScanState /\ disp'.at = "done" /\ arp'.at = "done"
    BY <1>3, <2>1 DEF DispatchState, ScanState
  <2> QED BY <1>3, <2>1, <2>2, <2>3
<1>8. CASE Finish
  <2>1. /\ phase' = "ended" /\ UNCHANGED <<stopping, holder, cap, det, disp, arp>>
    BY <1>8 DEF Finish
  <2> QED BY <1>3, <2>1
<1> QED BY <1>5, <1>6, <1>7, <1>8 DEF End

LEMMA TypedStep ==
  ASSUME Typed, [Next]_vars
  PROVE  Typed'
<1>1. CASE UNCHANGED vars
  <2>1. UNCHANGED <<detectorVars, stopping, phase, holder, packet_queue, alert_queue, cap, det, disp,
                    arp, known, captured, produced, settled, tried, late>>
    BY <1>1 DEF vars, queues, histories
  <2>2. DetectorsTypeOK'
    BY <2>1 DEF DetectorsTypeOK, detectorVars, Typed, TypeOK
  <2> QED BY <2>1, <2>2 DEF Typed, TypeOK, Placed, CaptureHolds, DetectorHolds, DispatchHolds, ScanHolds
<1> QED BY <1>1, CaptureTyped, DetectorTyped, DispatchTyped, ScanTyped, EndTyped DEF Next

LEMMA TypedAlways == Spec => []Typed
<1>1. Init => Typed
  BY TypedInit
<1>2. Typed /\ [Next]_vars => Typed'
  BY TypedStep
<1> QED BY <1>1, <1>2, PTL DEF Spec

\* The variables of all tasks keep their types, whatever the order they run in.
THEOREM PipelineTyped == Spec => []TypeOK
<1>1. Typed => TypeOK
  BY DEF Typed
<1> QED BY <1>1, TypedAlways, PTL

\* In the composed monitor the detectors do what they do alone: every alarm of the promise
\* is raised and no other, although packets wait in a queue and a detector for the dispatcher.
THEOREM PipelineAlarms == Spec => Alarms
<1>1. Init => DetectorsInit
  BY DEF Init
<1>2. Typed /\ [Next]_vars => [DetectorsNext]_detectorVars
  BY StepsDetectors
<1>3. Spec => DetectorsSpec
  BY <1>1, <1>2, TypedAlways, PTL DEF Spec, DetectorsSpec
<1> QED BY <1>3, DetectorsImplementAlarm

-------------------------------------------------------------------------------
(* Stopping *)

\* What each loop has taken since stop_event was set, and where it is now.
StopInv ==
  /\ stopping \in BOOLEAN /\ late \in [packets: Nat, alerts: Nat]
  /\ ~stopping => late.packets = 0 /\ late.alerts = 0
  /\ late.packets = 0 \/ (late.packets = 1 /\ det.at # "get")
  /\ late.alerts = 0 \/ (late.alerts = 1 /\ disp.at # "get")

LEMMA StopStep ==
  ASSUME StopInv, Typed, [Next]_vars
  PROVE  StopInv'
<1>0. det \in DetectorState /\ disp \in DispatchState
  BY DEF Typed, TypeOK
<1>1. CASE Capture
  BY <1>1 DEF StopInv, Capture, StartTshark, ReadPacket, ReadOther, StreamEnds, PutPacket, CaptureOnly
<1>2. CASE GetPacket
  <2>1. /\ det.at = "get" /\ det'.at = "run" /\ UNCHANGED <<stopping, disp>>
        /\ late' = IF stopping THEN [late EXCEPT !.packets = @ + 1] ELSE late
    BY <1>2 DEF GetPacket, DetectorOnly
  <2> QED BY <2>1 DEF StopInv
<1>3. CASE GetTimesOut \/ PacketDone
  <2>1. UNCHANGED <<stopping, disp, late>> /\ det'.at = LoopTest
    BY <1>0, <1>3 DEF GetTimesOut, PacketDone, DetectorOnly, DetectorState
  <2> QED BY <2>1 DEF StopInv, LoopTest
<1>4. CASE RunDetector \/ PutDetectorAlert
  <2>1. UNCHANGED <<stopping, disp, late>> /\ det.at # "get" /\ det'.at # "get"
    BY <1>0, <1>4 DEF RunDetector, PutDetectorAlert, Offer, DetectorOnly, DetectorState
  <2> QED BY <2>1 DEF StopInv
<1>5. CASE DispatchTimesOut
  <2>1. UNCHANGED <<stopping, det, late>> /\ disp'.at = LoopTest
    BY <1>0, <1>5 DEF DispatchTimesOut, DispatchOnly, DispatchState
  <2> QED BY <2>1 DEF StopInv, LoopTest
<1>6. CASE TakeAlert
  <2>1. /\ disp.at = "get" /\ disp'.at \in {LoopTest, "send"} /\ UNCHANGED <<stopping, det>>
        /\ late' = IF stopping THEN [late EXCEPT !.alerts = @ + 1] ELSE late
    BY <1>0, <1>6 DEF TakeAlert, AfterDrop, DispatchOnly, DispatchState
  <2> QED BY <2>1 DEF StopInv, LoopTest
<1>7. CASE Send
  <2>1. UNCHANGED <<stopping, det, late>> /\ disp'.at \in {LoopTest, "send"}
    BY <1>0, <1>7 DEF Send, DispatchOnly, DispatchState
  <2> QED BY <2>1 DEF StopInv, LoopTest
<1>8. CASE Scan
  BY <1>8 DEF StopInv, Scan, TestScan, Found, Report, PutScanAlert, ScanDone, ScanOnly
<1>9. CASE Quit \/ Fails \/ End
  <2>1. /\ late' = late /\ stopping' \in BOOLEAN /\ (stopping => stopping')
        /\ det'.at \in {det.at, "done"} /\ disp'.at \in {disp.at, "done"}
    BY <1>0, <1>9 DEF Quit, Fails, End, Close, CancelAll, Finish, EndOnly, histories, DetectorState,
       DispatchState, StopInv
  <2> QED BY <2>1 DEF StopInv
<1>10. CASE UNCHANGED vars
  BY <1>10 DEF StopInv, vars, histories
<1> QED BY <1>1, <1>2, <1>3, <1>4, <1>5, <1>6, <1>7, <1>8, <1>9, <1>10
    DEF Next, DetectorLoop, Dispatch

\* Once stop_event is set, the detector loop takes at most one more packet and the dispatcher
\* at most one more alert: each tests it between two items, and only there.
THEOREM StoppingIsPrompt == Spec => []StopIsPrompt
<1>1. Init => StopInv
  <2> SUFFICES ASSUME Init PROVE StopInv
    OBVIOUS
  <2>1. stopping = FALSE /\ late = [packets |-> 0, alerts |-> 0]
    BY DEF Init
  <2> QED BY <2>1 DEF StopInv
<1>2. StopInv /\ Typed /\ [Next]_vars => StopInv'
  BY StopStep
<1>3. StopInv => StopIsPrompt
  BY DEF StopInv, StopIsPrompt
<1> QED BY <1>1, <1>2, <1>3, TypedAlways, PTL DEF Spec

-------------------------------------------------------------------------------
(* Alerts: from the producers through the queue to the handlers *)

LEMMA AlertedTyped ==
  ASSUME NEW s \in Seq(Outcome)
  PROVE  /\ Alerted(s) \in Seq(Alert) /\ Len(Alerted(s)) = Len(s)
         /\ \A i \in 1 .. Len(s) : Alerted(s)[i] = s[i].alert
<1>1. Len(s) \in Nat /\ DOMAIN s = 1 .. Len(s) /\ \A i \in 1 .. Len(s) : s[i].alert \in Alert
  <2>1. \A i \in 1 .. Len(s) : s[i] \in Outcome
    OBVIOUS
  <2> QED BY <2>1 DEF Outcome
<1>2. Alerted(s) = [i \in 1 .. Len(s) |-> s[i].alert]
  BY <1>1 DEF Alerted
<1> QED BY <1>1, <1>2

LEMMA AlertedAppends ==
  ASSUME NEW s \in Seq(Outcome), NEW o \in Outcome
  PROVE  Alerted(Append(s, o)) = Append(Alerted(s), o.alert)
<1> DEFINE t == Append(s, o)
           a == Alerted(t)
           b == Append(Alerted(s), o.alert)
<1>1. /\ t \in Seq(Outcome) /\ Len(t) = Len(s) + 1 /\ o.alert \in Alert
      /\ \A i \in 1 .. Len(s) + 1 : t[i] = IF i = Len(s) + 1 THEN o ELSE s[i]
  BY DEF Outcome
<1> HIDE DEF t
<1>2. a \in Seq(Alert) /\ Len(a) = Len(s) + 1 /\ \A i \in 1 .. Len(s) + 1 : a[i] = t[i].alert
  BY <1>1, AlertedTyped
<1>3. /\ b \in Seq(Alert) /\ Len(b) = Len(s) + 1
      /\ \A i \in 1 .. Len(s) + 1 : b[i] = IF i = Len(s) + 1 THEN o.alert ELSE s[i].alert
  BY <1>1, AlertedTyped
<1> HIDE DEF a, b
<1>4. \A i \in 1 .. Len(a) : a[i] = b[i]
  BY <1>1, <1>2, <1>3
<1>5. a = b
  BY <1>2, <1>3, <1>4, SeqEqual
<1> QED BY <1>5 DEF a, b, t

LEMMA SentAppends ==
  ASSUME NEW s \in Seq(Outcome), NEW o \in Outcome
  PROVE  /\ Alerted(Only(Sent, s)) \in Seq(Alert)
         /\ Alerted(Only(Sent, Append(s, o))) =
              IF o.dropped THEN Alerted(Only(Sent, s)) ELSE Append(Alerted(Only(Sent, s)), o.alert)
<1>1. Only(Sent, s) \in Seq(Sent)
  BY OnlyTyped
<1>2. Only(Sent, s) \in Seq(Outcome)
  <2>1. Sent \subseteq Outcome
    BY DEF Sent, Outcome
  <2> QED BY <1>1, <2>1, SeqMonotonic
<1>3. Only(Sent, Append(s, o)) = IF o \in Sent THEN Append(Only(Sent, s), o) ELSE Only(Sent, s)
  BY OnlyAppends
<1>4. o \in Sent <=> ~o.dropped
  BY DEF Sent, Outcome
<1> QED BY <1>2, <1>3, <1>4, AlertedTyped, AlertedAppends

\* The handlers' rounds: those finished, and the one under way.
AgreeInv ==
  phase # "ended" => \A h \in DOMAIN Handlers :
    tried[h] = Alerted(Only(Sent, settled))
                 \o (IF disp.at = "send" /\ h < disp.next THEN <<disp.alert>> ELSE <<>>)

LEMMA AgreeStep ==
  ASSUME AgreeInv, Typed, [Next]_vars
  PROVE  AgreeInv'
<1>1. SUFFICES ASSUME phase' # "ended" PROVE AgreeInv'
  BY DEF AgreeInv
<1>2. phase # "ended"
  BY <1>1 DEF Next, Capture, StartTshark, ReadPacket, ReadOther, StreamEnds, PutPacket, CaptureOnly,
     DetectorLoop, GetPacket, GetTimesOut, RunDetector, PutDetectorAlert, PacketDone, DetectorOnly,
     Dispatch, DispatchTimesOut, TakeAlert, Send, DispatchOnly,
     Scan, TestScan, Found, Report, PutScanAlert, ScanDone, ScanOnly, MayRun,
     Quit, Fails, End, Close, CancelAll, Finish, vars
<1>3. /\ disp \in DispatchState /\ DispatchHolds /\ settled \in Seq(Outcome)
      /\ tried \in [DOMAIN Handlers -> Seq(Alert)] /\ DOMAIN Handlers = 1 .. Len(Handlers)
  BY Constants DEF Typed, TypeOK, Placed
<1> DEFINE R == Alerted(Only(Sent, settled))
<1>4. \A h \in DOMAIN Handlers :
        tried[h] = R \o (IF disp.at = "send" /\ h < disp.next THEN <<disp.alert>> ELSE <<>>)
  BY <1>2 DEF AgreeInv
<1> HIDE DEF R
<1>5. CASE UNCHANGED <<settled, tried, disp>>
  BY <1>1, <1>2, <1>5 DEF AgreeInv
<1>6. CASE DispatchTimesOut
  <2>1. disp.at # "send" /\ disp'.at # "send" /\ UNCHANGED <<settled, tried>>
    BY <1>3, <1>6 DEF DispatchTimesOut, LoopTest, DispatchState
  <2> QED BY <1>4, <2>1 DEF AgreeInv, R
<1>7. CASE TakeAlert
  <2> DEFINE o == [alert |-> Head(alert_queue), dropped |-> TRUE]
  <2>1. /\ disp.at # "send" /\ UNCHANGED tried
        /\ \/ settled' = Append(settled, o) /\ disp'.at # "send"
           \/ settled' = settled /\ disp'.at = "send" /\ disp'.next = 1
    BY <1>3, <1>7 DEF TakeAlert, AfterDrop, LoopTest, DispatchState
  <2>2. o \in Outcome /\ o.dropped
    BY <1>7 DEF TakeAlert, Outcome, Typed, TypeOK
  <2> HIDE DEF o
  <2>3. R' = R
    BY <1>3, <2>1, <2>2, SentAppends DEF R
  <2>4. \A h \in DOMAIN Handlers : ~(disp'.at = "send" /\ h < disp'.next)
    BY <1>3, <2>1
  <2> QED BY <1>4, <2>1, <2>3, <2>4 DEF AgreeInv, R
<1>8. CASE Send
  <2> DEFINE o == [alert |-> disp.alert, dropped |-> FALSE]
  <2>1. /\ disp.at = "send" /\ disp.next \in 1 .. Len(Handlers) /\ disp.alert \in Alert
        /\ Len(Handlers) \in Nat
        /\ tried' = [tried EXCEPT ![disp.next] = Append(@, disp.alert)]
    BY <1>3, <1>8, Constants DEF Send, DispatchHolds, DispatchState
  <2>2. o \in Outcome /\ ~o.dropped /\ o.alert = disp.alert
    BY <2>1 DEF Outcome
  <2>3. R \in Seq(Alert)
    BY <1>3, <2>2, SentAppends DEF R
  <2>4. R \o <<>> = R /\ R \o <<disp.alert>> = Append(R, disp.alert)
    BY <2>1, <2>3
  <2>5. \A h \in DOMAIN Handlers :
          tried'[h] = IF h <= disp.next THEN Append(R, disp.alert) ELSE R
    <3> TAKE h \in DOMAIN Handlers
    <3>1. h \in 1 .. Len(Handlers) /\ tried[h] = R \o (IF h < disp.next THEN <<disp.alert>> ELSE <<>>)
      BY <1>3, <1>4, <2>1
    <3>2. tried'[h] = IF h = disp.next THEN Append(tried[h], disp.alert) ELSE tried[h]
      BY <1>3, <2>1
    <3>3. h \in Int /\ disp.next \in Int
      BY <2>1, <3>1
    <3>4. CASE h < disp.next
      <4>1. tried[h] = R \o <<disp.alert>> /\ h # disp.next /\ h <= disp.next
        BY <3>1, <3>3, <3>4
      <4> QED BY <2>4, <3>2, <4>1
    <3>5. CASE h = disp.next
      <4>1. ~(h < disp.next) /\ h <= disp.next
        BY <3>3, <3>5
      <4>2. tried[h] = R \o <<>>
        BY <3>1, <4>1, Zenon
      <4> QED BY <2>4, <3>2, <3>5, <4>1, <4>2
    <3>6. CASE h > disp.next
      <4>1. ~(h < disp.next) /\ h # disp.next /\ ~(h <= disp.next)
        BY <3>3, <3>6
      <4>2. tried[h] = R \o <<>>
        BY <3>1, <4>1, Zenon
      <4> QED BY <2>4, <3>2, <4>1, <4>2
    <3> QED BY <3>3, <3>4, <3>5, <3>6
  <2>6. CASE disp.next = Len(Handlers)
    <3>1. settled' = Append(settled, o) /\ disp'.at # "send"
      BY <1>8, <2>6 DEF Send, LastSend, LoopTest
    <3>2. R' = Append(R, disp.alert)
      BY <1>3, <2>2, <3>1, SentAppends DEF R
    <3>3. R' \o <<>> = R'
      BY <2>1, <2>3, <3>2
    <3>4. \A h \in DOMAIN Handlers : tried'[h] = R' \o <<>>
      BY <1>3, <2>1, <2>5, <2>6, <3>2, <3>3
    <3> QED BY <3>1, <3>4 DEF AgreeInv, R
  <2>7. CASE disp.next # Len(Handlers)
    <3>1. /\ UNCHANGED settled /\ disp'.at = "send" /\ disp'.next = disp.next + 1
          /\ disp'.alert = disp.alert
      BY <1>3, <1>8, <2>1, <2>7 DEF Send, LastSend, DispatchState
    <3>2. \A h \in DOMAIN Handlers : h <= disp.next <=> h < disp'.next
      BY <1>3, <2>1, <3>1
    <3> QED BY <2>1, <2>4, <2>5, <3>1, <3>2 DEF AgreeInv, R
  <2> QED BY <2>6, <2>7
<1>9. CASE Capture \/ DetectorLoop \/ Scan
  BY <1>5, <1>9 DEF Capture, StartTshark, ReadPacket, ReadOther, StreamEnds, PutPacket, CaptureOnly,
     DetectorLoop, GetPacket, GetTimesOut, RunDetector, PutDetectorAlert, PacketDone, DetectorOnly,
     Scan, TestScan, Found, Report, PutScanAlert, ScanDone, ScanOnly
<1>10. CASE Quit \/ Fails \/ End
  BY <1>1, <1>5, <1>10 DEF Quit, Fails, End, Close, CancelAll, Finish, EndOnly, histories
<1>11. CASE UNCHANGED vars
  BY <1>5, <1>11 DEF vars, histories
<1> QED BY <1>6, <1>7, <1>8, <1>9, <1>10, <1>11 DEF Next, Dispatch

\* Every handler is called once with every alert that passes the filters, in the order of the
\* others, whatever handlers raise: for any number of handlers.
THEOREM EveryHandlerCalled == Spec => []HandlersAgree
<1>1. Init => AgreeInv
  <2> SUFFICES ASSUME Init PROVE AgreeInv
    OBVIOUS
  <2>1. settled = <<>> /\ disp.at = "get" /\ \A h \in DOMAIN Handlers : tried[h] = <<>>
    BY DEF Init
  <2>2. Alerted(Only(Sent, <<>>)) = <<>>
    BY OnlyOfNone DEF Alerted
  <2> QED BY <2>1, <2>2 DEF AgreeInv
<1>2. AgreeInv /\ Typed /\ [Next]_vars => AgreeInv'
  BY AgreeStep
<1>3. AgreeInv => HandlersAgree
  BY DEF AgreeInv, HandlersAgree
<1> QED BY <1>1, <1>2, <1>3, TypedAlways, PTL DEF Spec

-------------------------------------------------------------------------------
(* Alerts: none is lost between a producer and the dispatcher *)

Producers == {"detector", "arp_scanner"}

\* What has left the producers, oldest first.
Flow == Alerted(settled) \o InHand

LEMMA FlowTyped ==
  ASSUME Typed
  PROVE  /\ Alerted(settled) \in Seq(Alert) /\ InHand \in Seq(Alert) /\ Flow \in Seq(Alert)
         /\ alert_queue \in Seq(Alert) /\ settled \in Seq(Outcome)
         /\ disp \in DispatchState /\ disp.alert \in Alert \cup {None}
<1>1. disp.alert \in Alert \cup {None} /\ alert_queue \in Seq(Alert)
  BY DEF Typed, TypeOK, DispatchState
<1>2. InHand \in Seq(Alert)
  BY <1>1 DEF InHand
<1>3. Alerted(settled) \in Seq(Alert)
  BY AlertedTyped DEF Typed, TypeOK
<1> QED BY <1>1, <1>2, <1>3 DEF Flow, Typed, TypeOK

LEMMA AppendToConcat ==
  ASSUME NEW S, NEW s \in Seq(S), NEW t \in Seq(S), NEW e \in S
  PROVE  s \o Append(t, e) = Append(s \o t, e)
<1>1. Append(t, e) = t \o <<e>> /\ Append(s \o t, e) = (s \o t) \o <<e>>
  BY AppendIsConcat, ConcatProperties
<1>2. (s \o t) \o <<e>> = s \o (t \o <<e>>)
  BY ConcatAssociative, <<e>> \in Seq(S)
<1> QED BY <1>1, <1>2

LEMMA MoveHead ==
  ASSUME NEW S, NEW s \in Seq(S), NEW t \in Seq(S), NEW e \in S
  PROVE  Append(s, e) \o t = s \o (<<e>> \o t)
<1>1. Append(s, e) = s \o <<e>>
  BY AppendIsConcat
<1>2. (s \o <<e>>) \o t = s \o (<<e>> \o t)
  BY ConcatAssociative, <<e>> \in Seq(S)
<1> QED BY <1>1, <1>2

LEMMA HeadAndTail ==
  ASSUME NEW S, NEW s \in Seq(S), s # <<>>
  PROVE  /\ Head(s) \in S /\ Tail(s) \in Seq(S)
         /\ <<Head(s)>> \o Tail(s) = s
<1>1. Head(s) \in S /\ Tail(s) \in Seq(S) /\ <<Head(s)>> \in Seq(S)
  OBVIOUS
<1>2. <<Head(s)>> \o Tail(s) \in Seq(S) /\ Len(<<Head(s)>> \o Tail(s)) = Len(s)
  BY <1>1
<1>3. \A i \in 1 .. Len(s) : (<<Head(s)>> \o Tail(s))[i] = s[i]
  BY <1>1
<1> QED BY <1>1, <1>2, <1>3, SeqEqual

\* An alert put into the queue joins the end of the flow.
LEMMA FlowGrows ==
  ASSUME Typed, NEW a \in Alert, alert_queue' = Append(alert_queue, a), UNCHANGED <<settled, disp>>
  PROVE  Flow' = Append(Flow, a)
<1>1. InHand' = Append(InHand, a)
  <2> DEFINE p == IF disp.alert = None THEN <<>> ELSE <<disp.alert>>
  <2>1. p \in Seq(Alert) /\ alert_queue \in Seq(Alert)
    BY FlowTyped
  <2>2. InHand = p \o alert_queue /\ InHand' = p \o Append(alert_queue, a)
    BY DEF InHand
  <2> HIDE DEF p
  <2> QED BY <2>1, <2>2, AppendToConcat
<1>2. Flow = Alerted(settled) \o InHand /\ Flow' = Alerted(settled) \o InHand'
  BY DEF Flow, Alerted
<1> QED BY <1>1, <1>2, FlowTyped, AppendToConcat

\* The dispatcher moves the flow along and changes nothing of it.
LEMMA FlowStays ==
  ASSUME Typed, Dispatch
  PROVE  Flow' = Flow
<1>1. /\ DispatchHolds /\ disp \in DispatchState /\ phase # "ended"
      /\ alert_queue \in Seq(Alert) /\ settled \in Seq(Outcome) /\ Alerted(settled) \in Seq(Alert)
  BY FlowTyped DEF Typed, Placed, Dispatch, DispatchTimesOut, TakeAlert, Send, MayRun
<1>2. CASE DispatchTimesOut
  <2>1. UNCHANGED <<settled, alert_queue>> /\ disp'.alert = disp.alert
    BY <1>1, <1>2 DEF DispatchTimesOut, DispatchState
  <2> QED BY <2>1 DEF Flow, InHand
<1>3. CASE TakeAlert
  <2> DEFINE a == Head(alert_queue)
             o == [alert |-> a, dropped |-> TRUE]
  <2>1. /\ a \in Alert /\ Tail(alert_queue) \in Seq(Alert) /\ <<a>> \o Tail(alert_queue) = alert_queue
        /\ disp.alert = None
    BY <1>1, <1>3, HeadAndTail DEF TakeAlert, DispatchHolds
  <2>2. <<>> \o Tail(alert_queue) = Tail(alert_queue) /\ <<>> \o alert_queue = alert_queue
    BY <1>1, <2>1
  <2>3. Flow = Alerted(settled) \o (<<a>> \o Tail(alert_queue))
    BY <2>1, <2>2 DEF Flow, InHand
  <2>4. \/ /\ settled' = Append(settled, o) /\ disp'.alert = None
        \/ /\ settled' = settled /\ disp'.alert = a
    BY <1>1, <1>3, <2>1 DEF TakeAlert, AfterDrop, LoopTest, DispatchState
  <2>5. o \in Outcome /\ o.alert = a /\ a # None /\ alert_queue' = Tail(alert_queue)
    BY <1>3, <2>1, Constants DEF Outcome, TakeAlert
  <2> HIDE DEF o, a
  <2>6. CASE settled' = Append(settled, o) /\ disp'.alert = None
    <3>1. Alerted(settled') = Append(Alerted(settled), a)
      BY <1>1, <2>5, <2>6, AlertedAppends
    <3>2. InHand' = Tail(alert_queue)
      BY <2>2, <2>5, <2>6 DEF InHand
    <3>3. Flow' = Append(Alerted(settled), a) \o Tail(alert_queue)
      BY <3>1, <3>2 DEF Flow
    <3>4. Tail(alert_queue) \in Seq(Alert) /\ a \in Alert /\ Alerted(settled) \in Seq(Alert)
      BY <1>1, <2>1
    <3>5. Append(Alerted(settled), a) \o Tail(alert_queue) = Alerted(settled) \o (<<a>> \o Tail(alert_queue))
      BY <3>4, MoveHead
    <3> QED BY <2>3, <3>3, <3>5
  <2>7. CASE settled' = settled /\ disp'.alert = a
    BY <2>3, <2>5, <2>7 DEF Flow, InHand
  <2> QED BY <2>4, <2>6, <2>7
<1>4. CASE Send
  <2> DEFINE o == [alert |-> disp.alert, dropped |-> FALSE]
  <2>1. disp.alert # None /\ disp.alert \in Alert /\ alert_queue' = alert_queue
    BY <1>1, <1>4 DEF Send, DispatchHolds, DispatchState
  <2>2. \/ settled' = settled /\ disp'.alert = disp.alert
        \/ settled' = Append(settled, o) /\ disp'.alert = None
    BY <1>1, <1>4 DEF Send, LastSend, DispatchState
  <2>3. o \in Outcome /\ o.alert = disp.alert
    BY <2>1 DEF Outcome
  <2> HIDE DEF o
  <2>4. CASE settled' = settled /\ disp'.alert = disp.alert
    BY <2>1, <2>4 DEF Flow, InHand
  <2>5. CASE settled' = Append(settled, o) /\ disp'.alert = None
    <3>1. Flow = Alerted(settled) \o (<<disp.alert>> \o alert_queue)
      BY <2>1 DEF Flow, InHand
    <3>2. Alerted(settled') = Append(Alerted(settled), disp.alert)
      BY <1>1, <2>3, <2>5, AlertedAppends
    <3>3. InHand' = alert_queue
      BY <1>1, <2>1, <2>5, ConcatEmptySeq DEF InHand
    <3>4. Flow' = Append(Alerted(settled), disp.alert) \o alert_queue
      BY <3>2, <3>3 DEF Flow
    <3> QED BY <1>1, <2>1, <3>1, <3>4, MoveHead
  <2> QED BY <2>2, <2>4, <2>5
<1> QED BY <1>2, <1>3, <1>4 DEF Dispatch

KeptInv ==
  phase = "running" => \A task \in Producers :
    produced[task] = Only(AlertOf(task), Flow) \o Blocked(task)

LEMMA FlowOf ==
  ASSUME Typed, NEW task \in Producers
  PROVE  /\ Only(AlertOf(task), Flow) \in Seq(Alert)
         /\ \A a \in AlertOf(task) :
              Only(AlertOf(task), Append(Flow, a)) = Append(Only(AlertOf(task), Flow), a)
         /\ \A t \in Producers \ {task}, a \in AlertOf(task) :
              Only(AlertOf(t), Append(Flow, a)) = Only(AlertOf(t), Flow)
<1>1. Only(AlertOf(task), Flow) \in Seq(AlertOf(task))
  BY FlowTyped, OnlyTyped
<1>2. Only(AlertOf(task), Flow) \in Seq(Alert)
  BY <1>1, AlertsTyped, SeqMonotonic
<1>3. ASSUME NEW t \in Producers, NEW a \in AlertOf(task)
      PROVE  Only(AlertOf(t), Append(Flow, a)) =
               IF a \in AlertOf(t) THEN Append(Only(AlertOf(t), Flow), a) ELSE Only(AlertOf(t), Flow)
  BY FlowTyped, AlertsTyped, OnlyAppends
<1>4. \A t \in Producers \ {task}, a \in AlertOf(task) : a \notin AlertOf(t)
  BY AlertsTyped DEF Producers
<1> QED BY <1>2, <1>3, <1>4

\* A producer hands over an alert, into the queue or waiting before it.
LEMMA OfferKeeps ==
  ASSUME Typed, KeptInv, phase = "running", NEW task \in Producers, NEW a \in AlertOf(task),
         Blocked(task) = <<>>, \A t \in Producers \ {task} : Blocked(t)' = Blocked(t),
         produced' = [produced EXCEPT ![task] = Append(@, a)], UNCHANGED <<settled, disp>>,
         \/ alert_queue' = Append(alert_queue, a) /\ Blocked(task)' = <<>>
         \/ alert_queue' = alert_queue /\ Blocked(task)' = <<a>>
  PROVE  KeptInv'
<1> DEFINE K(t) == Only(AlertOf(t), Flow)
<1>1. a \in Alert /\ K(task) \in Seq(Alert) /\ \A t \in Producers : produced[t] = K(t) \o Blocked(t)
  BY AlertsTyped, FlowOf DEF KeptInv
<1>2. /\ produced'[task] = Append(produced[task], a)
      /\ \A t \in Producers \ {task} : produced'[t] = produced[t]
  BY DEF Typed, TypeOK, Producers
<1>3. produced'[task] = Append(K(task), a)
  BY <1>1, <1>2, ConcatEmptySeq
<1>4. CASE alert_queue' = Append(alert_queue, a) /\ Blocked(task)' = <<>>
  <2>1. Flow' = Append(Flow, a)
    BY <1>1, <1>4, FlowGrows
  <2>2. K(task)' = Append(K(task), a) /\ \A t \in Producers \ {task} : K(t)' = K(t)
    BY <2>1, FlowOf DEF AlertOf
  <2>3. Append(K(task), a) \o <<>> = Append(K(task), a)
    BY <1>1
  <2>4. \A t \in Producers : produced'[t] = K(t)' \o Blocked(t)'
    BY <1>1, <1>2, <1>3, <1>4, <2>2, <2>3
  <2> QED BY <2>4 DEF KeptInv
<1>5. CASE alert_queue' = alert_queue /\ Blocked(task)' = <<a>>
  <2>1. Flow' = Flow
    BY <1>5 DEF Flow, InHand
  <2>2. Append(K(task), a) = K(task) \o <<a>>
    BY <1>1, AppendIsConcat
  <2>3. \A t \in Producers : K(t)' = K(t)
    BY <2>1 DEF AlertOf
  <2> HIDE DEF K
  <2>4. \A t \in Producers : produced'[t] = K(t)' \o Blocked(t)'
    BY <1>1, <1>2, <1>3, <1>5, <2>2, <2>3
  <2> QED BY <2>4 DEF KeptInv, K
<1> QED BY <1>4, <1>5

\* The alert that waited goes into the queue.
LEMMA PutKeeps ==
  ASSUME Typed, KeptInv, phase = "running", NEW task \in Producers, NEW a \in AlertOf(task),
         Blocked(task) = <<a>>, \A t \in Producers \ {task} : Blocked(t)' = Blocked(t),
         UNCHANGED <<produced, settled, disp>>,
         alert_queue' = Append(alert_queue, a), Blocked(task)' = <<>>
  PROVE  KeptInv'
<1> DEFINE K(t) == Only(AlertOf(t), Flow)
<1>1. a \in Alert /\ K(task) \in Seq(Alert) /\ \A t \in Producers : produced[t] = K(t) \o Blocked(t)
  BY AlertsTyped, FlowOf DEF KeptInv
<1>2. Flow' = Append(Flow, a)
  BY <1>1, FlowGrows
<1>3. K(task)' = Append(K(task), a) /\ \A t \in Producers \ {task} : K(t)' = K(t)
  BY <1>2, FlowOf DEF AlertOf
<1>4. K(task) \o <<a>> = Append(K(task), a) /\ Append(K(task), a) \o <<>> = Append(K(task), a)
  BY <1>1, AppendIsConcat
<1>5. \A t \in Producers : produced'[t] = K(t)' \o Blocked(t)'
  BY <1>1, <1>3, <1>4
<1> QED BY <1>5 DEF KeptInv

\* What neither adds to the flow nor to what waits before it.
LEMMA StillKept ==
  ASSUME KeptInv, phase' = "running" => phase = "running", Flow' = Flow, produced' = produced,
         \A t \in Producers : Blocked(t)' = Blocked(t)
  PROVE  KeptInv'
BY DEF KeptInv, AlertOf

LEMMA DetectorKeeps ==
  ASSUME Typed, KeptInv, phase = "running", DetectorLoop
  PROVE  KeptInv'
<1>1. UNCHANGED <<phase, arp, settled, disp>> /\ det \in DetectorState /\ DetectorHolds
  BY DEF DetectorLoop, GetPacket, GetTimesOut, RunDetector, PutDetectorAlert, PacketDone, DetectorOnly,
     Typed, TypeOK, Placed
<1>2. Blocked("arp_scanner")' = Blocked("arp_scanner") /\ Producers \ {"detector"} = {"arp_scanner"}
  BY <1>1 DEF Blocked, Producers
<1>3. /\ Blocked("detector") = IF det.alert = None THEN <<>> ELSE <<det.alert>>
      /\ Blocked("detector")' = IF det'.alert = None THEN <<>> ELSE <<det'.alert>>
  BY DEF Blocked
<1>4. ASSUME UNCHANGED <<alert_queue, produced>>, det'.alert = det.alert PROVE KeptInv'
  <2>1. Flow' = Flow
    BY <1>1, <1>4 DEF Flow, InHand
  <2>2. \A t \in Producers : Blocked(t)' = Blocked(t)
    BY <1>2, <1>3, <1>4 DEF Producers
  <2> QED BY <1>1, <1>4, <2>1, <2>2, StillKept
<1>5. CASE GetPacket \/ GetTimesOut \/ PacketDone
  <2>1. UNCHANGED <<alert_queue, produced>>
    BY <1>5 DEF GetPacket, GetTimesOut, PacketDone, queues
  <2>2. det'.alert = det.alert
    BY <1>1, <1>5 DEF GetPacket, GetTimesOut, PacketDone, DetectorHolds, DetectorState
  <2> QED BY <1>4, <2>1, <2>2
<1>6. CASE RunDetector
  <2> DEFINE a == [by |-> Chain[det.next], no |-> det.packet.no]
  <2>1. a \in AlertOf("detector") /\ a # None /\ det.alert = None
    BY <1>1, <1>6, InHandTyped, AlertsTyped, Constants DEF RunDetector, DetectorHolds
  <2>2. \/ UNCHANGED <<alert_queue, produced>> /\ det'.alert = det.alert
        \/ /\ produced' = [produced EXCEPT !["detector"] = Append(@, a)]
           /\ \/ alert_queue' = Append(alert_queue, a) /\ det'.alert = det.alert
              \/ alert_queue' = alert_queue /\ det'.alert = a
    BY <1>1, <1>6 DEF RunDetector, Offer, DetectorState
  <2> HIDE DEF a
  <2>3. CASE UNCHANGED <<alert_queue, produced>> /\ det'.alert = det.alert
    BY <1>4, <2>3
  <2>4. CASE /\ produced' = [produced EXCEPT !["detector"] = Append(@, a)]
             /\ \/ alert_queue' = Append(alert_queue, a) /\ det'.alert = det.alert
                \/ alert_queue' = alert_queue /\ det'.alert = a
    <3>1. \/ alert_queue' = Append(alert_queue, a) /\ Blocked("detector")' = <<>>
          \/ alert_queue' = alert_queue /\ Blocked("detector")' = <<a>>
      BY <1>3, <2>1, <2>4
    <3>2. Blocked("detector") = <<>> /\ "detector" \in Producers
      BY <1>3, <2>1 DEF Producers
    <3>3. \A t \in Producers \ {"detector"} : Blocked(t)' = Blocked(t)
      BY <1>2
    <3>4. produced' = [produced EXCEPT !["detector"] = Append(@, a)] /\ UNCHANGED <<settled, disp>>
      BY <1>1, <2>4
    <3> QED BY <2>1, <3>1, <3>2, <3>3, <3>4, OfferKeeps
  <2> QED BY <2>2, <2>3, <2>4
<1>7. CASE PutDetectorAlert
  <2>1. det.alert \in AlertOf("detector") /\ det.alert # None /\ det'.alert = None
    BY <1>1, <1>7, AlertsTyped, Constants DEF PutDetectorAlert, DetectorHolds, DetectorState
  <2>2. alert_queue' = Append(alert_queue, det.alert) /\ UNCHANGED <<produced, settled, disp>>
    BY <1>1, <1>7 DEF PutDetectorAlert
  <2>3. Blocked("detector") = <<det.alert>> /\ Blocked("detector")' = <<>> /\ "detector" \in Producers
    BY <1>3, <2>1 DEF Producers
  <2>4. \A t \in Producers \ {"detector"} : Blocked(t)' = Blocked(t)
    BY <1>2
  <2> QED BY <2>1, <2>2, <2>3, <2>4, PutKeeps
<1> QED BY <1>5, <1>6, <1>7 DEF DetectorLoop

LEMMA ScanKeeps ==
  ASSUME Typed, KeptInv, phase = "running", Scan
  PROVE  KeptInv'
<1>1. UNCHANGED <<phase, det, settled, disp>> /\ arp \in ScanState /\ ScanHolds
  BY DEF Scan, TestScan, Found, Report, PutScanAlert, ScanDone, ScanOnly, Typed, TypeOK, Placed
<1>2. Blocked("detector")' = Blocked("detector") /\ Producers \ {"arp_scanner"} = {"detector"}
  BY <1>1 DEF Blocked, Producers
<1>3. /\ Blocked("arp_scanner") = IF arp.alert = None THEN <<>> ELSE <<arp.alert>>
      /\ Blocked("arp_scanner")' = IF arp'.alert = None THEN <<>> ELSE <<arp'.alert>>
  BY DEF Blocked
<1>4. ASSUME UNCHANGED <<alert_queue, produced>>, arp'.alert = arp.alert PROVE KeptInv'
  <2>1. Flow' = Flow
    BY <1>1, <1>4 DEF Flow, InHand
  <2>2. \A t \in Producers : Blocked(t)' = Blocked(t)
    BY <1>2, <1>3, <1>4 DEF Producers
  <2> QED BY <1>1, <1>4, <2>1, <2>2, StillKept
<1>5. CASE TestScan \/ ScanDone \/ \E ds \in SUBSET Devices : Found(ds)
  <2>1. UNCHANGED <<alert_queue, produced>> /\ arp'.alert = arp.alert
    BY <1>1, <1>5 DEF TestScan, ScanDone, Found, ScanState
  <2> QED BY <1>4, <2>1
<1>6. ASSUME NEW d \in Devices, Report(d) PROVE KeptInv'
  <2> DEFINE a == [by |-> "arp", no |-> d]
  <2>1. a \in AlertOf("arp_scanner") /\ a # None /\ arp.alert = None
    BY <1>1, <1>6, AlertsTyped, Constants DEF Report, ScanHolds
  <2>2. \/ UNCHANGED <<alert_queue, produced>> /\ arp'.alert = arp.alert
        \/ /\ produced' = [produced EXCEPT !["arp_scanner"] = Append(@, a)]
           /\ \/ alert_queue' = Append(alert_queue, a) /\ arp'.alert = arp.alert
              \/ alert_queue' = alert_queue /\ arp'.alert = a
    BY <1>1, <1>6 DEF Report, Offer, ScanState
  <2> HIDE DEF a
  <2>3. CASE UNCHANGED <<alert_queue, produced>> /\ arp'.alert = arp.alert
    BY <1>4, <2>3
  <2>4. CASE /\ produced' = [produced EXCEPT !["arp_scanner"] = Append(@, a)]
             /\ \/ alert_queue' = Append(alert_queue, a) /\ arp'.alert = arp.alert
                \/ alert_queue' = alert_queue /\ arp'.alert = a
    <3>1. \/ alert_queue' = Append(alert_queue, a) /\ Blocked("arp_scanner")' = <<>>
          \/ alert_queue' = alert_queue /\ Blocked("arp_scanner")' = <<a>>
      BY <1>3, <2>1, <2>4
    <3>2. Blocked("arp_scanner") = <<>> /\ "arp_scanner" \in Producers
      BY <1>3, <2>1 DEF Producers
    <3>3. \A t \in Producers \ {"arp_scanner"} : Blocked(t)' = Blocked(t)
      BY <1>2
    <3>4. produced' = [produced EXCEPT !["arp_scanner"] = Append(@, a)] /\ UNCHANGED <<settled, disp>>
      BY <1>1, <2>4
    <3> QED BY <2>1, <3>1, <3>2, <3>3, <3>4, OfferKeeps
  <2> QED BY <2>2, <2>3, <2>4
<1>7. CASE PutScanAlert
  <2>1. arp.alert \in AlertOf("arp_scanner") /\ arp.alert # None /\ arp'.alert = None
    BY <1>1, <1>7, AlertsTyped, Constants DEF PutScanAlert, ScanHolds, ScanState
  <2>2. alert_queue' = Append(alert_queue, arp.alert) /\ UNCHANGED <<produced, settled, disp>>
    BY <1>1, <1>7 DEF PutScanAlert
  <2>3. Blocked("arp_scanner") = <<arp.alert>> /\ Blocked("arp_scanner")' = <<>> /\ "arp_scanner" \in Producers
    BY <1>3, <2>1 DEF Producers
  <2>4. \A t \in Producers \ {"arp_scanner"} : Blocked(t)' = Blocked(t)
    BY <1>2
  <2> QED BY <2>1, <2>2, <2>3, <2>4, PutKeeps
<1> QED BY <1>5, <1>6, <1>7 DEF Scan

LEMMA KeptStep ==
  ASSUME Typed, KeptInv, [Next]_vars
  PROVE  KeptInv'
<1>1. SUFFICES ASSUME phase' = "running" PROVE KeptInv'
  BY DEF KeptInv
<1>2. phase = "running"
  BY <1>1 DEF Next, Capture, StartTshark, ReadPacket, ReadOther, StreamEnds, PutPacket, CaptureOnly,
     DetectorLoop, GetPacket, GetTimesOut, RunDetector, PutDetectorAlert, PacketDone, DetectorOnly,
     Dispatch, DispatchTimesOut, TakeAlert, Send, DispatchOnly,
     Scan, TestScan, Found, Report, PutScanAlert, ScanDone, ScanOnly,
     Quit, Fails, End, Close, CancelAll, Finish, vars
<1>3. ASSUME UNCHANGED <<alert_queue, produced, settled, disp, det, arp>> PROVE KeptInv'
  <2>1. Flow' = Flow /\ \A t \in Producers : Blocked(t)' = Blocked(t)
    BY <1>3 DEF Flow, InHand, Blocked
  <2> QED BY <1>2, <1>3, <2>1, StillKept
<1>4. CASE Capture
  BY <1>3, <1>4 DEF Capture, StartTshark, ReadPacket, ReadOther, StreamEnds, PutPacket, CaptureOnly
<1>5. CASE Dispatch
  <2>1. UNCHANGED <<produced, det, arp>>
    BY <1>5 DEF Dispatch, DispatchTimesOut, TakeAlert, Send, DispatchOnly
  <2>2. \A t \in Producers : Blocked(t)' = Blocked(t)
    BY <2>1 DEF Blocked
  <2> QED BY <1>2, <1>5, <2>1, <2>2, FlowStays, StillKept
<1>6. CASE Quit \/ Fails \/ End
  BY <1>1, <1>3, <1>6 DEF Quit, Fails, End, Close, CancelAll, Finish, EndOnly, queues, histories
<1>7. CASE UNCHANGED vars
  BY <1>3, <1>7 DEF vars, queues, histories
<1> QED BY <1>2, <1>4, <1>5, <1>6, <1>7, DetectorKeeps, ScanKeeps DEF Next

\* From two producers through the bounded queue to the handlers no alert is lost, doubled or
\* overtaken by a later one of its producer: for queues of any length.
THEOREM NoAlertLost == Spec => []AlertsKept
<1>1. Init => KeptInv
  <2> SUFFICES ASSUME Init PROVE KeptInv
    OBVIOUS
  <2>1. Flow = <<>>
    BY DEF Init, Flow, InHand, Alerted
  <2>2. \A t \in Producers : produced[t] = <<>> /\ Blocked(t) = <<>>
    BY DEF Init, Blocked, Producers
  <2>3. \A t \in Producers : Only(AlertOf(t), << >>) = << >>
    BY OnlyOfNone
  <2>4. << >> \o << >> = << >>
    OBVIOUS
  <2> QED BY <2>1, <2>2, <2>3, <2>4 DEF KeptInv
<1>2. KeptInv /\ Typed /\ [Next]_vars => KeptInv'
  BY KeptStep
<1>3. KeptInv => AlertsKept
  BY DEF KeptInv, AlertsKept, Flow, Producers
<1> QED BY <1>1, <1>2, <1>3, TypedAlways, PTL DEF Spec

-------------------------------------------------------------------------------
(* Every detector sees every packet *)

Taken == Len(captured) - Len(Waiting)

Marked(contacts, d) == {c.mark : c \in UNION {contacts[d][k] : k \in Keys}}

MarksOf(d) == Marked(seen, d)

Shown(i) == {n \in 1 .. Taken : /\ captured[n].shape \in Watched[Chain[i]]
                                /\ n = Taken /\ det.packet # None => Through(i)}

Counting == {j \in DOMAIN Chain : Chain[j] \notin PortCounting}

\* A packet bears its place among the captured ones, and what was captured is what was
\* taken, the packet in hand last, and then what waits.
InOrder ==
  /\ \A n \in 1 .. Len(captured) : captured[n].no = n
  /\ Taken \in Nat
  /\ \A i \in 1 .. Len(Waiting) : captured[Taken + i] = Waiting[i]
  /\ det.packet # None => Taken >= 1 /\ captured[Taken] = det.packet

SeenNow == \A i \in Counting : MarksOf(Chain[i]) = Shown(i)

SeenInv == phase = "running" => InOrder /\ SeenNow

LEMMA WaitingIs ==
  ASSUME Typed
  PROVE  /\ Waiting \in Seq(Packet) /\ captured \in Seq(Packet) /\ packet_queue \in Seq(Packet)
         /\ cap.packet = None => Waiting = packet_queue
         /\ cap.packet # None => Waiting = Append(packet_queue, cap.packet) /\ cap.packet \in Packet
<1>1. packet_queue \in Seq(Packet) /\ captured \in Seq(Packet) /\ cap.packet \in Packet \cup {None}
  BY DEF Typed, TypeOK, CaptureState
<1>2. CASE cap.packet = None
  BY <1>1, <1>2 DEF Waiting
<1>3. CASE cap.packet # None
  <2>1. Waiting = packet_queue \o <<cap.packet>>
    BY <1>3, Zenon DEF Waiting
  <2> QED BY <1>1, <1>3, <2>1
<1> QED BY <1>1, <1>2, <1>3

\* A packet more at the end of both.
LEMMA OneMore ==
  ASSUME NEW c \in Seq(Packet), NEW w \in Seq(Packet), NEW p \in Packet,
         Len(c) - Len(w) \in Nat,
         \A i \in 1 .. Len(w) : c[Len(c) - Len(w) + i] = w[i]
  PROVE  /\ Len(Append(c, p)) = Len(c) + 1 /\ Len(Append(w, p)) = Len(w) + 1
         /\ \A n \in 1 .. Len(c) : Append(c, p)[n] = c[n]
         /\ Append(c, p)[Len(c) + 1] = p
         /\ \A i \in 1 .. Len(w) + 1 : Append(c, p)[Len(c) - Len(w) + i] = Append(w, p)[i]
<1>1. /\ Len(Append(c, p)) = Len(c) + 1 /\ Len(Append(w, p)) = Len(w) + 1
      /\ \A n \in 1 .. Len(c) : Append(c, p)[n] = c[n]
      /\ Append(c, p)[Len(c) + 1] = p
      /\ \A n \in 1 .. Len(w) : Append(w, p)[n] = w[n]
      /\ Append(w, p)[Len(w) + 1] = p
  OBVIOUS
<1>2. ASSUME NEW i \in 1 .. Len(w) + 1
      PROVE  Append(c, p)[Len(c) - Len(w) + i] = Append(w, p)[i]
  <2>1. CASE i = Len(w) + 1
    BY <1>1, <2>1
  <2>2. CASE i \in 1 .. Len(w)
    <3>1. Len(c) - Len(w) + i \in 1 .. Len(c)
      BY <2>2
    <3> QED BY <1>1, <2>2, <3>1
  <2> QED BY <2>1, <2>2
<1> QED BY <1>1, <1>2

\* Capture adds at the far end.
LEMMA CaptureOrder ==
  ASSUME Typed, InOrder, Capture
  PROVE  /\ InOrder' /\ Taken' = Taken
         /\ \A n \in 1 .. Taken : captured'[n] = captured[n]
<1>1. Typed' /\ det' = det
  BY CaptureTyped DEF Capture, StartTshark, ReadPacket, ReadOther, StreamEnds, PutPacket, CaptureOnly
<1>2. Taken \in Nat /\ Len(captured) \in Nat /\ Len(Waiting) \in Nat /\ Taken <= Len(captured)
  BY WaitingIs DEF InOrder, Taken
<1>3. ASSUME UNCHANGED captured, Waiting' = Waiting
      PROVE  /\ InOrder' /\ Taken' = Taken
             /\ \A n \in 1 .. Taken : captured'[n] = captured[n]
  BY <1>1, <1>3 DEF InOrder, Taken
<1>4. CASE StartTshark \/ ReadOther \/ StreamEnds
  <2>1. UNCHANGED <<captured, packet_queue>> /\ cap'.packet = cap.packet
    BY <1>4 DEF StartTshark, ReadOther, StreamEnds, Typed, TypeOK, CaptureState
  <2> QED BY <1>3, <2>1 DEF Waiting
<1>5. ASSUME NEW s \in Shapes, ReadPacket(s)
      PROVE  /\ InOrder' /\ Taken' = Taken
             /\ \A n \in 1 .. Taken : captured'[n] = captured[n]
  <2> DEFINE p == [no |-> Len(captured) + 1, shape |-> s]
  <2>1. p \in Packet /\ p.no = Len(captured) + 1 /\ p # None
    BY <1>2, <1>5, Constants DEF ReadPacket, Packet
  <2>2. cap.packet = None
    BY <1>5 DEF ReadPacket, MayRun, Typed, Placed, CaptureHolds
  <2>3. /\ captured' = Append(captured, p)
        /\ \/ packet_queue' = Append(packet_queue, p) /\ cap' = cap
           \/ packet_queue' = packet_queue /\ cap' = [at |-> "put", packet |-> p]
    BY <1>5 DEF ReadPacket
  <2> HIDE DEF p
  <2>4. Waiting' = Append(Waiting, p)
    <3>1. CASE packet_queue' = Append(packet_queue, p) /\ cap' = cap
      BY <2>1, <2>2, <3>1, WaitingIs DEF Waiting
    <3>2. CASE packet_queue' = packet_queue /\ cap' = [at |-> "put", packet |-> p]
      BY <2>1, <2>2, <3>2, WaitingIs DEF Waiting
    <3> QED BY <2>3, <3>1, <3>2
  <2>5. /\ Len(captured') = Len(captured) + 1 /\ Len(Waiting') = Len(Waiting) + 1
        /\ \A n \in 1 .. Len(captured) : captured'[n] = captured[n]
        /\ captured'[Len(captured) + 1] = p
        /\ \A i \in 1 .. Len(Waiting) + 1 : captured'[Taken + i] = Waiting'[i]
    <3>1. /\ Len(captured) - Len(Waiting) \in Nat
          /\ \A i \in 1 .. Len(Waiting) : captured[Len(captured) - Len(Waiting) + i] = Waiting[i]
      BY DEF InOrder, Taken
    <3> QED BY <2>1, <2>3, <2>4, <3>1, WaitingIs, OneMore DEF Taken
  <2>6. Taken' = Taken
    BY <1>2, <2>5 DEF Taken
  <2> QED BY <1>1, <1>2, <2>1, <2>5, <2>6 DEF InOrder
<1>6. CASE PutPacket
  <2>1. cap.packet # None /\ cap'.packet = None /\ UNCHANGED captured
        /\ packet_queue' = Append(packet_queue, cap.packet)
    BY <1>6 DEF PutPacket, MayRun, Typed, Placed, CaptureHolds
  <2>2. Waiting' = Waiting
    <3>1. Waiting' = Append(packet_queue, cap.packet) \o <<>>
      BY <2>1 DEF Waiting
    <3>2. Waiting = Append(packet_queue, cap.packet) /\ Waiting \in Seq(Packet)
      BY <2>1, WaitingIs
    <3> QED BY <3>1, <3>2
  <2> QED BY <1>3, <2>1, <2>2
<1> QED BY <1>4, <1>5, <1>6 DEF Capture

\* The detector loop takes the oldest packet that waits.
LEMMA TakeOrder ==
  ASSUME Typed, InOrder, GetPacket
  PROVE  /\ InOrder' /\ Taken' = Taken + 1
         /\ captured'[Taken'] = Head(packet_queue)
<1> DEFINE p == Head(packet_queue)
<1>1. /\ packet_queue # <<>> /\ packet_queue' = Tail(packet_queue)
      /\ UNCHANGED <<cap, captured>> /\ det'.packet = p
  BY DEF GetPacket, DetectorOnly
<1>2. /\ Waiting # <<>> /\ Head(Waiting) = p /\ Waiting' = Tail(Waiting)
  <2>1. CASE cap.packet = None
    <3>1. Waiting' = Tail(packet_queue) \o <<>>
      BY <1>1, <2>1 DEF Waiting
    <3>2. Tail(packet_queue) \in Seq(Packet) /\ Waiting = packet_queue
      BY <1>1, <2>1, WaitingIs
    <3> QED BY <1>1, <3>1, <3>2
  <2>2. CASE cap.packet # None
    <3>1. Waiting' = Tail(packet_queue) \o <<cap.packet>>
      BY <1>1, <2>2 DEF Waiting
    <3>2. Waiting = Append(packet_queue, cap.packet) /\ cap.packet \in Packet /\ packet_queue \in Seq(Packet)
      BY <2>2, WaitingIs
    <3>3. Tail(packet_queue) \in Seq(Packet) /\ Waiting \in Seq(Packet)
      BY <1>1, <3>2
    <3>4. Tail(Append(packet_queue, cap.packet)) = Append(Tail(packet_queue), cap.packet)
      BY <1>1, <3>2, <3>3
    <3>5. Waiting' = Append(Tail(packet_queue), cap.packet)
      BY <3>1, <3>2, <3>3
    <3> QED BY <1>1, <3>2, <3>4, <3>5
  <2> QED BY <2>1, <2>2
<1>3. /\ Waiting \in Seq(Packet) /\ captured \in Seq(Packet) /\ Taken \in Nat
      /\ Taken = Len(captured) - Len(Waiting)
  BY WaitingIs DEF InOrder, Taken
<1>4. /\ Len(Waiting') = Len(Waiting) - 1 /\ Len(Waiting) >= 1 /\ p = Waiting[1]
      /\ \A i \in 1 .. Len(Waiting') : Waiting'[i] = Waiting[i + 1]
  BY <1>2, <1>3
<1>5. Taken' = Taken + 1
  BY <1>1, <1>3, <1>4 DEF Taken
<1>6. captured'[Taken'] = p
  BY <1>1, <1>3, <1>4, <1>5 DEF InOrder
<1>7. \A i \in 1 .. Len(Waiting') : captured'[Taken' + i] = Waiting'[i]
  <2> TAKE i \in 1 .. Len(Waiting')
  <2>1. captured[Taken + (i + 1)] = Waiting[i + 1]
    BY <1>3, <1>4 DEF InOrder
  <2>2. Taken' + i = Taken + (i + 1)
    BY <1>3, <1>4, <1>5
  <2> QED BY <1>1, <1>4, <2>1, <2>2
<1>8. \A n \in 1 .. Len(captured') : captured'[n].no = n
  BY <1>1 DEF InOrder
<1> QED BY <1>1, <1>3, <1>5, <1>6, <1>7, <1>8 DEF InOrder

\* As long as nothing is taken and the packet in hand stays in hand, order is kept.
LEMMA OrderStays ==
  ASSUME Typed, InOrder, UNCHANGED <<captured, packet_queue, cap>>,
         det'.packet = det.packet \/ det'.packet = None
  PROVE  InOrder' /\ Taken' = Taken
<1>1. Waiting' = Waiting /\ Taken' = Taken
  BY DEF Waiting, Taken
<1> QED BY <1>1 DEF InOrder

LEMMA ShownStays ==
  ASSUME Taken' = Taken, \A n \in 1 .. Taken : captured'[n] = captured[n],
         UNCHANGED <<det, seen>>, SeenNow
  PROVE  SeenNow'
<1>1. ASSUME NEW i \in Counting PROVE Shown(i)' = Shown(i) /\ MarksOf(Chain[i])' = MarksOf(Chain[i])
  BY DEF Shown, Through, MarksOf
<1> QED BY <1>1 DEF SeenNow, Counting

\* What Process adds to the marks a detector has seen.
LEMMA MarksGrow ==
  ASSUME Typed, NEW d \in Detector, NEW k \in Keys, NEW m \in Marks, Process(d, k, m)
  PROVE  /\ Marked(seen', d) = Marked(seen, d) \cup {m}
         /\ \A e \in Detector \ {d} : Marked(seen', e) = Marked(seen, e)
<1> DEFINE c == [at |-> now, mark |-> m]
<1>1. seen' = [seen EXCEPT ![d][k] = @ \cup {c}] /\ seen \in [Detector -> [Keys -> SUBSET Contacts]]
  BY DEF Process, Typed, TypeOK, DetectorsTypeOK
<1>2. c.mark = m
  OBVIOUS
<1> HIDE DEF c
<1>3. /\ seen'[d][k] = seen[d][k] \cup {c}
      /\ \A j \in Keys \ {k} : seen'[d][j] = seen[d][j]
      /\ \A e \in Detector \ {d} : seen'[e] = seen[e]
  BY <1>1
<1> DEFINE U == UNION {seen[d][j] : j \in Keys}
           V == UNION {seen'[d][j] : j \in Keys}
<1>4. V = U \cup {c}
  <2>1. ASSUME NEW x \in V PROVE x \in U \cup {c}
    <3>1. PICK j \in Keys : x \in seen'[d][j]
      BY <2>1
    <3>2. x \in seen[d][j] \/ x = c
      BY <1>3, <3>1
    <3> QED BY <3>2
  <2>2. ASSUME NEW x \in U PROVE x \in V
    <3>1. PICK j \in Keys : x \in seen[d][j]
      BY <2>2
    <3>2. x \in seen'[d][j]
      BY <1>3, <3>1
    <3> QED BY <3>2
  <2>3. c \in V
    BY <1>3
  <2> HIDE DEF U, V
  <2> QED BY <2>1, <2>2, <2>3
<1>5. Marked(seen', d) = Marked(seen, d) \cup {m}
  <2>1. Marked(seen', d) = {x.mark : x \in V} /\ Marked(seen, d) = {x.mark : x \in U}
    BY DEF Marked
  <2> HIDE DEF U, V
  <2>2. {x.mark : x \in V} = {x.mark : x \in U} \cup {m}
    BY <1>2, <1>4
  <2> QED BY <2>1, <2>2
<1>6. \A e \in Detector \ {d} : Marked(seen', e) = Marked(seen, e)
  BY <1>3 DEF Marked
<1> QED BY <1>5, <1>6

\* The next detector of the chain looks at the packet in hand.
LEMMA RunShows ==
  ASSUME Typed, InOrder, SeenNow, RunDetector
  PROVE  SeenNow'
<1> DEFINE d == Chain[det.next]
           p == det.packet
           k == KeyOf[p.shape]
           m == IF d \in PortCounting THEN Port[p.shape] ELSE p.no
<1>1. /\ det.at = "run" /\ det.next <= Len(Chain) /\ det \in DetectorState
      /\ UNCHANGED <<captured, packet_queue, cap>>
  BY DEF RunDetector, DetectorOnly, Typed, TypeOK
<1>2. p \in Packet /\ d \in Detector /\ m \in Marks /\ k \in Keys /\ det.next \in 1 .. Len(Chain)
  BY <1>1, InHandTyped
<1>3. p # None
  BY <1>1 DEF Typed, Placed, DetectorHolds
<1>4. Waiting' = Waiting /\ Taken' = Taken /\ Taken \in Nat
  BY <1>1 DEF Waiting, Taken, InOrder
<1>5. Taken >= 1 /\ captured[Taken] = p /\ p.no = Taken
  <2>1. Taken >= 1 /\ captured[Taken] = p
    BY <1>3 DEF InOrder
  <2>2. Taken <= Len(captured)
    BY <1>4, WaitingIs DEF Taken
  <2>3. captured[Taken].no = Taken
    BY <1>4, <2>1, <2>2, WaitingIs DEF InOrder
  <2> QED BY <2>1, <2>3
<1>6. /\ det'.packet = p
      /\ \/ det'.at = "run" /\ det'.next = det.next + 1
         \/ det'.at = "put" /\ det'.next = det.next
  BY <1>1 DEF RunDetector, Offer, DetectorState
<1>7. \A i \in DOMAIN Chain : Through(i)' <=> i <= det.next
  BY <1>1, <1>2, <1>6, Constants DEF Through
<1>8. \A i \in DOMAIN Chain : Through(i) <=> i < det.next
  BY <1>1 DEF Through
<1>9. \/ p.shape \notin Watched[d] /\ UNCHANGED seen
      \/ p.shape \in Watched[d] /\ Process(d, k, m)
  BY DEF RunDetector, detectorVars
<1>10. SUFFICES ASSUME NEW i \in Counting PROVE MarksOf(Chain[i])' = Shown(i)'
  BY DEF SeenNow, Counting
<1>11. i \in DOMAIN Chain /\ Chain[i] \notin PortCounting /\ Chain[i] \in Detector
       /\ MarksOf(Chain[i]) = Shown(i)
  BY <1>10, Constants, PipelineAssumption DEF Counting, PipelineAssumption, SeenNow
<1>12. Shown(i) = {n \in 1 .. Taken : captured[n].shape \in Watched[Chain[i]]
                                       /\ (n = Taken => i < det.next)}
  BY <1>3, <1>8, <1>11 DEF Shown
<1>13. Shown(i)' = {n \in 1 .. Taken : captured[n].shape \in Watched[Chain[i]]
                                        /\ (n = Taken => i <= det.next)}
  BY <1>1, <1>3, <1>4, <1>6, <1>7, <1>11 DEF Shown
<1>14. i \in Int /\ det.next \in Int
  BY <1>2, <1>11, Constants, PipelineAssumption DEF PipelineAssumption
<1> HIDE DEF k, m, d, p
<1>15. CASE i = det.next
  <2>1. Chain[i] = d
    BY <1>15 DEF d
  <2>2. CASE p.shape \notin Watched[d] /\ UNCHANGED seen
    <3>1. MarksOf(Chain[i])' = MarksOf(Chain[i])
      BY <2>2 DEF MarksOf
    <3>2. Shown(i)' = Shown(i)
      BY <1>5, <1>12, <1>13, <1>15, <2>1, <2>2
    <3> QED BY <1>11, <3>1, <3>2
  <2>3. CASE p.shape \in Watched[d] /\ Process(d, k, m)
    <3>1. m = Taken
      BY <1>5, <1>11, <2>1 DEF m
    <3>2. Marked(seen', Chain[i]) = Marked(seen, Chain[i]) \cup {Taken}
      BY <1>2, <2>1, <2>3, <3>1, MarksGrow
    <3>4. Shown(i) = {n \in 1 .. Taken : captured[n].shape \in Watched[d] /\ n # Taken}
      BY <1>12, <1>14, <1>15, <2>1
    <3>5. Shown(i)' = {n \in 1 .. Taken : captured[n].shape \in Watched[d]}
      BY <1>13, <1>14, <1>15, <2>1
    <3>6. Taken \in 1 .. Taken /\ captured[Taken].shape \in Watched[d]
      BY <1>4, <1>5, <2>3
    <3>7. Shown(i)' = Shown(i) \cup {Taken}
      BY <3>4, <3>5, <3>6
    <3> QED BY <1>11, <3>2, <3>7 DEF MarksOf
  <2> QED BY <1>9, <2>2, <2>3
<1>16. CASE i # det.next
  <2>1. Chain[i] # d
    BY <1>2, <1>11, <1>16, Constants, PipelineAssumption DEF PipelineAssumption, IsInjective, d
  <2>2. MarksOf(Chain[i])' = MarksOf(Chain[i])
    <3>1. CASE UNCHANGED seen
      BY <3>1 DEF MarksOf
    <3>2. CASE Process(d, k, m)
      <4>1. \A e \in Detector \ {d} : Marked(seen', e) = Marked(seen, e)
        BY <1>2, <3>2, MarksGrow
      <4> QED BY <1>11, <2>1, <4>1 DEF MarksOf
    <3> QED BY <1>9, <3>1, <3>2
  <2>3. Shown(i)' = Shown(i)
    BY <1>12, <1>13, <1>14, <1>16
  <2> QED BY <1>11, <2>2, <2>3
<1> QED BY <1>15, <1>16

LEMMA SeenStep ==
  ASSUME Typed, SeenInv, [Next]_vars
  PROVE  SeenInv'
<1>1. SUFFICES ASSUME phase' = "running" PROVE InOrder' /\ SeenNow'
  BY DEF SeenInv
<1>2. CASE phase # "running"
  <2>1. phase' = phase \/ phase' \in {"closing", "ended"}
    BY DEF Next, Capture, StartTshark, ReadPacket, ReadOther, StreamEnds, PutPacket, CaptureOnly,
           DetectorLoop, GetPacket, GetTimesOut, RunDetector, PutDetectorAlert, PacketDone,
           DetectorOnly, Dispatch, DispatchTimesOut, TakeAlert, Send, DispatchOnly, Scan,
           TestScan, Found, Report, PutScanAlert, ScanDone, ScanOnly, Quit, Fails, End, Close,
           CancelAll, Finish, EndOnly, vars
  <2> QED BY <1>1, <1>2, <2>1
<1>3. CASE phase = "running"
  <2>1. InOrder /\ SeenNow /\ Taken \in Nat
    BY <1>3 DEF SeenInv, InOrder
  <2>2. ASSUME UNCHANGED <<captured, packet_queue, cap, det, seen>>
        PROVE  InOrder' /\ SeenNow'
    BY <2>1, <2>2, OrderStays, ShownStays
  <2>3. CASE Capture
    <3>1. UNCHANGED <<det, seen>>
      BY <2>3 DEF Capture, StartTshark, ReadPacket, ReadOther, StreamEnds, PutPacket, CaptureOnly,
                  detectorVars
    <3> QED BY <2>1, <2>3, <3>1, CaptureOrder, ShownStays
  <2>4. CASE GetPacket
    <3>1. /\ InOrder' /\ Taken' = Taken + 1 /\ det.packet = None /\ UNCHANGED <<seen, captured>>
          /\ det'.at = "run" /\ det'.next = 1 /\ det'.packet = Head(packet_queue)
          /\ packet_queue # <<>>
      BY <2>1, <2>4, TakeOrder
         DEF GetPacket, DetectorOnly, detectorVars, Typed, Placed, DetectorHolds
    <3>2. det'.packet # None
      <4>1. packet_queue \in Seq(Packet)
        BY WaitingIs
      <4>2. Head(packet_queue) \in Packet
        BY <3>1, <4>1
      <4> QED BY <3>1, <4>2, Constants
    <3>3. ASSUME NEW i \in Counting PROVE Shown(i)' = Shown(i)
      <4>1. i \in Nat /\ i >= 1
        BY Constants, PipelineAssumption DEF Counting, PipelineAssumption
      <4>2. ~Through(i)'
        BY <3>1, <4>1 DEF Through
      <4> QED BY <2>1, <3>1, <3>2, <4>2 DEF Shown
    <3>4. ASSUME NEW i \in Counting PROVE MarksOf(Chain[i])' = MarksOf(Chain[i])
      BY <3>1 DEF MarksOf
    <3> QED BY <2>1, <3>1, <3>3, <3>4 DEF SeenNow, Counting
  <2>5. CASE RunDetector
    <3>1. UNCHANGED <<captured, packet_queue, cap>> /\ det'.packet = det.packet
      BY <2>5 DEF RunDetector, Offer, DetectorOnly, Typed, TypeOK, DetectorState
    <3> QED BY <2>1, <2>5, <3>1, OrderStays, RunShows
  <2>6. ASSUME UNCHANGED <<captured, packet_queue, cap, seen>>,
               \/ det'.packet = det.packet
                    /\ (det.packet # None => \A i \in DOMAIN Chain : Through(i)' = Through(i))
               \/ det'.packet = None /\ \A i \in DOMAIN Chain : Through(i)
        PROVE  InOrder' /\ SeenNow'
    <3>1. InOrder' /\ Taken' = Taken
      BY <2>1, <2>6, OrderStays
    <3>2. ASSUME NEW i \in Counting
          PROVE  Shown(i)' = Shown(i) /\ MarksOf(Chain[i])' = MarksOf(Chain[i])
      <4>1. i \in DOMAIN Chain
        BY DEF Counting
      <4> QED BY <2>6, <3>1, <4>1 DEF Shown, MarksOf
    <3> QED BY <2>1, <3>1, <3>2 DEF SeenNow, Counting
  <2>7. CASE GetTimesOut
    <3>1. UNCHANGED <<captured, packet_queue, cap, seen>> /\ det'.packet = det.packet /\ det.packet = None
      BY <2>7 DEF GetTimesOut, FlushExpired, DetectorOnly, queues, Typed, TypeOK, DetectorState, Placed, DetectorHolds
    <3> QED BY <2>6, <3>1
  <2>8. CASE PutDetectorAlert
    <3>1. /\ UNCHANGED <<captured, packet_queue, cap, seen>> /\ det'.packet = det.packet
          /\ det.at = "put" /\ det'.at = "run" /\ det'.next = det.next + 1 /\ det.next \in Nat
      BY <2>8, Constants DEF PutDetectorAlert, DetectorOnly, detectorVars, Typed, TypeOK, DetectorState
    <3>2. \A i \in DOMAIN Chain : Through(i)' = Through(i)
      <4> TAKE i \in DOMAIN Chain
      <4>1. i \in Nat
        BY PipelineAssumption DEF PipelineAssumption
      <4>2. Through(i)' <=> i < det.next + 1
        BY <3>1 DEF Through
      <4>3. Through(i) <=> i < det.next \/ i = det.next
        BY <3>1 DEF Through
      <4>4. Through(i)' <=> Through(i)
        BY <3>1, <4>1, <4>2, <4>3
      <4> QED BY <4>4 DEF Through
    <3> QED BY <2>6, <3>1, <3>2
  <2>9. CASE PacketDone
    <3>1. /\ UNCHANGED <<captured, packet_queue, cap, seen>> /\ det'.packet = None
          /\ det.next > Len(Chain) /\ det.next \in Nat
      BY <2>9, Constants DEF PacketDone, DetectorOnly, detectorVars, queues, Typed, TypeOK, DetectorState
    <3>2. \A i \in DOMAIN Chain : Through(i)
      BY <3>1, Constants, PipelineAssumption DEF Through, PipelineAssumption
    <3> QED BY <2>6, <3>1, <3>2
  <2>10. CASE Dispatch
    BY <2>2, <2>10 DEF Dispatch, DispatchTimesOut, TakeAlert, Send, DispatchOnly, detectorVars
  <2>11. CASE Scan
    BY <2>2, <2>11 DEF Scan, TestScan, Found, Report, PutScanAlert, ScanDone, ScanOnly, detectorVars
  <2>12. CASE Quit \/ Fails \/ End
    BY <1>1, <1>3, <2>2, <2>12
       DEF Quit, Fails, End, Close, CancelAll, Finish, EndOnly, detectorVars, queues, histories
  <2>13. CASE UNCHANGED vars
    BY <2>2, <2>13 DEF vars, detectorVars, queues, histories
  <2> QED BY <2>3, <2>4, <2>5, <2>7, <2>8, <2>9, <2>10, <2>11, <2>12, <2>13 DEF Next, DetectorLoop
<1> QED BY <1>2, <1>3

\* Back-pressure loses no packet and changes no order, and no detector that waits with its
\* alert keeps another from a packet: for any queues, chain of detectors and packets.
THEOREM DetectorsSeeAll == Spec => []EveryDetectorSeesAll
<1>1. Init => SeenInv
  <2> SUFFICES ASSUME Init PROVE SeenInv
    OBVIOUS
  <2>1. captured = <<>> /\ Waiting = <<>> /\ det.packet = None
    BY DEF Init, Waiting
  <2>2. Taken = 0
    BY <2>1 DEF Taken
  <2>3. InOrder
    BY <2>1, <2>2 DEF InOrder
  <2>4. \A d \in Detector : MarksOf(d) = {}
    BY DEF Init, DetectorsInit, MarksOf, Marked
  <2>5. \A i \in Counting : Chain[i] \in Detector
    BY Constants, PipelineAssumption DEF Counting, PipelineAssumption
  <2>6. \A i : Shown(i) = {}
    BY <2>2 DEF Shown
  <2> QED BY <2>3, <2>4, <2>5, <2>6 DEF SeenInv, SeenNow
<1>2. SeenInv /\ Typed /\ [Next]_vars => SeenInv'
  BY SeenStep
<1>3. SeenInv /\ Typed => EveryDetectorSeesAll
  <2> SUFFICES ASSUME InOrder, SeenNow, Typed PROVE EveryDetectorSeesAll
    BY DEF SeenInv, EveryDetectorSeesAll
  <2>1. Waiting \in Seq(Packet) /\ captured \in Seq(Packet) /\ Taken = Len(captured) - Len(Waiting)
    BY WaitingIs DEF Taken
  <2>2. SubSeq(captured, Taken + 1, Len(captured)) = Waiting
    <3> DEFINE s == SubSeq(captured, Taken + 1, Len(captured))
    <3>1. Taken \in Nat /\ Len(captured) \in Nat /\ Len(Waiting) \in Nat
      BY <2>1 DEF InOrder
    <3>2. s \in Seq(Packet) /\ Len(s) = Len(Waiting)
      BY <2>1, <3>1
    <3>3. \A i \in 1 .. Len(Waiting) : s[i] = Waiting[i]
      <4> TAKE i \in 1 .. Len(Waiting)
      <4>1. s[i] = captured[(Taken + 1) + i - 1]
        BY <2>1, <3>1, <3>2
      <4>2. (Taken + 1) + i - 1 = Taken + i
        BY <3>1
      <4>3. captured[Taken + i] = Waiting[i]
        BY DEF InOrder
      <4> QED BY <4>1, <4>2, <4>3
    <3> HIDE DEF s
    <3>4. s = Waiting
      BY <2>1, <3>2, <3>3
    <3> QED BY <3>4 DEF s
  <2> QED BY <2>2 DEF EveryDetectorSeesAll, SeenNow, Counting, MarksOf, Marked, Shown, Taken
<1> QED BY <1>1, <1>2, <1>3, TypedAlways, PTL DEF Spec
===============================================================================
