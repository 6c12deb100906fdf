--------------------------- MODULE AgentTick_proofs ---------------------------
(***************************************************************************)
(* Proofs about AgentTick, for every value of its constants: a tick's rows *)
(* are pruned with its decision and never while a cap counts them, and so  *)
(* the rate caps hold.                                                     *)
(***************************************************************************)
EXTENDS AgentTick, FiniteSetTheorems, TLAPS

(***************************************************************************)
(* The inductive invariants                                                *)
(***************************************************************************)

\* An action and its row are numbered by the order of their attempts; one may be under way.
NumbersOK ==
  /\ \A r \in rows : r.n <= nActs
  /\ \A a \in acts : a.n <= nActs /\ a.at <= now
  /\ \A a, b \in acts : a.n = b.n => a = b
  /\ pc \in {"act", "record"} =>
       /\ \A r \in rows : r.n < nActs
       /\ \A a \in acts : a.n < nActs
  /\ acted # None => pc = "record" /\ acted <= now
  /\ (pc = "record" /\ outcome = "executed") => acted \in Nat

\* A running tick is younger than MaxTick, and its decision is in the database.
DecisionsOK ==
  /\ \A d \in decisions : d.id <= nDecisions /\ d.ts <= now
  /\ \A d, e \in decisions : d.id = e.id => d = e
  /\ pc # "sleep" => /\ \E d \in decisions : d.id = decision /\ d.ts = started
                     /\ now <= started + MaxTick

\* A row is written while the tick of its decision runs.
RowsOK ==
  \A r \in rows : \E d \in decisions :
    d.id = r.decision /\ d.ts <= r.ts /\ r.ts <= d.ts + MaxTick

\* The other calls keep their decision, too.
ChatterOK == \A i \in chatter : \E d \in decisions : d.id = i

\* No row is lost that a cap may still count.
Recorded(a, g) == \E r \in rows : r.n = a.n /\ r.tool = a.tool /\ r.ts >= a.at
AllRecorded ==
  \A g \in Groups, a \in acts :
    (a.tool \in g /\ a.status = "executed" /\ a.at >= now - Window[g])
      => Recorded(a, g)

Safe == TypeOK /\ NumbersOK /\ DecisionsOK /\ RowsOK /\ ChatterOK /\ AllRecorded
        /\ IsFiniteSet(rows) /\ IsFiniteSet(acts)

\* While an action is under way there is room for it: fewer than its cap took effect in the
\* period that ends with it.
Edge == IF acted = None THEN now ELSE acted
Recent(g) == {a \in acts : a.tool \in g /\ a.status = "executed" /\ a.at >= Edge - Window[g]}
Room ==
  pc \in {"act", "record"} =>
    \A g \in Groups : tool \in g => Cardinality(Recent(g)) < Cap[g]

(***************************************************************************)
(* Safe is inductive                                                       *)
(***************************************************************************)

\* Nothing is recorded at the start.
LEMMA SafeInit == ASSUME ConstantsAssumption, Init PROVE Safe
<1>1. TypeOK BY DEF ConstantsAssumption, Init, TypeOK
<1>2. NumbersOK /\ DecisionsOK /\ RowsOK /\ ChatterOK /\ AllRecorded
  BY DEF Init, NumbersOK, DecisionsOK, RowsOK, ChatterOK, AllRecorded
<1>3. IsFiniteSet(rows) /\ IsFiniteSet(acts) BY FS_EmptySet DEF Init
<1> QED BY <1>1, <1>2, <1>3 DEF Safe

\* What is recorded of a call keeps the tables' types, and the tool being run is an action.
LEMMA CallTypes == ASSUME TypeOK, record_other_call
                   PROVE  /\ decisions' \in SUBSET Decision /\ rows' \in SUBSET Row
                          /\ chatter' \in SUBSET Nat /\ nDecisions' \in Nat
<1>1. decision \in Nat /\ chatter \in SUBSET Nat BY DEF TypeOK
<1>2. chatter \cup {decision} \in SUBSET Nat BY <1>1
<1> QED BY <1>2 DEF TypeOK, record_other_call

\* The action under way is one of the tools.
LEMMA ActionType == ASSUME ConstantsAssumption, TypeOK, pc \in {"act", "record"} PROVE tool \in Tools
BY DEF ConstantsAssumption, TypeOK, ActionTools

\* What is remembered of an action has the type of an effect.
LEMMA EffectType ==
  ASSUME ConstantsAssumption, TypeOK, NumbersOK,
         NEW status \in {"executed", "error", "lost"}, Remember(status)
  PROVE  acts' \in SUBSET Effect
<1>1. CASE acted = None BY <1>1 DEF Remember, TypeOK
<1>2. CASE acted # None
  <2>1. tool \in Tools /\ acted \in Nat /\ nActs \in Nat /\ decision \in Nat
    BY <1>2, ActionType DEF NumbersOK, TypeOK
  <2>2. [n |-> nActs, decision |-> decision, tool |-> tool, status |-> status, at |-> acted]
          \in Effect
    BY <2>1 DEF Effect
  <2> QED BY <1>2, <2>2 DEF Remember, TypeOK
<1> QED BY <1>1, <1>2

\* The types are kept by every step.
LEMMA TypeStep == ASSUME ConstantsAssumption, TypeOK, NumbersOK, Next PROVE TypeOK'
<1> MaxHops \in Nat /\ MaxCalls \in Nat BY DEF ConstantsAssumption
<1> USE DEF TypeOK
<1>1. CASE StartTick BY <1>1 DEF StartTick, dbVars, Decision
<1>2. CASE PushDigest BY <1>2 DEF PushDigest, Asleep, dbVars
<1>3. CASE LlmFails \/ LlmOverHops
  BY <1>3, CallTypes DEF LlmFails, LlmOverHops, Asleep
<1>4. CASE LlmConcludes BY <1>4 DEF LlmConcludes, Asleep, dbVars
<1>5. CASE LlmCalls BY <1>5 DEF LlmCalls, dbVars
<1>6. ASSUME NEW t \in Tools, ReadTool(t) \/ Refuse(t) PROVE TypeOK'
  BY <1>6, CallTypes DEF ReadTool, Refuse, NextCall
<1>7. ASSUME NEW t \in Tools, Begin(t) PROVE TypeOK' BY <1>7 DEF Begin, dbVars
<1>8. CASE Act BY <1>8 DEF Act, dbVars
<1>9. CASE Record
  <2>1. acts' \in SUBSET Effect BY <1>9, EffectType DEF Record
  <2>2. CASE record_other_call BY <1>9, <2>1, <2>2, CallTypes DEF Record, NextCall
  <2>3. CASE ~record_other_call
    <3>1. [n |-> nActs, decision |-> decision, tool |-> tool, ts |-> now] \in Row
      BY <1>9, ActionType DEF Record, Row
    <3>2. rows' \in SUBSET Row BY <1>9, <2>3, <3>1 DEF Record
    <3>3. UNCHANGED <<decisions, chatter, nDecisions>> BY <1>9, <2>3 DEF Record
    <3>4. NextCall /\ UNCHANGED <<now, mode, nActs>> BY <1>9 DEF Record
    <3> QED BY <1>9, <2>1, <3>2, <3>3, <3>4 DEF Record, NextCall
  <2> QED BY <2>2, <2>3
<1>10. CASE AuditFails BY <1>10, EffectType DEF AuditFails, Asleep, dbVars
<1>11. CASE Stop BY <1>11, EffectType DEF Stop, Asleep, dbVars
<1>12. CASE Prune BY <1>12 DEF Prune, tickVars
<1>13. CASE Tick BY <1>13 DEF Tick, tickVars, dbVars
<1>14. ASSUME NEW m \in Modes, Start(m) PROVE TypeOK' BY <1>14 DEF Start, tickVars, dbVars
<1> QED BY <1>1, <1>2, <1>3, <1>4, <1>5, <1>6, <1>7, <1>8, <1>9, <1>10, <1>11, <1>12, <1>13,
           <1>14 DEF Next, InTick

\* Attempts are numbered in order.
LEMMA NumbersStep == ASSUME ConstantsAssumption, TypeOK, NumbersOK, Next PROVE NumbersOK'
<1> USE DEF NumbersOK
<1>1. ASSUME Asleep, UNCHANGED <<now, nActs, rows, acts>> PROVE NumbersOK'
  BY <1>1 DEF Asleep, TypeOK
<1>2. CASE StartTick BY <1>2 DEF StartTick, TypeOK
<1>3. CASE PushDigest \/ LlmFails \/ LlmConcludes \/ LlmOverHops
  BY <1>1, <1>3 DEF PushDigest, LlmFails, LlmConcludes, LlmOverHops, record_other_call, dbVars
<1>4. CASE LlmCalls BY <1>4 DEF LlmCalls, dbVars
<1>5. ASSUME NEW t \in Tools, ReadTool(t) \/ Refuse(t) PROVE NumbersOK'
  BY <1>5 DEF ReadTool, Refuse, NextCall, record_other_call
<1>6. ASSUME NEW t \in Tools, Begin(t) PROVE NumbersOK'
  BY <1>6 DEF Begin, dbVars, TypeOK, Row, Effect
<1>7. CASE Act BY <1>7 DEF Act, dbVars, TypeOK
<1>8. ASSUME NEW status, Remember(status), UNCHANGED <<now, nActs, rows>>, acted' = None,
             pc' \notin {"act", "record"}
      PROVE  NumbersOK'
  BY <1>8 DEF Remember, TypeOK
<1>9. CASE Record
  <2>1. NextCall /\ Remember(outcome) /\ UNCHANGED <<now, nActs>> BY <1>9 DEF Record
  <2>2. CASE rows' = rows BY <1>8, <2>1, <2>2 DEF NextCall
  <2>3. CASE rows' # rows
    <3>1. rows' = rows \cup {[n |-> nActs, decision |-> decision, tool |-> tool, ts |-> now]}
      BY <1>9, <2>3 DEF Record, record_other_call
    <3>2. \A r \in rows' : r.n <= nActs' BY <1>9, <2>1, <3>1 DEF Record, TypeOK
    <3> QED BY <1>9, <2>1, <3>2 DEF Record, NextCall, Remember, TypeOK
  <2> QED BY <2>2, <2>3
<1>10. CASE AuditFails \/ Stop BY <1>8, <1>10 DEF AuditFails, Stop, Asleep, dbVars
<1>11. CASE Prune BY <1>11 DEF Prune, tickVars
<1>12. CASE Tick BY <1>12 DEF Tick, tickVars, dbVars, TypeOK, Effect
<1>13. ASSUME NEW m \in Modes, Start(m) PROVE NumbersOK' BY <1>13 DEF Start, tickVars, dbVars
<1> QED BY <1>2, <1>3, <1>4, <1>5, <1>6, <1>7, <1>9, <1>10, <1>11, <1>12, <1>13 DEF Next, InTick

\* The decision of a running tick is too young to be pruned.
LEMMA DecisionsStep ==
  ASSUME ConstantsAssumption, TypeOK, DecisionsOK, Next PROVE DecisionsOK'
<1> USE DEF DecisionsOK
<1>1. CASE StartTick
  <2> DEFINE new == [id |-> nDecisions + 1, ts |-> now]
  <2>1. /\ decisions' = decisions \cup {new} /\ decision' = new.id /\ started' = new.ts
        /\ nDecisions' = nDecisions + 1 /\ now' = now
    BY <1>1 DEF StartTick
  <2>2. /\ nDecisions \in Nat /\ now \in Nat /\ MaxTick \in Nat
        /\ \A d \in decisions : d.id \in Nat /\ d.ts \in Nat
    BY DEF TypeOK, Decision, ConstantsAssumption
  <2>3. new.id = nDecisions + 1 /\ new.ts = now OBVIOUS
  <2> HIDE DEF new
  <2> QED BY <2>1, <2>2, <2>3
<1>2. ASSUME UNCHANGED <<now, decisions, nDecisions>>,
             pc' = "sleep" \/ (pc # "sleep" /\ UNCHANGED <<decision, started>>)
      PROVE  DecisionsOK'
  BY <1>2
<1>3. CASE InTick
  BY <1>2, <1>3 DEF InTick, PushDigest, LlmFails, LlmConcludes, LlmOverHops, LlmCalls, ReadTool,
     Refuse, Begin, Act, Record, AuditFails, Asleep, NextCall, record_other_call, dbVars
<1>4. CASE Prune
  <2> DEFINE old == {d \in decisions : d.ts < now - Retention}
  <2>1. decisions' = decisions \ old /\ UNCHANGED <<now, pc, decision, started, nDecisions>>
    BY <1>4 DEF Prune, tickVars
  <2>2. ASSUME pc # "sleep" PROVE \E d \in decisions' : d.id = decision /\ d.ts = started
    <3>1. started >= now - Retention BY <2>2 DEF TypeOK, ConstantsAssumption
    <3> QED BY <2>1, <2>2, <3>1 DEF TypeOK, ConstantsAssumption
  <2> HIDE DEF old
  <2> QED BY <1>4, <2>1, <2>2 DEF Prune, tickVars
<1>5. CASE Tick BY <1>5 DEF Tick, tickVars, dbVars, TypeOK, Decision, ConstantsAssumption
<1>6. CASE Stop \/ \E m \in Modes : Start(m) BY <1>6 DEF Stop, Start, Asleep, tickVars, dbVars
<1> QED BY <1>1, <1>3, <1>4, <1>5, <1>6 DEF Next

\* A row and the decision it belongs to are pruned together.
LEMMA RowsStep ==
  ASSUME ConstantsAssumption, TypeOK, DecisionsOK, RowsOK, ChatterOK, Next
  PROVE  RowsOK' /\ ChatterOK'
<1> USE DEF RowsOK, ChatterOK
<1>1. CASE StartTick BY <1>1 DEF StartTick
<1>2. ASSUME UNCHANGED dbVars PROVE RowsOK' /\ ChatterOK' BY <1>2 DEF dbVars
<1>3. ASSUME record_other_call, pc # "sleep" PROVE RowsOK' /\ ChatterOK'
  BY <1>3 DEF record_other_call, DecisionsOK
<1>4. CASE Record
  <2>1. CASE record_other_call BY <1>3, <1>4, <2>1 DEF Record
  <2>2. CASE ~record_other_call
    <3> DEFINE new == [n |-> nActs, decision |-> decision, tool |-> tool, ts |-> now]
    <3>1. rows' = rows \cup {new} /\ UNCHANGED <<decisions, chatter>> BY <1>4, <2>2 DEF Record
    <3>2. PICK d \in decisions : d.id = decision /\ d.ts = started BY <1>4 DEF Record, DecisionsOK
    <3>3. d.id = new.decision /\ d.ts <= new.ts /\ new.ts <= d.ts + MaxTick
      BY <1>4, <3>2 DEF Record, DecisionsOK
    <3> HIDE DEF new
    <3> QED BY <3>1, <3>3
  <2> QED BY <2>1, <2>2
<1>5. CASE InTick /\ ~Record
  BY <1>2, <1>3, <1>5 DEF InTick, PushDigest, LlmFails, LlmConcludes, LlmOverHops, LlmCalls,
     ReadTool, Refuse, Begin, Act, AuditFails
<1>6. CASE Prune
  <2> DEFINE old == {d \in decisions : d.ts < now - Retention}
  <2>1. /\ rows' = {r \in rows : \A d \in old : r.decision # d.id}
        /\ chatter' = {i \in chatter : \A d \in old : i # d.id}
        /\ decisions' = decisions \ old
    BY <1>6 DEF Prune
  <2> HIDE DEF old
  <2> QED BY <2>1
<1>7. CASE Tick \/ Stop \/ \E m \in Modes : Start(m) BY <1>2, <1>7 DEF Tick, Stop, Start, dbVars
<1> QED BY <1>1, <1>4, <1>5, <1>6, <1>7 DEF Next

\* A row that a cap counts is younger than the retention period, and so is its decision.
LEMMA RecordedStep ==
  ASSUME ConstantsAssumption, Safe, Next
  PROVE  AllRecorded'
<1> USE DEF Safe, AllRecorded, Recorded
<1>1. ASSUME rows \subseteq rows', acts' = acts, now' = now \/ now' = now + 1 PROVE AllRecorded'
  BY <1>1 DEF TypeOK, Effect, ConstantsAssumption
<1>2. ASSUME NEW status, Remember(status), status # "executed", UNCHANGED <<rows, now>>
      PROVE  AllRecorded'
  BY <1>2 DEF Remember
<1>3. CASE StartTick BY <1>1, <1>3 DEF StartTick
<1>4. CASE Record
  <2>1. CASE outcome = "executed"
    <3> DEFINE new == [n |-> nActs, decision |-> decision, tool |-> tool, ts |-> now]
               act == [n |-> nActs, decision |-> decision, tool |-> tool, status |-> "executed",
                       at |-> acted]
    <3>1. rows \subseteq rows' BY <1>4 DEF Record, record_other_call
    <3>2. acts' = acts \cup {act} /\ acted <= now /\ now' = now
      BY <1>4, <2>1 DEF Record, Remember, NumbersOK, TypeOK, ConstantsAssumption
    <3>3. \E r \in rows' : r.n = act.n /\ r.tool = act.tool /\ r.ts >= act.at
      <4>1. new \in rows' BY <1>4, <2>1 DEF Record
      <4> QED BY <3>2, <4>1
    <3> HIDE DEF new, act
    <3> QED BY <3>1, <3>2, <3>3
  <2>2. CASE outcome # "executed" BY <1>2, <1>4, <2>2 DEF Record, record_other_call
  <2> QED BY <2>1, <2>2
<1>5. CASE AuditFails \/ Stop BY <1>2, <1>5 DEF AuditFails, Stop, dbVars
<1>6. CASE InTick /\ ~Record /\ ~AuditFails
  BY <1>1, <1>6 DEF InTick, PushDigest, LlmFails, LlmConcludes, LlmOverHops, LlmCalls,
     ReadTool, Refuse, Begin, Act, record_other_call, dbVars
<1>7. CASE Prune
  <2> DEFINE old == {d \in decisions : d.ts < now - Retention}
  <2>1. /\ rows' = {r \in rows : \A d \in old : r.decision # d.id}
        /\ UNCHANGED <<now, acts>>
    BY <1>7 DEF Prune
  <2>2. ASSUME NEW g \in Groups, NEW r \in rows, r.ts >= now - Window[g] PROVE r \in rows'
    <3>1. PICK d \in decisions : d.id = r.decision /\ r.ts <= d.ts + MaxTick BY DEF RowsOK
    <3>2. d.ts >= now - Retention
      BY <2>2, <3>1 DEF TypeOK, Row, Decision, ConstantsAssumption
    <3>3. \A e \in old : e.id # r.decision
      BY <3>1, <3>2 DEF DecisionsOK, TypeOK, Decision, ConstantsAssumption
    <3> QED BY <2>1, <3>3
  <2> HIDE DEF old
  <2>3. ASSUME NEW g \in Groups, NEW a \in acts, a.tool \in g, a.status = "executed",
               a.at >= now - Window[g]
        PROVE  \E r \in rows' : r.n = a.n /\ r.tool = a.tool /\ r.ts >= a.at
    <3>1. PICK r \in rows : r.n = a.n /\ r.tool = a.tool /\ r.ts >= a.at BY <2>3
    <3>2. r.ts >= now - Window[g]
      BY <2>3, <3>1 DEF TypeOK, Row, Effect, ConstantsAssumption
    <3> QED BY <2>2, <3>1, <3>2
  <2> QED BY <2>1, <2>3
<1>8. CASE Tick \/ \E m \in Modes : Start(m) BY <1>1, <1>8 DEF Tick, Start, dbVars
<1> QED BY <1>3, <1>4, <1>5, <1>6, <1>7, <1>8 DEF Next

\* A step adds at most one row and one action.
LEMMA FiniteStep ==
  ASSUME IsFiniteSet(rows), IsFiniteSet(acts), Next
  PROVE  IsFiniteSet(rows') /\ IsFiniteSet(acts')
<1>1. \/ rows' \subseteq rows
      \/ \E r : rows' = rows \cup {r}
  BY DEF Next, StartTick, InTick, PushDigest, LlmFails, LlmConcludes, LlmOverHops, LlmCalls,
     ReadTool, Refuse, Begin, Act, Record, AuditFails, Prune, Tick, Stop, Start,
     record_other_call, dbVars
<1>2. \/ acts' = acts
      \/ \E a : acts' = acts \cup {a}
  BY DEF Next, StartTick, InTick, PushDigest, LlmFails, LlmConcludes, LlmOverHops, LlmCalls,
     ReadTool, Refuse, Begin, Act, Record, AuditFails, Prune, Tick, Stop, Start, Remember
<1> QED BY <1>1, <1>2, FS_Subset, FS_AddElement

\* Every step of the monitor keeps the inductive invariant.
LEMMA SafeStep == ASSUME ConstantsAssumption, Safe, [Next]_vars PROVE Safe'
<1>1. CASE Next
  BY <1>1, TypeStep, NumbersStep, DecisionsStep, RowsStep, RecordedStep, FiniteStep DEF Safe
<1>2. CASE UNCHANGED vars
  BY <1>2 DEF vars, tickVars, dbVars, Safe, TypeOK, NumbersOK, DecisionsOK, RowsOK, ChatterOK,
     AllRecorded, Recorded
<1> QED BY <1>1, <1>2

\* The strengthening of the invariants, for every value of the constants.
THEOREM SafeAlways == Spec => []Safe
<1>1. Init => Safe BY ConstantsAssumption, SafeInit
<1>2. Safe /\ [Next]_vars => Safe' BY ConstantsAssumption, SafeStep
<1> QED BY <1>1, <1>2, PTL DEF Spec

\* The tick's variables and the tables of the audit database keep their types.
THEOREM TypeCorrect == Spec => []TypeOK
<1>1. Safe => TypeOK BY DEF Safe
<1> QED BY <1>1, SafeAlways, PTL

\* Retention prunes a decision with its calls, and never the decision of a running tick.
THEOREM CallsHaveTheirDecision == Spec => []NoOrphans
<1>1. Safe => NoOrphans BY DEF Safe, RowsOK, ChatterOK, NoOrphans
<1> QED BY <1>1, SafeAlways, PTL

(***************************************************************************)
(* The rate caps                                                           *)
(***************************************************************************)

\* The actions of group g that a cap is about never outnumber the rows that it counts.
LEMMA CountedByRows ==
  ASSUME ConstantsAssumption, Safe, acted = None, NEW g \in Groups
  PROVE  /\ Cardinality(Recent(g)) <= recent_successful(g)
         /\ Cardinality(Recent(g)) \in Nat /\ recent_successful(g) \in Nat
<1> DEFINE R == {r \in rows : r.tool \in g /\ r.ts >= now - Window[g]}
           f == [a \in Recent(g) |-> CHOOSE r \in rows :
                    r.n = a.n /\ r.tool = a.tool /\ r.ts >= a.at]
<1>1. IsFiniteSet(R) /\ IsFiniteSet(Recent(g))
  BY FS_Subset DEF Safe, Recent
<1>2. ASSUME NEW a \in Recent(g) PROVE f[a] \in R /\ f[a].n = a.n
  <2>1. \E r \in rows : r.n = a.n /\ r.tool = a.tool /\ r.ts >= a.at
    BY DEF Recent, Edge, Safe, AllRecorded, Recorded
  <2>2. f[a] \in rows /\ f[a].n = a.n /\ f[a].tool = a.tool /\ f[a].ts >= a.at
    BY <2>1
  <2>3. f[a].ts >= now - Window[g]
    BY <2>2 DEF Recent, Edge, Safe, TypeOK, Row, Effect, ConstantsAssumption
  <2> QED BY <2>2, <2>3 DEF Recent
<1>3. f \in [Recent(g) -> R] BY <1>2
<1> HIDE DEF f, R
<1>4. ASSUME NEW a \in Recent(g), NEW b \in Recent(g), f[a] = f[b] PROVE a = b
  <2>1. a.n = b.n BY <1>2, <1>4
  <2> QED BY <2>1 DEF Safe, NumbersOK, Recent
<1>5. ~(Cardinality(R) < Cardinality(Recent(g)))
  <2>1. SUFFICES ASSUME Cardinality(R) < Cardinality(Recent(g))
                 PROVE  \E a, b \in Recent(g) : a # b /\ f[a] = f[b]
    BY <1>4
  <2> QED BY <1>1, <1>3, <2>1, FS_PigeonHole
<1>6. Cardinality(R) \in Nat /\ Cardinality(Recent(g)) \in Nat BY <1>1, FS_CardinalityType
<1>7. recent_successful(g) = Cardinality(R) BY DEF recent_successful, R
<1> QED BY <1>5, <1>6, <1>7

\* Room is kept until the action is recorded.
LEMMA RoomStep ==
  ASSUME ConstantsAssumption, "read" \notin Faults, Safe, Room, Next
  PROVE  Room'
<1> SUFFICES ASSUME pc' \in {"act", "record"}, NEW g \in Groups, tool' \in g
             PROVE  Cardinality(Recent(g)') < Cap[g]
  BY DEF Room
<1>0. Cap[g] \in Nat /\ Window[g] \in Nat /\ IsFiniteSet(acts)
  BY DEF ConstantsAssumption, Safe
<1>1. ASSUME Recent(g)' \subseteq Recent(g), pc \in {"act", "record"}, tool' = tool
      PROVE  Cardinality(Recent(g)') < Cap[g]
  <2>1. IsFiniteSet(Recent(g)) BY <1>0, FS_Subset DEF Recent
  <2>2. Cardinality(Recent(g)') <= Cardinality(Recent(g)) BY <1>1, <2>1, FS_Subset
  <2>3. Cardinality(Recent(g)) \in Nat /\ Cardinality(Recent(g)') \in Nat
    BY <1>1, <2>1, FS_Subset, FS_CardinalityType
  <2> QED BY <1>0, <1>1, <2>2, <2>3 DEF Room
<1>2. ASSUME NEW t \in Tools, Begin(t) PROVE Cardinality(Recent(g)') < Cap[g]
  <2>1. acted = None /\ acted' = None /\ UNCHANGED <<acts, now>> /\ tool' = t
    BY <1>2 DEF Begin, Safe, NumbersOK
  <2>2. recent_successful(g) < Cap[g] BY <1>2, <2>1 DEF Begin, Admitted
  <2>3. Recent(g)' = Recent(g) BY <2>1 DEF Recent, Edge
  <2> QED BY <1>0, <2>1, <2>2, <2>3, CountedByRows
<1>3. CASE Act
  <2>1. acted = None /\ acted' \in {now, None} /\ UNCHANGED <<acts, now, tool>> /\ pc = "act"
    BY <1>3 DEF Act, Safe, NumbersOK
  <2>2. Recent(g)' = Recent(g) BY <2>1 DEF Recent, Edge
  <2> QED BY <1>1, <2>1, <2>2
<1>4. CASE Tick
  <2>1. now' = now + 1 /\ UNCHANGED <<acts, acted, pc, tool>> BY <1>4 DEF Tick, tickVars
  <2>2. Recent(g)' \subseteq Recent(g)
    BY <1>0, <2>1 DEF Recent, Edge, Safe, TypeOK, Effect
  <2> QED BY <1>1, <2>1, <2>2
<1>5. CASE Prune
  <2>1. UNCHANGED <<acts, acted, pc, tool, now>> BY <1>5 DEF Prune, tickVars
  <2>2. Recent(g)' = Recent(g) BY <2>1 DEF Recent, Edge
  <2> QED BY <1>1, <2>1, <2>2
<1>6. CASE \E m \in Modes : Start(m)
  <2>1. UNCHANGED <<acts, acted, pc, tool, now>> BY <1>6 DEF Start, tickVars
  <2>2. Recent(g)' = Recent(g) BY <2>1 DEF Recent, Edge
  <2> QED BY <1>1, <2>1, <2>2
<1>7. ASSUME NEW t \in Tools, ReadTool(t) \/ Refuse(t) PROVE FALSE
  BY <1>7 DEF ReadTool, Refuse, NextCall
<1> QED
  BY <1>2, <1>3, <1>4, <1>5, <1>6, <1>7 DEF Next, StartTick, InTick, PushDigest, LlmFails,
     LlmConcludes, LlmOverHops, LlmCalls, Record, AuditFails, Stop, Asleep, NextCall

\* An action that succeeds found room for it: none of its group's periods gets too full.
LEMMA CapStep ==
  ASSUME ConstantsAssumption, Safe, Room, RecordedWithinCap, Next
  PROVE  RecordedWithinCap'
<1> SUFFICES ASSUME NEW g \in Groups, NEW x \in 0..now'
             PROVE  Cardinality(ActsIn(g, x, {"executed"})') <= Cap[g]
  BY DEF RecordedWithinCap
<1>0. /\ Cap[g] \in Nat /\ Window[g] \in Nat /\ IsFiniteSet(acts) /\ now \in Nat
      /\ \A a \in acts : a.at \in Nat /\ a.at <= now
  BY DEF ConstantsAssumption, Safe, TypeOK, Effect, NumbersOK
<1>1. ASSUME x \in 0..now, ActsIn(g, x, {"executed"})' = ActsIn(g, x, {"executed"})
      PROVE  Cardinality(ActsIn(g, x, {"executed"})') <= Cap[g]
  BY <1>1 DEF RecordedWithinCap
<1>2. ASSUME UNCHANGED <<now, acts>> PROVE Cardinality(ActsIn(g, x, {"executed"})') <= Cap[g]
  BY <1>1, <1>2 DEF ActsIn
<1>3. ASSUME NEW status, status # "executed", Remember(status), now' = now
      PROVE  Cardinality(ActsIn(g, x, {"executed"})') <= Cap[g]
  <2>1. ActsIn(g, x, {"executed"})' = ActsIn(g, x, {"executed"}) BY <1>3 DEF ActsIn, Remember
  <2> QED BY <1>1, <1>3, <2>1
<1>4. CASE Record
  <2>1. CASE outcome # "executed" BY <1>3, <1>4, <2>1 DEF Record
  <2>2. CASE outcome = "executed"
    <3> DEFINE act == [n |-> nActs, decision |-> decision, tool |-> tool, status |-> "executed",
                       at |-> acted]
               A == ActsIn(g, x, {"executed"})
    <3>1. acts' = acts \cup {act} /\ acted # None /\ acted \in Nat /\ now' = now /\ pc = "record"
      BY <1>4, <2>2 DEF Record, Remember, Safe, NumbersOK, TypeOK, ConstantsAssumption
    <3>2. CASE tool \in g /\ acted \in x..(x + Window[g])
      <4>1. A \subseteq Recent(g)
        BY <1>0, <3>1, <3>2 DEF ActsIn, Recent, Edge
      <4>2. A' = A \cup {act} BY <3>1, <3>2 DEF ActsIn
      <4>3. IsFiniteSet(Recent(g)) /\ IsFiniteSet(A) BY <1>0, FS_Subset DEF Recent, ActsIn
      <4> HIDE DEF A, act
      <4>4. Cardinality(A) <= Cardinality(Recent(g)) BY <4>1, <4>3, FS_Subset
      <4>5. Cardinality(Recent(g)) < Cap[g] BY <3>1, <3>2 DEF Room
      <4>6. Cardinality(A) \in Nat /\ Cardinality(Recent(g)) \in Nat
        BY <4>3, FS_CardinalityType
      <4>7. IsFiniteSet(A') BY <4>2, <4>3, FS_AddElement
      <4>8. Cardinality(A \cup {act}) = IF act \in A THEN Cardinality(A) ELSE Cardinality(A) + 1
        BY <4>3, FS_AddElement
      <4>9. Cardinality(A') \in Nat BY <4>7, FS_CardinalityType
      <4>10. Cardinality(A') <= Cap[g] BY <1>0, <4>2, <4>4, <4>5, <4>6, <4>8, <4>9
      <4> QED BY <4>10 DEF A
    <3>3. CASE ~(tool \in g /\ acted \in x..(x + Window[g]))
      <4>1. A' = A BY <3>1, <3>3 DEF ActsIn
      <4> QED BY <1>1, <3>1, <4>1
    <3> QED BY <3>2, <3>3
  <2> QED BY <2>1, <2>2
<1>5. CASE AuditFails \/ Stop BY <1>3, <1>5 DEF AuditFails, Stop
<1>6. CASE Tick
  <2>1. acts' = acts /\ now' = now + 1 BY <1>6 DEF Tick
  <2>2. CASE x \in 0..now BY <1>1, <2>1, <2>2 DEF ActsIn
  <2>3. CASE x = now + 1
    <3>1. ActsIn(g, x, {"executed"})' = {} BY <1>0, <2>1, <2>3 DEF ActsIn
    <3>2. Cardinality(ActsIn(g, x, {"executed"})') = 0 BY <3>1, FS_EmptySet, Zenon
    <3> QED BY <1>0, <3>2
  <2> QED BY <1>0, <2>1, <2>2, <2>3
<1>7. CASE \/ StartTick \/ Prune \/ \E m \in Modes : Start(m)
           \/ InTick /\ ~Record /\ ~AuditFails
  BY <1>2, <1>7 DEF StartTick, Prune, Start, InTick, PushDigest, LlmFails, LlmConcludes,
     LlmOverHops, LlmCalls, ReadTool, Refuse, Begin, Act
<1> QED BY <1>4, <1>5, <1>6, <1>7 DEF Next, InTick

\* A tick whose action is not recorded is over, and its decision is not used again.
Losses ==
  /\ \A a \in acts : a.decision <= nDecisions
  /\ \A a \in acts : a.status = "lost" => pc = "sleep" \/ a.decision # decision
  /\ LossEndsTick

LEMMA LossStep ==
  ASSUME ConstantsAssumption, Safe, Losses, Next
  PROVE  Losses'
<1> USE DEF Losses, LossEndsTick
<1>0. /\ nDecisions \in Nat /\ \A a \in acts : a.decision \in Nat /\ a.n <= nActs
      /\ pc # "sleep" => decision <= nDecisions
  BY DEF Safe, TypeOK, Effect, NumbersOK, DecisionsOK
<1>1. ASSUME acts' = acts, nDecisions' = nDecisions,
             pc' = "sleep" \/ (pc # "sleep" /\ decision' = decision)
      PROVE  Losses'
  BY <1>1
<1>2. CASE StartTick BY <1>0, <1>2 DEF StartTick
<1>3. ASSUME NEW status, Remember(status), nDecisions' = nDecisions,
             \/ pc' = "sleep"
             \/ status # "lost" /\ pc # "sleep" /\ decision' = decision
      PROVE  Losses'
  <2>1. CASE acted = None BY <1>1, <1>3, <2>1 DEF Remember
  <2>2. CASE acted # None
    <3> DEFINE act == [n |-> nActs, decision |-> decision, tool |-> tool, status |-> status,
                       at |-> acted]
    <3>1. acts' = acts \cup {act} /\ pc = "record"
      BY <1>3, <2>2 DEF Remember, Safe, NumbersOK
    <3>2. act.n = nActs /\ act.decision = decision /\ act.status = status OBVIOUS
    <3>3. nActs <= nActs BY DEF Safe, TypeOK
    <3> HIDE DEF act
    <3> QED BY <1>0, <1>3, <3>1, <3>2, <3>3
  <2> QED BY <2>1, <2>2
<1>4. CASE Record
  <2>1. outcome # "lost" BY <1>4 DEF Record
  <2>2. nDecisions' = nDecisions /\ Remember(outcome) /\ pc # "sleep" /\ decision' = decision
    BY <1>4 DEF Record, NextCall, record_other_call
  <2> QED BY <1>3, <2>1, <2>2
<1>5. CASE AuditFails \/ Stop BY <1>3, <1>5 DEF AuditFails, Stop, Asleep, dbVars
<1>6. CASE InTick /\ ~Record /\ ~AuditFails
  BY <1>1, <1>6 DEF InTick, PushDigest, LlmFails, LlmConcludes, LlmOverHops, LlmCalls,
     ReadTool, Refuse, Begin, Act, Asleep, NextCall, record_other_call, dbVars
<1>7. CASE Prune \/ Tick \/ \E m \in Modes : Start(m)
  BY <1>1, <1>7 DEF Prune, Tick, Start, tickVars, dbVars
<1> QED BY <1>2, <1>4, <1>5, <1>6, <1>7 DEF Next

\* However many actions a tick takes, a write that fails costs the caps one of them at most.
LEMMA LossesBounded == Spec => []Losses
<1>1. Init => Losses BY DEF Init, Losses, LossEndsTick
<1>2. Losses /\ Safe /\ [Next]_vars => Losses'
  <2> SUFFICES ASSUME Losses, Safe, [Next]_vars PROVE Losses' OBVIOUS
  <2>1. CASE Next BY <2>1, ConstantsAssumption, LossStep
  <2>2. CASE UNCHANGED vars BY <2>2 DEF vars, tickVars, dbVars, Losses, LossEndsTick
  <2> QED BY <2>1, <2>2
<1> QED BY <1>1, <1>2, SafeAlways, PTL DEF Spec

\* As long as the audit database can be read, no period as long as a group's window sees more
\* recorded successes than the group's cap, whatever is pruned or restarted meanwhile; and at
\* most one action of a tick goes unrecorded.
THEOREM RateCapHolds == ASSUME "read" \notin Faults PROVE Spec => []RateCap
<1>1. Init => Room /\ RecordedWithinCap
  <2> SUFFICES ASSUME Init PROVE Room /\ RecordedWithinCap OBVIOUS
  <2>1. \A g \in Groups, x \in 0..now : ActsIn(g, x, {"executed"}) = {} BY DEF Init, ActsIn
  <2>2. \A g \in Groups : Cap[g] \in Nat BY ConstantsAssumption DEF ConstantsAssumption
  <2> QED BY <2>1, <2>2, FS_EmptySet DEF Init, Room, RecordedWithinCap
<1>2. (Room /\ RecordedWithinCap) /\ Safe /\ [Next]_vars => (Room /\ RecordedWithinCap)'
  <2> SUFFICES ASSUME Room, RecordedWithinCap, Safe, [Next]_vars PROVE (Room /\ RecordedWithinCap)' OBVIOUS
  <2>1. CASE Next BY <2>1, ConstantsAssumption, RoomStep, CapStep
  <2>2. CASE UNCHANGED vars
    BY <2>2 DEF vars, tickVars, dbVars, Room, Recent, Edge, RecordedWithinCap, ActsIn
  <2> QED BY <2>1, <2>2
<1>3. Losses => LossEndsTick BY DEF Losses
<1> QED BY <1>1, <1>2, <1>3, SafeAlways, LossesBounded, PTL DEF Spec, RateCap
===============================================================================
