----------------------------- MODULE Services_proofs ----------------------------
(***************************************************************************)
(* The parts that share no state with one another and that MCServices puts  *)
(* side by side: what holds of each of them, for any devices, alerts,        *)
(* addresses, clocks and configuration.  Each part has its own specification *)
(* and its own invariant.                                                    *)
(*                                                                           *)
(* The inventory.  That the file is never forgotten is not inductive as it   *)
(* stands: a lookup that fails takes a name away, so the proof needs that    *)
(* the resolver's round only holds devices without one (Unnamed), which a    *)
(* device keeps even when it is pruned and heard of again in the middle of   *)
(* the round; pruning compares what was heard of with a clock that only      *)
(* advances, and hearing of a device again makes its row no older, since no  *)
(* row is from the future (Heard).                                           *)
(*                                                                           *)
(* The alerts' channels.  A stamp is the time of an alert the channel tried  *)
(* to send under the same key (StampsAreSent).                               *)
(*                                                                           *)
(* Who reads events.db.  Alerts are handled in the order made (MadeInOrder), *)
(* so what is pruned is older than all that stays and a row that stays only  *)
(* moves to later places (PlacesGrow).                                       *)
(*                                                                           *)
(* The deep-inspect service.  What it has forgotten is no younger than some  *)
(* restart (LostBefore); so an id that is asked for again, and not in the    *)
(* table, is of a second in which the service was started.                   *)
(*                                                                           *)
(* The cases.  Every step of the monitor and of its collections that writes   *)
(* the row of a known case leaves its status, priority and assignee; no row   *)
(* has an id above AUTOINCREMENT, so the row of a new case replaces none.     *)
(* That cases of one matter lie apart needs that none was opened in the       *)
(* future: then the older of two can no longer be correlated.                *)
(***************************************************************************)
EXTENDS Inventory, EventLog, DeepInspectWeb, Incidents,
        FiniteSetTheorems, NaturalsInduction, TLAPS

-----------------------------------------------------------------------------
(* The inventory.                                                           *)

\* Part of InventoryTypeOK: what the file and the records are.
Typed ==
    /\ moment \in Nat /\ running \in BOOLEAN /\ saving \in BOOLEAN
    /\ Rows(records)
    /\ disk \in [state : {"missing", "torn", "intact"}, records : {disk.records}]
    /\ Rows(disk.records)

\* The other part: what the resolver keeps.
ResolverTyped ==
    /\ listed \subseteq Devices
    /\ DOMAIN negative \subseteq Devices /\ DOMAIN answers \subseteq Devices

Unnamed ==
    /\ ~running => listed = {}
    /\ \A d \in listed \cap DOMAIN records : ~records[d].named

\* No row is from the future.
Heard(R) == \A d \in DOMAIN R : R[d].seen <= moment

InventoryInv == Typed /\ Unnamed /\ Heard(records) /\ Heard(disk.records) /\ SavedIsRemembered

\* Record r says no less than record s.
Covers(r, s) ==
    /\ r.seen >= s.seen
    /\ s.named => r.named
    /\ s.mac => r.mac
    /\ r.level >= s.level

\* A step of a running monitor that leaves the file alone and keeps what is
\* known of every device heard of lately.
Keeps ==
    /\ running /\ disk' = disk /\ moment' \in Nat /\ moment' >= moment
    /\ \A d \in DOMAIN records : records[d].seen + Remember >= moment =>
           d \in DOMAIN records' /\ Covers(records'[d], records[d])

-----------------------------------------------------------------------------

LEMMA NoneIsRows == Rows(None) /\ DOMAIN None = {}
BY DEF Rows, None

LEMMA KeepsRemembers ==
    ASSUME InventoryInv, Rows(records'), Keeps
    PROVE  SavedIsRemembered'
<1> SUFFICES ASSUME Intact, NEW d \in DOMAIN disk.records, disk.records[d].seen + Remember >= moment'
             PROVE  /\ d \in DOMAIN records'
                    /\ records'[d].seen >= disk.records[d].seen
                    /\ disk.records[d].named => records'[d].named
                    /\ disk.records[d].mac => records'[d].mac
                    /\ d \in Trusted \/ records'[d].level >= disk.records[d].level
    BY DEF SavedIsRemembered, Keeps, Intact
<1>1. disk.records[d] \in DeviceRecord
    BY DEF InventoryInv, Typed, Rows
<1>2. disk.records[d].seen + Remember >= moment
    BY <1>1, InventoryAssumption DEF Keeps, InventoryInv, Typed, DeviceRecord
<1>3. /\ d \in DOMAIN records
      /\ records[d].seen >= disk.records[d].seen
      /\ disk.records[d].named => records[d].named
      /\ disk.records[d].mac => records[d].mac
      /\ d \in Trusted \/ records[d].level >= disk.records[d].level
    BY <1>2 DEF InventoryInv, SavedIsRemembered, Keeps
<1>4. records[d] \in DeviceRecord
    BY <1>3 DEF InventoryInv, Typed, Rows
<1>5. records[d].seen + Remember >= moment
    BY <1>1, <1>2, <1>3, <1>4, InventoryAssumption DEF DeviceRecord, InventoryInv, Typed
<1>6. d \in DOMAIN records' /\ Covers(records'[d], records[d])
    BY <1>3, <1>5 DEF Keeps
<1>7. records'[d] \in DeviceRecord
    BY <1>6 DEF Rows
<1>8. /\ records'[d].seen >= disk.records[d].seen
      /\ records'[d].level >= records[d].level
    BY <1>1, <1>3, <1>4, <1>6, <1>7 DEF Covers, DeviceRecord
<1>9. d \in Trusted \/ records'[d].level >= disk.records[d].level
    BY <1>1, <1>3, <1>4, <1>7, <1>8 DEF DeviceRecord
<1> QED BY <1>3, <1>6, <1>8, <1>9 DEF Covers

\* Hearing of devices keeps every row, and makes rows without a name.
LEMMA SeenKeeps ==
    ASSUME Typed, NEW D \in SUBSET Devices
    PROVE  /\ Rows(Seen(D)) /\ DOMAIN Seen(D) = DOMAIN records \cup D
           /\ \A d \in DOMAIN records : /\ Seen(D)[d].named = records[d].named
                                        /\ Seen(D)[d].mac = records[d].mac
                                        /\ Seen(D)[d].level = records[d].level
                                        /\ Seen(D)[d].seen \in {records[d].seen, moment}
           /\ \A d \in D \ DOMAIN records : ~Seen(D)[d].named
BY DEF Typed, Rows, Seen, Fresh, DeviceRecord

LEMMA ListedStaysUnnamed ==
    ASSUME InventoryInv, Rows(records'), running' = running, listed' \subseteq listed,
           \A d \in DOMAIN records' : records'[d].named => d \notin listed' \/
                                          (d \in DOMAIN records /\ records[d].named)
    PROVE  Unnamed'
BY DEF InventoryInv, Unnamed

-----------------------------------------------------------------------------
(* The steps.                                                               *)

\* A step that changes no more than the rows of a running monitor, which keep
\* what they say and get no name while they are listed.
LEMMA RowsStep ==
    ASSUME InventoryInv, running, Rows(records'), Heard(records)', listed' \subseteq listed,
           UNCHANGED <<moment, running, saving, disk>>,
           \A d \in DOMAIN records : /\ d \in DOMAIN records'
                                     /\ Covers(records'[d], records[d]),
           \A d \in DOMAIN records' : records'[d].named => d \notin listed' \/
                                          (d \in DOMAIN records /\ records[d].named)
    PROVE  InventoryInv'
<1>1. Typed'
    BY DEF InventoryInv, Typed
<1>2. Keeps
    BY DEF Keeps, InventoryInv, Typed
<1>3. Heard(disk.records)'
    BY DEF InventoryInv, Heard
<1> QED BY <1>1, <1>2, <1>3, KeepsRemembers, ListedStaysUnnamed DEF InventoryInv

\* Devices are heard of, and what is learnt of them is not less.
LEMMA SeenCovers ==
    ASSUME InventoryInv, NEW D \in SUBSET Devices
    PROVE  /\ Rows(Seen(D)) /\ DOMAIN Seen(D) = DOMAIN records \cup D
           /\ \A d \in DOMAIN Seen(D) : Seen(D)[d] \in DeviceRecord /\ Seen(D)[d].seen <= moment
           /\ \A d \in DOMAIN records : Covers(Seen(D)[d], records[d])
           /\ \A d \in DOMAIN Seen(D) : Seen(D)[d].named => d \in DOMAIN records /\ records[d].named
<1> DEFINE S == Seen(D)
<1>1. /\ Rows(S) /\ DOMAIN S = DOMAIN records \cup D
      /\ \A d \in DOMAIN records : /\ S[d].named = records[d].named
                                   /\ S[d].mac = records[d].mac
                                   /\ S[d].level = records[d].level
                                   /\ S[d].seen \in {records[d].seen, moment}
      /\ \A d \in D \ DOMAIN records : ~S[d].named
    BY SeenKeeps DEF InventoryInv
<1>2. \A d \in D \ DOMAIN records : S[d].seen = moment
    BY DEF Seen, Fresh
<1>3. moment \in Nat /\ \A d \in DOMAIN records : records[d] \in DeviceRecord /\ records[d].seen <= moment
    BY DEF InventoryInv, Typed, Rows, Heard
<1>4. \A d \in DOMAIN records : records[d].seen \in Nat /\ records[d].level \in Nat
    BY <1>3 DEF DeviceRecord
<1> HIDE DEF S
<1>5. \A d \in DOMAIN S : S[d] \in DeviceRecord
    BY <1>1 DEF Rows
<1>6. \A d \in DOMAIN S : S[d].seen <= moment
    BY <1>1, <1>2, <1>3, <1>4
<1>7. \A d \in DOMAIN records : Covers(S[d], records[d])
    BY <1>1, <1>3, <1>4 DEF Covers
<1>8. \A d \in DOMAIN S : S[d].named => d \in DOMAIN records /\ records[d].named
    BY <1>1
<1> QED BY <1>1, <1>5, <1>6, <1>7, <1>8 DEF S

LEMMA UpdateKeeps ==
    ASSUME InventoryInv, NEW s \in Devices, NEW t \in Devices, Update(s, t)
    PROVE  InventoryInv'
<1> DEFINE D == {s, t} \cap Local
<1>1. D \in SUBSET Devices
    OBVIOUS
<1>2. records' = Seen(D) /\ running /\ UNCHANGED <<moment, running, saving, disk, listed>>
    BY DEF Update, Awake
<1> HIDE DEF D
<1>3. Heard(records)'
    BY <1>1, <1>2, SeenCovers DEF Heard
<1> QED BY <1>1, <1>2, <1>3, SeenCovers, RowsStep

LEMMA UpdateArpKeeps ==
    ASSUME InventoryInv, NEW d \in Devices, UpdateArp(d)
    PROVE  InventoryInv'
<1> DEFINE S == Seen({d})
<1>1. /\ records' = [S EXCEPT ![d].mac = TRUE] /\ running
      /\ UNCHANGED <<moment, running, saving, disk, listed>>
    BY DEF UpdateArp, Awake
<1>2. /\ Rows(S) /\ d \in DOMAIN S /\ DOMAIN records \subseteq DOMAIN S
      /\ \A x \in DOMAIN S : S[x] \in DeviceRecord /\ S[x].seen <= moment
      /\ \A x \in DOMAIN records : Covers(S[x], records[x])
      /\ \A x \in DOMAIN S : S[x].named => x \in DOMAIN records /\ records[x].named
    BY SeenCovers
<1> HIDE DEF S
<1>3. /\ DOMAIN records' = DOMAIN S
      /\ \A x \in DOMAIN S : /\ records'[x].seen = S[x].seen /\ records'[x].named = S[x].named
                             /\ records'[x].level = S[x].level
                             /\ S[x].mac => records'[x].mac
    BY <1>1, <1>2 DEF Rows, DeviceRecord
<1>4. Rows(records')
    BY <1>1, <1>2 DEF Rows, DeviceRecord
<1>5. Heard(records)'
    BY <1>1, <1>2, <1>3 DEF Heard
<1>6. \A x \in DOMAIN records : x \in DOMAIN records' /\ Covers(records'[x], records[x])
    BY <1>2, <1>3 DEF Covers
<1> QED BY <1>1, <1>2, <1>3, <1>4, <1>5, <1>6, RowsStep

LEMMA UpdateThreatKeeps ==
    ASSUME InventoryInv, NEW d \in Devices, NEW level \in Raises, UpdateThreat(d, level)
    PROVE  InventoryInv'
<1>1. /\ records' = [records EXCEPT ![d].level = level] /\ running
      /\ d \in DOMAIN records /\ level > records[d].level
      /\ UNCHANGED <<moment, running, saving, disk, listed>>
    BY DEF UpdateThreat, Awake
<1>2. Rows(records) /\ Heard(records) /\ \A x \in DOMAIN records : records[x] \in DeviceRecord
    BY DEF InventoryInv, Typed, Rows
<1>3. level \in 1 .. 4
    BY InventoryAssumption
<1>4. /\ Rows(records') /\ DOMAIN records' = DOMAIN records
      /\ \A x \in DOMAIN records :
             /\ records'[x].seen = records[x].seen /\ records'[x].named = records[x].named
             /\ records'[x].mac = records[x].mac
             /\ records'[x].level = IF x = d THEN level ELSE records[x].level
    BY <1>1, <1>2, <1>3 DEF Rows, DeviceRecord
<1>5. Heard(records)'
    BY <1>1, <1>2, <1>4 DEF Heard
<1>6. \A x \in DOMAIN records : records[x].seen \in Nat /\ records[x].level \in Nat
    BY <1>2 DEF DeviceRecord
<1>7. \A x \in DOMAIN records : Covers(records'[x], records[x])
    BY <1>1, <1>3, <1>4, <1>6 DEF Covers
<1> QED BY <1>1, <1>4, <1>5, <1>7, RowsStep

\* A row keeps its name or has none; only a device without one is looked up.
LEMMA UpdateHostnameKeeps ==
    ASSUME InventoryInv, running, NEW d \in listed, NEW named \in BOOLEAN,
           UpdateHostname(d, named), listed' = listed \ {d},
           UNCHANGED <<moment, running, saving, disk>>
    PROVE  InventoryInv'
<1>1. Rows(records) /\ Heard(records) /\ \A x \in DOMAIN records : records[x] \in DeviceRecord
    BY DEF InventoryInv, Typed, Rows
<1>2. d \in DOMAIN records => ~records[d].named
    BY DEF InventoryInv, Unnamed
<1>3. /\ Rows(records') /\ DOMAIN records' = DOMAIN records
      /\ \A x \in DOMAIN records :
             /\ records'[x].seen = records[x].seen /\ records'[x].mac = records[x].mac
             /\ records'[x].level = records[x].level
             /\ x # d => records'[x].named = records[x].named
    BY <1>1 DEF UpdateHostname, Rows, DeviceRecord
<1>4. Heard(records)'
    BY <1>1, <1>3 DEF Heard
<1>5. \A x \in DOMAIN records : records[x].seen \in Nat /\ records[x].level \in Nat
    BY <1>1 DEF DeviceRecord
<1>6. \A x \in DOMAIN records : Covers(records'[x], records[x])
    BY <1>2, <1>3, <1>5 DEF Covers
<1> QED BY <1>3, <1>4, <1>6, RowsStep

LEMMA ResolveKeeps ==
    ASSUME InventoryInv, NEW d \in Devices, Resolve(d)
    PROVE  InventoryInv'
<1>1. /\ d \in listed /\ running /\ listed' = listed \ {d}
      /\ UNCHANGED <<moment, running, saving, disk>>
    BY DEF Resolve, Awake
<1>2. \E named \in BOOLEAN : UpdateHostname(d, named)
    BY DEF Resolve, AskNetwork, NoAnswer
<1> QED BY <1>1, <1>2, UpdateHostnameKeeps

\* A step that leaves what the invariant is about, but for the resolver's list.
LEMMA StutterKeeps ==
    ASSUME InventoryInv, UNCHANGED <<moment, running, records, saving, disk>>, Unnamed'
    PROVE  InventoryInv'
BY DEF InventoryInv, Typed, Rows, Heard, SavedIsRemembered, Intact

LEMMA StartRoundKeeps ==
    ASSUME InventoryInv, StartRound
    PROVE  InventoryInv'
<1>1. Unnamed'
    BY DEF StartRound, Awake, UnresolvedIps, Unnamed
<1> QED BY <1>1, StutterKeeps DEF StartRound

LEMMA BeginPersistKeeps ==
    ASSUME InventoryInv, BeginPersist
    PROVE  InventoryInv'
<1>1. /\ records' = Only(records, {d \in DOMAIN records : records[d].seen + Remember >= moment})
      /\ UNCHANGED <<moment, running, listed>> /\ running
      /\ \/ disk' = File("torn", None) /\ saving' = TRUE
         \/ UNCHANGED <<disk, saving>>
    BY DEF BeginPersist, Awake
<1>2. moment \in Nat /\ \A d \in DOMAIN records : records[d] \in DeviceRecord
    BY DEF InventoryInv, Typed, Rows
<1>3. /\ Rows(records')
      /\ \A d \in DOMAIN records' : d \in DOMAIN records /\ records'[d] = records[d]
      /\ \A d \in DOMAIN records : records[d].seen + Remember >= moment =>
             d \in DOMAIN records' /\ records'[d] = records[d]
    BY <1>1 DEF InventoryInv, Typed, Rows, Only
<1>4. Heard(records)' /\ Unnamed'
    BY <1>1, <1>3 DEF InventoryInv, Heard, Unnamed
<1>5. CASE UNCHANGED <<disk, saving>>
    <2>1. Typed' /\ Heard(disk.records)'
        BY <1>1, <1>3, <1>5 DEF InventoryInv, Typed, Heard
    <2>2. \A d \in DOMAIN records : records[d].seen \in Nat /\ records[d].level \in Nat
        BY <1>2 DEF DeviceRecord
    <2>3. Keeps
        BY <1>1, <1>2, <1>3, <1>5, <2>2 DEF Keeps, Covers
    <2> QED BY <1>3, <1>4, <2>1, <2>3, KeepsRemembers DEF InventoryInv
<1>6. CASE disk' = File("torn", None) /\ saving' = TRUE
    <2>1. disk'.state = "torn" /\ disk'.records = None
        BY <1>6 DEF File
    <2>2. Typed'
        BY <1>1, <1>3, <1>6, NoneIsRows DEF InventoryInv, Typed, File, Rows
    <2>3. Heard(disk.records)' /\ SavedIsRemembered'
        BY <2>1, NoneIsRows DEF Heard, SavedIsRemembered, Intact
    <2> QED BY <1>4, <2>2, <2>3 DEF InventoryInv
<1> QED BY <1>1, <1>5, <1>6

LEMMA EndPersistKeeps ==
    ASSUME InventoryInv, EndPersist
    PROVE  InventoryInv'
<1>1. /\ UNCHANGED <<moment, running, records, listed>> /\ saving' = FALSE
      /\ disk' = File("intact", records) \/ disk' = File("torn", None)
    BY DEF EndPersist
<1>2. Unnamed' /\ Heard(records)'
    BY <1>1 DEF InventoryInv, Unnamed, Heard
<1>3. CASE disk' = File("torn", None)
    <2>1. disk'.state = "torn" /\ disk'.records = None
        BY <1>3 DEF File
    <2>2. Typed'
        BY <1>1, <1>3, NoneIsRows DEF InventoryInv, Typed, File, Rows
    <2>3. Heard(disk.records)' /\ SavedIsRemembered'
        BY <2>1, NoneIsRows DEF Heard, SavedIsRemembered, Intact
    <2> QED BY <1>2, <2>2, <2>3 DEF InventoryInv
<1>4. CASE disk' = File("intact", records)
    <2>1. disk'.records = records
        BY <1>4 DEF File
    <2>2. Typed'
        BY <1>1, <1>4 DEF InventoryInv, Typed, File, Rows
    <2>3. Heard(disk.records)'
        BY <1>1, <2>1 DEF InventoryInv, Heard
    <2>4. \A d \in DOMAIN records : records[d].seen \in Nat /\ records[d].level \in Nat
        BY DEF InventoryInv, Typed, Rows, DeviceRecord
    <2>5. SavedIsRemembered'
        BY <1>1, <2>1, <2>4 DEF SavedIsRemembered
    <2> QED BY <1>2, <2>2, <2>3, <2>5 DEF InventoryInv
<1> QED BY <1>1, <1>3, <1>4

LEMMA DieKeeps ==
    ASSUME InventoryInv, Die
    PROVE  InventoryInv'
<1>1. running' = FALSE /\ records' = None /\ saving' = FALSE /\ listed' = {} /\ UNCHANGED <<moment, disk>>
    BY DEF Die
<1>2. Typed'
    BY <1>1, NoneIsRows DEF InventoryInv, Typed, Rows
<1>3. Unnamed' /\ Heard(records)' /\ Heard(disk.records)' /\ SavedIsRemembered'
    BY <1>1, NoneIsRows DEF InventoryInv, Unnamed, Heard, SavedIsRemembered
<1> QED BY <1>2, <1>3 DEF InventoryInv

\* What a start brings back is what was saved, the trusted devices' levels apart.
LEMMA ResetKeeps ==
    ASSUME NEW R, Rows(R)
    PROVE  /\ Rows(ResetWhitelisted(R)) /\ DOMAIN ResetWhitelisted(R) = DOMAIN R
           /\ \A d \in DOMAIN R : /\ ResetWhitelisted(R)[d].seen = R[d].seen
                                  /\ ResetWhitelisted(R)[d].named = R[d].named
                                  /\ ResetWhitelisted(R)[d].mac = R[d].mac
                                  /\ d \in Trusted \/ ResetWhitelisted(R)[d].level = R[d].level
BY DEF Rows, ResetWhitelisted, DeviceRecord

LEMMA LoadKeeps ==
    ASSUME InventoryInv, Load
    PROVE  InventoryInv'
<1>1. /\ ~running /\ running' = TRUE /\ UNCHANGED <<moment, saving, disk, listed>>
      /\ records' = IF Intact THEN ResetWhitelisted(disk.records) ELSE None
    BY DEF Load
<1>2. listed = {} /\ Rows(disk.records) /\ Heard(disk.records)
    BY <1>1 DEF InventoryInv, Unnamed, Typed
<1>3. Unnamed' /\ Heard(disk.records)'
    BY <1>1, <1>2 DEF Unnamed, Heard
<1>4. Rows(records') /\ Heard(records)'
    BY <1>1, <1>2, NoneIsRows, ResetKeeps DEF Heard
<1>5. Typed'
    BY <1>1, <1>4 DEF InventoryInv, Typed
<1>6. \A d \in DOMAIN disk.records : disk.records[d].seen \in Nat /\ disk.records[d].level \in Nat
    BY <1>2 DEF Rows, DeviceRecord
<1>7. SavedIsRemembered'
    <2> SUFFICES ASSUME Intact, NEW d \in DOMAIN disk.records
                 PROVE  /\ d \in DOMAIN records'
                        /\ records'[d].seen >= disk.records[d].seen
                        /\ disk.records[d].named => records'[d].named
                        /\ disk.records[d].mac => records'[d].mac
                        /\ d \in Trusted \/ records'[d].level >= disk.records[d].level
        BY <1>1 DEF SavedIsRemembered, Intact
    <2> QED BY <1>1, <1>2, <1>6, ResetKeeps
<1> QED BY <1>3, <1>4, <1>5, <1>7 DEF InventoryInv

LEMMA TickKeeps ==
    ASSUME InventoryInv, InventoryTick
    PROVE  InventoryInv'
<1>1. moment' = moment + 1 /\ moment \in Nat /\ UNCHANGED <<running, records, saving, disk, listed>>
    BY DEF InventoryTick, InventoryInv, Typed
<1>2. Typed' /\ Unnamed'
    BY <1>1 DEF InventoryInv, Typed, Unnamed, Rows
<1>3. \A d \in DOMAIN records : records[d].seen \in Nat /\ records[d].level \in Nat
    BY DEF InventoryInv, Typed, Rows, DeviceRecord
<1>4. \A d \in DOMAIN disk.records : disk.records[d].seen \in Nat
    BY DEF InventoryInv, Typed, Rows, DeviceRecord
<1>5. Heard(records)' /\ Heard(disk.records)'
    BY <1>1, <1>3, <1>4 DEF InventoryInv, Heard
<1>6. SavedIsRemembered'
    <2>1. CASE running
        <3>1. Keeps
            BY <1>1, <1>3, <2>1 DEF Keeps, Covers
        <3>2. Rows(records')
            BY <1>1 DEF InventoryInv, Typed, Rows
        <3> QED BY <3>1, <3>2, KeepsRemembers
    <2>2. CASE ~running
        BY <1>1, <2>2 DEF SavedIsRemembered
    <2> QED BY <2>1, <2>2
<1> QED BY <1>2, <1>5, <1>6 DEF InventoryInv

-----------------------------------------------------------------------------

\* Of every reachable state: types, the resolver's list and the file.
THEOREM InventorySafe == InventorySpec => []InventoryInv
<1>1. InventoryInit => InventoryInv
    <2> SUFFICES ASSUME InventoryInit PROVE InventoryInv
        OBVIOUS
    <2>1. Typed
        BY NoneIsRows DEF InventoryInit, Typed, File
    <2>2. Unnamed /\ Heard(records) /\ Heard(disk.records) /\ SavedIsRemembered
        BY NoneIsRows DEF InventoryInit, Unnamed, Heard, SavedIsRemembered, File
    <2> QED BY <2>1, <2>2 DEF InventoryInv
<1>2. InventoryInv /\ [InventoryNext]_inventoryVars => InventoryInv'
    <2> SUFFICES ASSUME InventoryInv, [InventoryNext]_inventoryVars PROVE InventoryInv'
        OBVIOUS
    <2>1. CASE \E s, d \in Devices : Update(s, d)
        BY <2>1, UpdateKeeps
    <2>2. CASE \E d \in Devices : UpdateArp(d)
        BY <2>2, UpdateArpKeeps
    <2>3. CASE \E d \in Devices : Resolve(d)
        BY <2>3, ResolveKeeps
    <2>4. CASE \E d \in Devices : LateAnswer(d)
        <3>1. UNCHANGED <<moment, running, records, saving, disk, listed>>
            BY <2>4 DEF LateAnswer
        <3>2. Unnamed'
            BY <3>1 DEF InventoryInv, Unnamed
        <3> QED BY <3>1, <3>2, StutterKeeps
    <2>5. CASE \E d \in Devices, l \in Raises : UpdateThreat(d, l)
        BY <2>5, UpdateThreatKeeps
    <2>6. CASE StartRound
        BY <2>6, StartRoundKeeps
    <2>7. CASE BeginPersist
        BY <2>7, BeginPersistKeeps
    <2>8. CASE EndPersist
        BY <2>8, EndPersistKeeps
    <2>9. CASE Die
        BY <2>9, DieKeeps
    <2>10. CASE Load
        BY <2>10, LoadKeeps
    <2>11. CASE InventoryTick
        BY <2>11, TickKeeps
    <2>12. CASE UNCHANGED inventoryVars
        <3>1. Unnamed'
            BY <2>12 DEF InventoryInv, Unnamed, inventoryVars
        <3> QED BY <2>12, <3>1, StutterKeeps DEF inventoryVars
    <2> QED BY <2>1, <2>2, <2>3, <2>4, <2>5, <2>6, <2>7, <2>8, <2>9, <2>10, <2>11, <2>12 DEF InventoryNext
<1> QED BY <1>1, <1>2, PTL DEF InventorySpec

LEMMA ResolverStep ==
    ASSUME InventoryInv, ResolverTyped, [InventoryNext]_inventoryVars
    PROVE  ResolverTyped'
<1>1. DOMAIN records \subseteq Devices
    BY DEF InventoryInv, Typed, Rows
<1>2. ASSUME NEW f, NEW d \in Devices, NEW v, DOMAIN f \subseteq Devices
      PROVE  DOMAIN Enter(f, d, v) \subseteq Devices
    BY <1>2 DEF Enter
<1>3. ASSUME NEW f, NEW D, DOMAIN f \subseteq Devices
      PROVE  DOMAIN Only(f, D) \subseteq Devices
    BY <1>3 DEF Only
<1>4. ASSUME NEW d \in Devices, NEW named, CacheAnswer(d, named)
      PROVE  DOMAIN answers' \subseteq Devices
    BY <1>2, <1>3, <1>4 DEF CacheAnswer, ResolverTyped
<1>5. ASSUME NEW d \in Devices, NoAnswer(d)
      PROVE  DOMAIN negative' \subseteq Devices
    BY <1>2, <1>5 DEF NoAnswer, ResolverTyped
<1>6. CASE \E d \in Devices : Resolve(d)
    <2>1. PICK d \in Devices : Resolve(d)
        BY <1>6
    <2>2. listed' = listed \ {d}
        BY <2>1 DEF Resolve
    <2>3. \/ UNCHANGED negative
          \/ negative' = Only(negative, Devices \ {d})
          \/ NoAnswer(d)
        BY <2>1 DEF Resolve, AskNetwork
    <2>4. \/ UNCHANGED answers
          \/ \E named \in BOOLEAN : CacheAnswer(d, named)
        BY <2>1 DEF Resolve, AskNetwork
    <2> QED BY <1>3, <1>4, <1>5, <2>2, <2>3, <2>4 DEF ResolverTyped
<1>7. CASE \E d \in Devices : LateAnswer(d)
    BY <1>4, <1>7 DEF LateAnswer, ResolverTyped
<1>8. CASE StartRound
    BY <1>1, <1>8 DEF StartRound, UnresolvedIps, ResolverTyped
<1>9. CASE Die
    BY <1>9, NoneIsRows DEF Die, ResolverTyped
<1>10. CASE UNCHANGED <<listed, negative, answers>>
    BY <1>10 DEF ResolverTyped
<1>11. \/ \E d \in Devices : Resolve(d) \/ LateAnswer(d)
       \/ StartRound \/ Die
       \/ UNCHANGED <<listed, negative, answers>>
    BY DEF InventoryNext, inventoryVars, Update, UpdateArp, UpdateThreat, BeginPersist, EndPersist,
           Load, InventoryTick
<1> QED BY <1>6, <1>7, <1>8, <1>9, <1>10, <1>11

\* inventory/store.py, resolver.py: records, file, caches and the round in
\* hand are of devices and hold what a device's row holds.
THEOREM InventoryTyped == InventorySpec => []InventoryTypeOK
<1>1. InventoryInit => ResolverTyped
    BY NoneIsRows DEF InventoryInit, ResolverTyped
<1>2. InventorySpec => []ResolverTyped
    BY <1>1, ResolverStep, InventorySafe, PTL DEF InventorySpec
<1>3. InventoryInv /\ ResolverTyped => InventoryTypeOK
    BY DEF InventoryInv, Typed, ResolverTyped, InventoryTypeOK
<1> QED BY <1>2, <1>3, InventorySafe, PTL

\* inventory/store.py: what was saved of a device heard of within the last 48
\* hours is known to the running monitor, whatever restarts, crashes in the
\* middle of a save, lookups that fail and prunings have happened since.
THEOREM SavedRemembered == InventorySpec => []SavedIsRemembered
<1>1. InventoryInv => SavedIsRemembered
    BY DEF InventoryInv
<1> QED BY <1>1, InventorySafe, PTL

-----------------------------------------------------------------------------
(* The channels.                                                            *)

\* Types, for the channels and for the reader.
LogTyped ==
    /\ hour \in Nat
    /\ arrivals \in Seq(Happening)
    /\ DOMAIN outbox = Channels /\ \A c \in Channels : outbox[c] \subseteq DOMAIN arrivals
    /\ DOMAIN lastSent = Cooled
    /\ \A c \in Cooled : \A k \in DOMAIN lastSent[c] : lastSent[c][k] \in Nat

ReaderTyped ==
    /\ events \subseteq DOMAIN arrivals
    /\ reader \in [wanted : SUBSET AlertTypes, offset : Nat,
                   owed : SUBSET (DOMAIN arrivals), read : SUBSET (DOMAIN arrivals)]

\* A stamp is that of an alert the channel tried to send.
StampsAreSent ==
    \A c \in Cooled : \A k \in DOMAIN lastSent[c] :
        \E j \in outbox[c] : ChannelKey(c, arrivals[j]) = k /\ arrivals[j].handled = lastSent[c][k]

ChannelsInv == LogTyped /\ StampsAreSent /\ SilenceIsOwed

LEMMA NextAlert ==
    ASSUME LogTyped, NEW a \in NewAlerts, Handle(a)
    PROVE  /\ a \in Happening /\ a.handled = hour
           /\ arrivals' \in Seq(Happening) /\ Len(arrivals') = Len(arrivals) + 1
           /\ Len(arrivals) \in Nat
           /\ DOMAIN arrivals = 1 .. Len(arrivals) /\ DOMAIN arrivals' = 1 .. (Len(arrivals) + 1)
           /\ arrivals'[Len(arrivals) + 1] = a
           /\ \A i \in DOMAIN arrivals : arrivals'[i] = arrivals[i]
<1>1. a \in Happening
    BY DEF NewAlerts, Happening, LogTyped
<1>2. arrivals' = Append(arrivals, a) /\ a.handled = hour
    BY DEF Handle
<1> QED BY <1>1, <1>2 DEF LogTyped

LEMMA StampedTyped ==
    ASSUME LogTyped, NEW c \in Cooled, NEW a, NEW k \in DOMAIN Stamped(c, a)
    PROVE  /\ Stamped(c, a)[k] \in Nat
           /\ \/ k \in DOMAIN lastSent[c] /\ Stamped(c, a)[k] = lastSent[c][k]
              \/ Takes(c, a) /\ k = ChannelKey(c, a) /\ Stamped(c, a)[k] = hour
<1>1. CASE Takes(c, a)
    BY <1>1 DEF Stamped, Stamp, LogTyped
<1>2. CASE ~Takes(c, a)
    BY <1>2 DEF Stamped, LogTyped
<1> QED BY <1>1, <1>2

LEMMA HandleKeeps ==
    ASSUME ChannelsInv, NEW a \in NewAlerts, Handle(a)
    PROVE  ChannelsInv'
<1> DEFINE n == Len(arrivals)
           m == n + 1
<1>1. LogTyped /\ StampsAreSent /\ SilenceIsOwed
    BY DEF ChannelsInv
<1>2. /\ a \in Happening /\ a.handled = hour
      /\ arrivals' \in Seq(Happening) /\ n \in Nat
      /\ DOMAIN arrivals = 1 .. n /\ DOMAIN arrivals' = 1 .. m
      /\ arrivals'[m] = a
      /\ \A i \in DOMAIN arrivals : arrivals'[i] = arrivals[i]
    BY <1>1, NextAlert
<1>3. /\ hour' = hour
      /\ lastSent' = [c \in Cooled |-> Stamped(c, a)]
      /\ outbox' = [c \in Channels |-> IF Takes(c, a) THEN outbox[c] \cup {m} ELSE outbox[c]]
    BY DEF Handle
<1> HIDE DEF n, m
<1>m. m \in Nat /\ m = n + 1
    BY <1>2 DEF m
<1>4. \A c \in Channels : /\ outbox[c] \subseteq outbox'[c] /\ outbox'[c] \subseteq outbox[c] \cup {m}
                          /\ Takes(c, a) => m \in outbox'[c]
    BY <1>3
<1>5. \A c \in Cooled : c \in Channels /\ outbox[c] \subseteq 1 .. n
    BY <1>1, <1>2 DEF LogTyped, Cooled, Channels
<1>6. \A c \in Cooled : \A j \in outbox[c] : j \in outbox'[c] /\ arrivals'[j] = arrivals[j]
    BY <1>2, <1>4, <1>5
<1>7. LogTyped'
    <2>1. \A c \in Channels : outbox'[c] \subseteq DOMAIN arrivals'
        BY <1>1, <1>2, <1>4, <1>m DEF LogTyped
    <2>2. \A c \in Cooled : \A k \in DOMAIN lastSent'[c] : lastSent'[c][k] \in Nat
        BY <1>1, <1>3, StampedTyped
    <2> QED BY <1>1, <1>2, <1>3, <2>1, <2>2 DEF LogTyped
<1>8. StampsAreSent'
    <2> SUFFICES ASSUME NEW c \in Cooled, NEW k \in DOMAIN Stamped(c, a)
                 PROVE  \E j \in outbox'[c] : /\ ChannelKey(c, arrivals'[j]) = k
                                              /\ arrivals'[j].handled = Stamped(c, a)[k]
        BY <1>3 DEF StampsAreSent, ChannelKey
    <2>1. CASE k \in DOMAIN lastSent[c] /\ Stamped(c, a)[k] = lastSent[c][k]
        <3>1. PICK j \in outbox[c] : /\ ChannelKey(c, arrivals[j]) = k
                                     /\ arrivals[j].handled = lastSent[c][k]
            BY <1>1, <2>1 DEF StampsAreSent
        <3> QED BY <1>6, <2>1, <3>1
    <2>2. CASE Takes(c, a) /\ k = ChannelKey(c, a) /\ Stamped(c, a)[k] = hour
        BY <1>2, <1>4, <1>5, <2>2
    <2> QED BY <1>1, <2>1, <2>2, StampedTyped
<1>9. SilenceIsOwed'
    <2> SUFFICES ASSUME NEW c \in Cooled, NEW i \in 1 .. m, Admits(c, arrivals'[i])
                 PROVE  \E j \in outbox'[c] :
                            /\ j <= i /\ ChannelKey(c, arrivals'[j]) = ChannelKey(c, arrivals'[i])
                            /\ j = i \/ arrivals'[i].handled - arrivals'[j].handled < Quiet
        BY <1>2 DEF SilenceIsOwed, Admits, ChannelKey
    <2>1. CASE i = m
        <3>1. CASE Takes(c, a)
            BY <1>4, <1>5, <1>m, <2>1, <3>1
        <3>2. CASE ~Takes(c, a)
            <4>1. ~Rested(c, a)
                BY <1>2, <2>1, <3>2 DEF Takes
            <4>2. /\ ChannelKey(c, a) \in DOMAIN lastSent[c]
                  /\ ~(hour - lastSent[c][ChannelKey(c, a)] >= Quiet)
                BY <4>1 DEF Rested
            <4>3. PICK j \in outbox[c] : /\ ChannelKey(c, arrivals[j]) = ChannelKey(c, a)
                                         /\ arrivals[j].handled = lastSent[c][ChannelKey(c, a)]
                BY <1>1, <4>2 DEF StampsAreSent
            <4>4. hour - lastSent[c][ChannelKey(c, a)] < Quiet
                BY <1>1, <4>2, LogAssumption DEF LogTyped
            <4>5. j \in 1 .. n
                BY <1>5
            <4> QED BY <1>2, <1>6, <1>m, <2>1, <4>3, <4>4, <4>5
        <3> QED BY <3>1, <3>2
    <2>2. CASE i \in 1 .. n
        <3>1. PICK j \in outbox[c] :
                  /\ j <= i /\ ChannelKey(c, arrivals[j]) = ChannelKey(c, arrivals[i])
                  /\ j = i \/ arrivals[i].handled - arrivals[j].handled < Quiet
            BY <1>1, <1>2, <2>2 DEF SilenceIsOwed
        <3> QED BY <1>2, <1>6, <2>2, <3>1
    <2> QED BY <1>2, <1>m, <2>1, <2>2
<1> QED BY <1>7, <1>8, <1>9 DEF ChannelsInv

LEMMA QuietStepKeeps ==
    ASSUME ChannelsInv, UNCHANGED <<outbox, arrivals>>, hour' \in Nat,
           lastSent' \in {lastSent, NothingSent}
    PROVE  ChannelsInv'
<1>1. LogTyped'
    BY DEF ChannelsInv, LogTyped, NothingSent
<1>2. StampsAreSent'
    BY DEF ChannelsInv, StampsAreSent, NothingSent, ChannelKey
<1>3. SilenceIsOwed'
    BY DEF ChannelsInv, SilenceIsOwed, ChannelKey, Admits
<1> QED BY <1>1, <1>2, <1>3 DEF ChannelsInv

LEMMA ChannelsHold == LogSpec => []ChannelsInv
<1>1. LogInit => ChannelsInv
    BY DEF LogInit, ChannelsInv, LogTyped, StampsAreSent, SilenceIsOwed, NothingSent
<1>2. ChannelsInv /\ [LogNext]_logVars => ChannelsInv'
    <2> SUFFICES ASSUME ChannelsInv, [LogNext]_logVars PROVE ChannelsInv'
        OBVIOUS
    <2>1. CASE \E a \in NewAlerts : Handle(a)
        BY <2>1, HandleKeeps
    <2>2. CASE UNCHANGED <<outbox, arrivals>> /\ hour' \in Nat /\ lastSent' \in {lastSent, NothingSent}
        BY <2>2, QuietStepKeeps
    <2>3. hour \in Nat
        BY DEF ChannelsInv, LogTyped
    <2> QED BY <2>1, <2>2, <2>3 DEF LogNext, logVars, ForgetStamps, OpenPage, NextPage, ClearEvents, LogTick
<1> QED BY <1>1, <1>2, PTL DEF LogSpec

\* alerts/ntfy_alert.py, email_alert.py: a channel with a cooldown passes over
\* no alert it admits but one for which it tried to send another of the same
\* key less than the cooldown before, whatever restarts forget.
THEOREM SilenceExplained == LogSpec => []SilenceIsOwed
<1>1. ChannelsInv => SilenceIsOwed
    BY DEF ChannelsInv
<1> QED BY <1>1, ChannelsHold, PTL

-----------------------------------------------------------------------------

\* Alerts are handled in the order made.
MadeInOrder == \A i, j \in DOMAIN arrivals : i <= j => arrivals[i].at <= arrivals[j].at

\* What is owed was asked for.
OwedIsWanted == \A i \in reader.owed : arrivals[i].type \in reader.wanted

ReaderInv == LogTyped /\ ReaderTyped /\ MadeInOrder /\ OwedIsWanted /\ PagingMissesNothing

LEMMA RowsAreFinite ==
    ASSUME LogTyped, ReaderTyped
    PROVE  IsFiniteSet(events)
<1>1. DOMAIN arrivals = 1 .. Len(arrivals) /\ Len(arrivals) \in Nat
    BY DEF LogTyped
<1>2. IsFiniteSet(1 .. Len(arrivals))
    BY <1>1, FS_Interval
<1> QED BY <1>1, <1>2, FS_Subset DEF ReaderTyped

LEMMA RowsAreCounted ==
    ASSUME NEW n \in Nat, NEW S \in SUBSET (1 .. n)
    PROVE  IsFiniteSet(S) /\ Cardinality(S) \in Nat /\ (S # {} => Cardinality(S) > 0)
<1>1. IsFiniteSet(1 .. n)
    BY FS_Interval
<1>2. IsFiniteSet(S)
    BY <1>1, FS_Subset
<1>3. Cardinality(S) \in Nat
    BY <1>2, FS_CardinalityType
<1> QED BY <1>2, <1>3, FS_EmptySet

LEMMA PlacesAreNumbers ==
    ASSUME LogTyped, ReaderTyped, NEW i
    PROVE  Place(i) \in Nat
<1> DEFINE S == {j \in Matching : j >= i}
<1>1. S \subseteq 1 .. Len(arrivals) /\ Len(arrivals) \in Nat
    BY DEF Matching, LogTyped, ReaderTyped
<1>2. Cardinality(S) \in Nat
    BY <1>1, RowsAreCounted
<1> QED BY <1>2 DEF Place

LEMMA OwedAreMatching ==
    ASSUME LogTyped, ReaderTyped, OwedIsWanted, NEW i \in reader.owed \cap events
    PROVE  i \in Matching /\ i \in Nat
BY DEF Matching, OwedIsWanted, ReaderTyped, LogTyped

\* New rows and pruning only move what is left to later places.
LEMMA PlacesGrow ==
    ASSUME ReaderInv, NEW a \in NewAlerts, Handle(a), NEW i \in events \cap events'
    PROVE  Place(i) <= Place(i)'
<1> DEFINE n == Len(arrivals)
<1>1. /\ a \in Happening /\ n \in Nat
      /\ DOMAIN arrivals = 1 .. n /\ DOMAIN arrivals' = 1 .. (n + 1)
      /\ \A j \in DOMAIN arrivals : arrivals'[j] = arrivals[j]
    BY NextAlert DEF ReaderInv
<1>2. /\ events \subseteq 1 .. n /\ hour \in Nat /\ reader' = reader
      /\ \A j \in DOMAIN arrivals : arrivals[j].at \in Nat
    <2>1. \A j \in DOMAIN arrivals : arrivals[j] \in Happening
        BY DEF ReaderInv, LogTyped
    <2> QED BY <1>1, <2>1 DEF ReaderInv, LogTyped, ReaderTyped, Handle, Happening
<1>3. events' = events \/ events' = {j \in events : arrivals[j].at + Keep >= hour}
                                       \cup (IF a.at + Keep >= hour THEN {n + 1} ELSE {})
    BY DEF Handle, InsertEvent
<1>4. \A j \in events : j >= i => j \in events'
    <2> SUFFICES ASSUME NEW j \in events, j >= i, events' # events
                 PROVE  j \in events'
        OBVIOUS
    <2>1. i \in 1 .. n /\ j \in 1 .. n
        BY <1>2
    <2>2. i # n + 1
        BY <1>1, <2>1
    <2>3. arrivals[i].at + Keep >= hour
        BY <1>3, <2>2
    <2>4. arrivals[i].at <= arrivals[j].at
        BY <1>1, <2>1 DEF ReaderInv, MadeInOrder
    <2>5. arrivals[j].at + Keep >= hour
        BY <1>1, <1>2, <2>1, <2>3, <2>4, LogAssumption
    <2> QED BY <1>3, <2>5
<1> DEFINE S == {j \in Matching : j >= i}
           T == {j \in Matching' : j >= i}
<1>5. S \subseteq T
    BY <1>1, <1>2, <1>4 DEF Matching
<1>6. events' \subseteq 1 .. (n + 1)
    <2>1. events \subseteq 1 .. (n + 1) /\ n + 1 \in 1 .. (n + 1)
        BY <1>1, <1>2
    <2> QED BY <1>3, <2>1
<1>7. IsFiniteSet(T)
    <2>1. IsFiniteSet(1 .. (n + 1))
        BY <1>1, FS_Interval
    <2>2. T \subseteq 1 .. (n + 1)
        BY <1>6 DEF Matching
    <2> QED BY <2>1, <2>2, FS_Subset
<1>8. Cardinality(S) <= Cardinality(T)
    BY <1>5, <1>7, FS_Subset
<1> QED BY <1>8 DEF Place

LEMMA HandleServes ==
    ASSUME ReaderInv, NEW a \in NewAlerts, Handle(a), LogTyped'
    PROVE  ReaderInv'
<1> DEFINE n == Len(arrivals)
<1>0. LogTyped /\ ReaderTyped /\ MadeInOrder /\ OwedIsWanted /\ PagingMissesNothing
    BY DEF ReaderInv
<1>1. /\ a \in Happening /\ n \in Nat
      /\ DOMAIN arrivals = 1 .. n /\ DOMAIN arrivals' = 1 .. (n + 1)
      /\ arrivals'[n + 1] = a
      /\ \A j \in DOMAIN arrivals : arrivals'[j] = arrivals[j]
    BY <1>0, NextAlert
<1>2. reader' = reader
    BY DEF Handle
<1>3. events' \subseteq events \cup {n + 1}
    BY DEF Handle, InsertEvent
<1>4. ReaderTyped'
    BY <1>0, <1>1, <1>2, <1>3 DEF ReaderTyped
<1>5. MadeInOrder'
    <2>1. \A i \in 1 .. n : arrivals[i] \in Happening
        BY <1>0, <1>1 DEF LogTyped
    <2>2. \A i \in 1 .. n : arrivals[i].at \in Nat
        BY <2>1 DEF Happening
    <2>3. a.at \in Nat
        BY <1>1 DEF Happening
    <2>4. arrivals # << >> => n > 0 /\ Last(arrivals) = arrivals[n]
        BY <1>0, <1>1 DEF LogTyped, Last
    <2>5. \A i \in 1 .. n : arrivals[i].at <= a.at
        <3> SUFFICES ASSUME NEW i \in 1 .. n PROVE arrivals[i].at <= a.at
            OBVIOUS
        <3>1. arrivals # << >> /\ n \in 1 .. n
            BY <1>0, <1>1 DEF LogTyped
        <3>2. arrivals[n].at <= a.at
            BY <2>4, <3>1 DEF Handle
        <3>3. arrivals[i].at <= arrivals[n].at
            BY <1>0, <1>1, <3>1 DEF MadeInOrder
        <3> QED BY <2>2, <2>3, <3>1, <3>2, <3>3
    <2> SUFFICES ASSUME NEW i \in 1 .. (n + 1), NEW j \in 1 .. (n + 1), i <= j
                 PROVE  arrivals'[i].at <= arrivals'[j].at
        BY <1>1 DEF MadeInOrder
    <2>6. CASE j = n + 1 /\ i = n + 1
        BY <1>1, <2>3, <2>6
    <2>7. CASE j = n + 1 /\ i \in 1 .. n
        BY <1>1, <2>5, <2>7
    <2>8. CASE j \in 1 .. n /\ i \in 1 .. n
        BY <1>0, <1>1, <2>8 DEF MadeInOrder
    <2> QED BY <1>1, <2>6, <2>7, <2>8
<1>6. OwedIsWanted'
    BY <1>0, <1>1, <1>2 DEF OwedIsWanted, ReaderTyped
<1>7. PagingMissesNothing'
    <2> SUFFICES ASSUME NEW i \in reader.owed \cap events', Place(i)' <= reader.offset
                 PROVE  i \in reader.read
        BY <1>2 DEF PagingMissesNothing
    <2>1. i \in 1 .. n
        BY <1>0, <1>1 DEF ReaderTyped
    <2>2. i \in events
        BY <1>1, <1>3, <2>1
    <2>3. Place(i) <= Place(i)'
        BY <2>2, PlacesGrow
    <2>4. Place(i) \in Nat /\ reader.offset \in Nat
        BY <1>0, PlacesAreNumbers DEF ReaderTyped
    <2>5. Place(i)' \in Nat
        <3> DEFINE S == {j \in Matching' : j >= i}
        <3>1. S \subseteq 1 .. (n + 1) /\ n + 1 \in Nat
            BY <1>1, <1>4 DEF Matching, ReaderTyped
        <3>2. Cardinality(S) \in Nat
            BY <3>1, RowsAreCounted
        <3> QED BY <3>2 DEF Place
    <2>6. Place(i) <= reader.offset
        BY <2>3, <2>4, <2>5
    <2> QED BY <1>0, <2>2, <2>6 DEF PagingMissesNothing
<1> QED BY <1>4, <1>5, <1>6, <1>7 DEF ReaderInv

LEMMA OpenPageServes ==
    ASSUME ReaderInv, NEW W \in SUBSET AlertTypes, OpenPage(W), LogTyped'
    PROVE  ReaderInv'
<1>1. /\ reader' = [wanted |-> W, offset |-> 0, read |-> {},
                    owed |-> {i \in events : arrivals[i].type \in W}]
      /\ UNCHANGED <<hour, arrivals, events>>
    BY DEF OpenPage
<1>2. ReaderTyped'
    BY <1>1 DEF ReaderInv, ReaderTyped
<1>3. MadeInOrder' /\ OwedIsWanted'
    BY <1>1 DEF ReaderInv, MadeInOrder, OwedIsWanted
<1>4. PagingMissesNothing'
    <2> SUFFICES ASSUME NEW i \in reader'.owed \cap events' PROVE ~(Place(i)' <= 0)
        BY <1>1 DEF PagingMissesNothing
    <2>1. i \in Matching' /\ i \in Nat
        BY <1>1 DEF ReaderInv, Matching, ReaderTyped, LogTyped
    <2> DEFINE S == {j \in Matching' : j >= i}
    <2>2. i \in S
        BY <2>1
    <2>3. S \subseteq 1 .. Len(arrivals) /\ Len(arrivals) \in Nat
        BY <1>1 DEF Matching, ReaderInv, ReaderTyped, LogTyped
    <2>4. Cardinality(S) > 0 /\ Cardinality(S) \in Nat
        BY <2>2, <2>3, RowsAreCounted
    <2> QED BY <2>4 DEF Place
<1> QED BY <1>2, <1>3, <1>4 DEF ReaderInv

LEMMA NextPageServes ==
    ASSUME ReaderInv, NextPage, LogTyped'
    PROVE  ReaderInv'
<1>0. LogTyped /\ ReaderTyped /\ MadeInOrder /\ OwedIsWanted /\ PagingMissesNothing
    BY DEF ReaderInv
<1>1. /\ reader' = [reader EXCEPT !.offset = @ + PageSize, !.read = @ \cup PageOf(reader.offset)]
      /\ UNCHANGED <<hour, arrivals, events>>
    BY DEF NextPage
<1>2. /\ reader'.offset = reader.offset + PageSize /\ reader.offset \in Nat
      /\ reader'.read = reader.read \cup PageOf(reader.offset)
      /\ reader'.owed = reader.owed /\ reader'.wanted = reader.wanted
    BY <1>0, <1>1 DEF ReaderTyped
<1>3. PageOf(reader.offset) \subseteq events
    BY DEF PageOf, Matching
<1>4. ReaderTyped'
    <2>1. reader.offset + PageSize \in Nat
        BY <1>2, LogAssumption
    <2>2. PageOf(reader.offset) \subseteq DOMAIN arrivals
        BY <1>0, <1>3 DEF ReaderTyped
    <2> HIDE DEF PageOf
    <2> QED BY <1>0, <1>1, <2>1, <2>2 DEF ReaderTyped
<1>5. MadeInOrder' /\ OwedIsWanted'
    BY <1>0, <1>1, <1>2 DEF MadeInOrder, OwedIsWanted
<1>6. PagingMissesNothing'
    <2> SUFFICES ASSUME NEW i \in reader.owed \cap events, Place(i)' <= reader.offset + PageSize
                 PROVE  i \in reader.read \cup PageOf(reader.offset)
        BY <1>1, <1>2 DEF PagingMissesNothing
    <2>1. Place(i)' = Place(i)
        BY <1>1, <1>2 DEF Place, Matching
    <2>2. i \in Matching /\ Place(i) \in Nat
        BY <1>0, OwedAreMatching, PlacesAreNumbers
    <2>3. CASE Place(i) <= reader.offset
        BY <1>0, <2>3 DEF PagingMissesNothing
    <2>4. CASE reader.offset < Place(i)
        BY <2>1, <2>2, <2>4 DEF PageOf
    <2> QED BY <1>2, <2>2, <2>3, <2>4
<1> QED BY <1>4, <1>5, <1>6 DEF ReaderInv

LEMMA ClearServes ==
    ASSUME ReaderInv, ClearEvents, LogTyped'
    PROVE  ReaderInv'
<1>1. events' = {} /\ UNCHANGED <<arrivals, reader>>
    BY DEF ClearEvents
<1> QED BY <1>1 DEF ReaderInv, ReaderTyped, MadeInOrder, OwedIsWanted, PagingMissesNothing

LEMMA UntouchedServes ==
    ASSUME ReaderInv, LogTyped', UNCHANGED <<arrivals, events, reader>>
    PROVE  ReaderInv'
<1>1. ReaderTyped' /\ MadeInOrder' /\ OwedIsWanted'
    BY DEF ReaderInv, ReaderTyped, MadeInOrder, OwedIsWanted
<1>2. PagingMissesNothing'
    BY DEF ReaderInv, PagingMissesNothing, Place, Matching
<1> QED BY <1>1, <1>2 DEF ReaderInv

LEMMA ReaderHolds == LogSpec => []ReaderInv
<1>1. LogInit => ReaderInv
    <2> SUFFICES ASSUME LogInit PROVE ReaderInv
        OBVIOUS
    <2>1. LogTyped
        BY DEF LogInit, LogTyped, NothingSent
    <2>2. ReaderTyped /\ MadeInOrder /\ OwedIsWanted /\ PagingMissesNothing
        BY DEF LogInit, ReaderTyped, MadeInOrder, OwedIsWanted, PagingMissesNothing
    <2> QED BY <2>1, <2>2 DEF ReaderInv
<1>2. ReaderInv /\ LogTyped' /\ [LogNext]_logVars => ReaderInv'
    <2> SUFFICES ASSUME ReaderInv, LogTyped', [LogNext]_logVars PROVE ReaderInv'
        OBVIOUS
    <2>1. CASE \E a \in NewAlerts : Handle(a)
        BY <2>1, HandleServes
    <2>2. CASE \E W \in SUBSET AlertTypes : OpenPage(W)
        BY <2>2, OpenPageServes
    <2>3. CASE NextPage
        BY <2>3, NextPageServes
    <2>4. CASE ClearEvents
        BY <2>4, ClearServes
    <2>5. CASE ForgetStamps \/ LogTick \/ UNCHANGED logVars
        BY <2>5, UntouchedServes DEF ForgetStamps, LogTick, logVars
    <2> QED BY <2>1, <2>2, <2>3, <2>4, <2>5 DEF LogNext
<1>3. ChannelsInv => LogTyped
    BY DEF ChannelsInv
<1> QED BY <1>1, <1>2, <1>3, ChannelsHold, PTL DEF LogSpec

\* What is counted, of finitely many rows.
LEMMA DigestCounts ==
    ASSUME IsFiniteSet(events)
    PROVE  DigestIsHonest
<1> SUFFICES ASSUME NEW t \in AlertTypes \ DigestOmits
             PROVE  /\ Digest[t] <= CountOf(Recent, t)
                    /\ Cardinality(Recent) <= DigestMax => Digest[t] = CountOf(Recent, t)
                    /\ CountOf(Recent, t) - Digest[t] <= Cardinality(Recent \ DigestRows)
    BY DEF DigestIsHonest
<1> DEFINE Read == {i \in DigestRows : arrivals[i].type = t}
           All  == {i \in Recent : arrivals[i].type = t}
           Cut  == Recent \ DigestRows
<1>1. IsFiniteSet(Recent)
    <2>1. Recent \subseteq events
        BY DEF Recent
    <2> QED BY <2>1, FS_Subset
<1>2. DigestRows \subseteq Recent
    BY DEF DigestRows
<1>3. /\ IsFiniteSet(All) /\ IsFiniteSet(Cut) /\ IsFiniteSet(Read)
      /\ Cardinality(Read) <= Cardinality(All)
    <2>1. All \subseteq Recent /\ Cut \subseteq Recent /\ Read \subseteq All
        BY <1>2
    <2>2. IsFiniteSet(All) /\ IsFiniteSet(Cut)
        BY <1>1, <2>1, FS_Subset
    <2> QED BY <2>1, <2>2, FS_Subset
<1>4. /\ Cardinality(Read) \in Nat /\ Cardinality(All) \in Nat /\ Cardinality(Cut) \in Nat
    BY <1>3, FS_CardinalityType
<1>5. Digest[t] = Cardinality(Read) /\ CountOf(Recent, t) = Cardinality(All)
    BY DEF Digest, CountOf
<1>6. ASSUME Cardinality(Recent) <= DigestMax
      PROVE  Recent = DigestRows
    <2> SUFFICES ASSUME NEW i \in Recent
                 PROVE  Cardinality({j \in Recent : j >= i}) <= DigestMax
        BY <1>2 DEF DigestRows
    <2> DEFINE S == {j \in Recent : j >= i}
    <2>1. S \subseteq Recent
        OBVIOUS
    <2>2. IsFiniteSet(S) /\ Cardinality(S) <= Cardinality(Recent)
        BY <1>1, <2>1, FS_Subset
    <2>3. Cardinality(S) \in Nat /\ Cardinality(Recent) \in Nat
        BY <1>1, <2>2, FS_CardinalityType
    <2> QED BY <1>6, <2>2, <2>3, LogAssumption
<1>7. Cardinality(All) - Cardinality(Read) <= Cardinality(Cut)
    <2> DEFINE Lost == All \cap Cut
    <2>1. All = Read \cup Lost /\ Read \cap Lost = {}
        BY <1>2
    <2>2. IsFiniteSet(Lost) /\ Cardinality(Lost) <= Cardinality(Cut)
        BY <1>3, FS_Intersection
    <2>3. Cardinality(Lost) \in Nat
        BY <2>2, FS_CardinalityType
    <2>4. Cardinality(Read \cup Lost) = Cardinality(Read) + Cardinality(Lost) - Cardinality(Read \cap Lost)
        BY <1>3, <2>2, FS_Union
    <2>5. Cardinality(Read \cap Lost) = 0
        BY <2>1, FS_EmptySet
    <2> HIDE DEF Read, All, Cut, Lost
    <2>6. Cardinality(All) = Cardinality(Read) + Cardinality(Lost)
        BY <1>4, <2>1, <2>3, <2>4, <2>5
    <2> QED BY <1>4, <2>2, <2>3, <2>6
<1>8. Cardinality(Recent) <= DigestMax => Digest[t] = CountOf(Recent, t)
    BY <1>5, <1>6
<1> HIDE DEF Read, All, Cut
<1> QED BY <1>3, <1>4, <1>5, <1>7, <1>8 DEF Cut

\* alerts/event_store.py: a client that pages through the events misses none
\* that stays while rows arrive, are pruned and are cleared; the digest's counts
\* fall short by no more than what its limit cuts off.
THEOREM ReadersServed == LogSpec => []ReadersAreServed
<1>1. ReaderInv => ReadersAreServed
    BY RowsAreFinite, DigestCounts DEF ReaderInv, ReadersAreServed
<1> QED BY <1>1, ReaderHolds, PTL

\* alerts/event_store.py: rows, stamps and pages are of alerts that arrived.
THEOREM LogTypesHold == LogSpec => []LogTypeOK
<1>1. ChannelsInv /\ ReaderInv => LogTypeOK
    BY DEF ChannelsInv, ReaderInv, LogTyped, ReaderTyped, LogTypeOK
<1> QED BY <1>1, ChannelsHold, ReaderHolds, PTL

-----------------------------------------------------------------------------
(* The deep-inspect service.                                                *)

Info == [id : Id, status : {"running", "completed", "lost"},
         result : {"none", "success", "failure"}, tshark : {"runs", "success", "failure"}]

Scan == [id : Id, status : {"running", "completed"}, result : {"none", "stored"}]

WebTyped ==
    /\ second \in 0 .. WebHorizon
    /\ restarts \subseteq 0 .. second
    /\ infos \in Seq(Info) /\ scans \in Seq(Scan)
    /\ \A i \in DOMAIN captures : i \in Id /\ captures[i] \in Nat

\* No capture is from the future, and what the service has forgotten was there
\* when it was started again.
LostBefore ==
    \A n \in DOMAIN infos :
        /\ infos[n].id[2] <= second
        /\ infos[n].status = "lost" => \E r \in restarts : infos[n].id[2] <= r

WebInv == WebTyped /\ LostBefore /\ CapturesApart

\* What the invariant says of the captures of one service, and of its scans.
CapturePart == WebTyped /\ LostBefore /\ FilesAreApart /\ CapturesAreListed /\ FilesHaveCaptures

LEMMA WebParts == WebInv <=> CapturePart /\ LastScanIsShown
BY DEF WebInv, CapturePart, CapturesApart

LEMMA IdsOf ==
    ASSUME NEW i \in Id
    PROVE  i[2] \in Nat /\ i[2] \in 0 .. WebHorizon
BY WebAssumption DEF Id

LEMMA InfosTyped ==
    ASSUME WebTyped
    PROVE  /\ Len(infos) \in Nat /\ DOMAIN infos = 1 .. Len(infos)
           /\ \A n \in DOMAIN infos : infos[n] \in Info /\ infos[n].id \in Id /\ infos[n].id[2] \in Nat
           /\ Len(scans) \in Nat /\ DOMAIN scans = 1 .. Len(scans)
           /\ \A n \in DOMAIN scans : scans[n] \in Scan
           /\ second \in Nat
<1>1. \A n \in DOMAIN infos : infos[n] \in Info
    BY DEF WebTyped
<1>2. \A n \in DOMAIN infos : infos[n].id \in Id
    BY <1>1 DEF Info
<1> QED BY <1>1, <1>2, IdsOf, WebAssumption DEF WebTyped

\* An id that is not in the table was forgotten, in this very second.
LEMMA StartKeepsApart ==
    ASSUME WebInv, NEW t \in Inspected, StartDeepInspect(t)
    PROVE  WebInv'
<1> DEFINE new == <<t, second>>
           k == Len(infos) + 1
           info == NewInfo(new)
<1>0. WebTyped /\ LostBefore /\ FilesAreApart /\ CapturesAreListed /\ FilesHaveCaptures /\ LastScanIsShown
    BY WebParts DEF CapturePart
<1>1. new \in Id /\ new[2] = second /\ new \notin DOMAIN active_captures /\ k \in Nat
    BY <1>0, InfosTyped DEF WebTyped, Id, StartDeepInspect
<1>2. /\ infos' = Append(infos, info)
      /\ active_captures' = Extend(active_captures, new, k)
      /\ UNCHANGED <<second, restarts, captures, scans, scans_in_progress>>
    BY DEF StartDeepInspect
<1>3. /\ info.id = new /\ info.status = "running" /\ info.result = "none" /\ info.tshark = "runs"
      /\ info \in Info
    BY <1>1 DEF NewInfo, Info
<1> HIDE DEF new, info
<1>4. /\ DOMAIN infos' = DOMAIN infos \cup {k} /\ infos'[k] = info /\ infos' \in Seq(Info)
      /\ k \notin DOMAIN infos /\ \A n \in DOMAIN infos : infos'[n] = infos[n] /\ n < k
    BY <1>0, <1>2, <1>3, InfosTyped DEF WebTyped
<1>5. /\ DOMAIN active_captures' = DOMAIN active_captures \cup {new}
      /\ active_captures'[new] = k
      /\ \A i \in DOMAIN active_captures : active_captures'[i] = active_captures[i]
    BY <1>1, <1>2 DEF Extend
<1> HIDE DEF k
<1>6. WebTyped' /\ LostBefore'
    BY <1>0, <1>1, <1>2, <1>3, <1>4, InfosTyped DEF WebTyped, LostBefore
<1>7. ASSUME NEW m \in DOMAIN infos, infos[m].id = new
      PROVE  infos[m].status = "lost" /\ second \in restarts
    <2>1. infos[m].status = "lost"
        BY <1>0, <1>1, <1>7 DEF CapturesAreListed
    <2>2. PICK r \in restarts : second <= r
        BY <1>0, <1>1, <1>7, <2>1 DEF LostBefore
    <2>3. r = second
        BY <1>0, <2>2, InfosTyped DEF WebTyped
    <2> QED BY <2>1, <2>2, <2>3
<1>8. FilesAreApart'
    <2> SUFFICES ASSUME NEW m \in DOMAIN infos', NEW n \in DOMAIN infos', m < n,
                        infos'[m].id = infos'[n].id
                 PROVE  infos'[m].status = "lost" /\ infos'[m].id[2] \in restarts
        BY <1>2 DEF FilesAreApart
    <2>1. CASE m \in DOMAIN infos /\ n \in DOMAIN infos
        BY <1>0, <1>4, <2>1 DEF FilesAreApart
    <2>2. CASE m \in DOMAIN infos /\ n = k
        BY <1>1, <1>3, <1>4, <1>7, <2>2
    <2>3. m # k
        <3> SUFFICES ASSUME m = k PROVE FALSE
            OBVIOUS
        <3>1. n = k \/ n < k
            BY <1>4
        <3> QED BY <1>1, <3>1, <1>4, InfosTyped, <1>0 DEF k
    <2> QED BY <1>4, <2>1, <2>2, <2>3
<1>9. CapturesAreListed'
    BY <1>0, <1>1, <1>3, <1>4, <1>5 DEF CapturesAreListed
<1>10. FilesHaveCaptures'
    <2>1. captures' = captures /\ second' = second
        BY <1>2
    <2> QED BY <1>0, <1>4, <2>1 DEF FilesHaveCaptures
<1>11. LastScanIsShown'
    BY <1>0, <1>2 DEF LastScanIsShown
<1> QED BY <1>6, <1>8, <1>9, <1>10, <1>11 DEF WebInv, CapturesApart

\* One capture goes on, under its id; a forgotten one stays forgotten.
LEMMA InfoStep ==
    ASSUME WebInv, NEW n \in DOMAIN infos, NEW r \in Info, infos' = [infos EXCEPT ![n] = r],
           r.id = infos[n].id, (r.status = "lost") <=> (infos[n].status = "lost"),
           infos[n].status # "lost" =>
               /\ r.tshark = "runs" => r.status = "running"
               /\ r.result # "none" => r.status = "completed" /\ r.result = r.tshark,
           UNCHANGED <<second, restarts, active_captures, captures, scans, scans_in_progress>>
    PROVE  WebInv'
<1>0. WebTyped /\ LostBefore /\ FilesAreApart /\ CapturesAreListed /\ FilesHaveCaptures /\ LastScanIsShown
    BY WebParts DEF CapturePart
<1>1. /\ DOMAIN infos' = DOMAIN infos /\ infos' \in Seq(Info) /\ infos'[n] = r
      /\ \A m \in DOMAIN infos : m # n => infos'[m] = infos[m]
    BY <1>0 DEF WebTyped
<1>2. \A m \in DOMAIN infos : /\ infos'[m].id = infos[m].id
                              /\ (infos'[m].status = "lost") <=> (infos[m].status = "lost")
    BY <1>1
<1>3. WebTyped'
    BY <1>0, <1>1 DEF WebTyped
<1>4. LostBefore'
    BY <1>0, <1>1, <1>2 DEF LostBefore
<1>5. FilesAreApart'
    BY <1>0, <1>1, <1>2 DEF FilesAreApart
<1>6. CapturesAreListed'
    BY <1>0, <1>1, <1>2 DEF CapturesAreListed
<1>7. FilesHaveCaptures'
    BY <1>0, <1>1, <1>2 DEF FilesHaveCaptures
<1>8. LastScanIsShown'
    BY <1>0 DEF LastScanIsShown
<1> QED BY <1>3, <1>4, <1>5, <1>6, <1>7, <1>8 DEF WebInv, CapturesApart

LEMMA ThreadKeepsApart ==
    ASSUME WebInv, NEW n \in DOMAIN infos, TsharkEnds(n) \/ CaptureCompletes(n) \/ CaptureResult(n)
    PROVE  WebInv'
<1>1. WebTyped /\ CapturesAreListed /\ infos[n] \in Info /\ infos \in Seq(Info)
    BY InfosTyped, WebParts DEF CapturePart, WebTyped
<1>2. CASE TsharkEnds(n)
    <2>1. PICK outcome \in {"success", "failure"} : infos' = [infos EXCEPT ![n].tshark = outcome]
        BY <1>2 DEF TsharkEnds
    <2> DEFINE r == [infos[n] EXCEPT !.tshark = outcome]
    <2>2. infos' = [infos EXCEPT ![n] = r]
        BY <1>1, <2>1
    <2>3. /\ r \in Info /\ r.id = infos[n].id /\ r.status = infos[n].status
          /\ r.result = infos[n].result /\ r.tshark = outcome
        BY <1>1 DEF Info
    <2> HIDE DEF r
    <2>4. infos[n].status # "lost" => infos[n].result = "none"
        BY <1>1, <1>2 DEF TsharkEnds, CapturesAreListed
    <2>5. UNCHANGED <<second, restarts, active_captures, captures, scans, scans_in_progress>>
        BY <1>2 DEF TsharkEnds
    <2> QED BY <2>2, <2>3, <2>4, <2>5, InfoStep
<1>3. CASE CaptureCompletes(n)
    <2> DEFINE r == [infos[n] EXCEPT !.status = "completed"]
    <2>1. infos' = [infos EXCEPT ![n] = r]
        BY <1>1, <1>3 DEF CaptureCompletes
    <2>2. /\ r \in Info /\ r.id = infos[n].id /\ r.status = "completed"
          /\ r.result = infos[n].result /\ r.tshark = infos[n].tshark
        BY <1>1 DEF Info
    <2> HIDE DEF r
    <2>3. infos[n].result = "none" /\ infos[n].tshark # "runs" /\ infos[n].status = "running"
        BY <1>1, <1>3 DEF CaptureCompletes, CapturesAreListed
    <2>4. UNCHANGED <<second, restarts, active_captures, captures, scans, scans_in_progress>>
        BY <1>3 DEF CaptureCompletes
    <2> QED BY <2>1, <2>2, <2>3, <2>4, InfoStep
<1>4. CASE CaptureResult(n)
    <2> DEFINE r == [infos[n] EXCEPT !.result = infos[n].tshark]
    <2>1. infos' = [infos EXCEPT ![n] = r]
        BY <1>1, <1>4 DEF CaptureResult
    <2>2. infos[n].tshark \in {"success", "failure"} /\ infos[n].status = "completed"
        BY <1>1, <1>4 DEF CaptureResult, CapturesAreListed, Info
    <2>3. /\ r \in Info /\ r.id = infos[n].id /\ r.status = "completed"
          /\ r.result = infos[n].tshark /\ r.tshark = infos[n].tshark
        BY <1>1, <2>2 DEF Info
    <2> HIDE DEF r
    <2> QED BY <1>4, <2>1, <2>2, <2>3, InfoStep DEF CaptureResult
<1> QED BY <1>2, <1>3, <1>4

LEMMA WriteKeepsApart ==
    ASSUME WebInv, NEW n \in DOMAIN infos, TsharkWrites(n)
    PROVE  WebInv'
<1>0. WebTyped /\ LostBefore /\ FilesAreApart /\ CapturesAreListed /\ FilesHaveCaptures /\ LastScanIsShown
    BY WebParts DEF CapturePart
<1>1. /\ captures' = Extend(captures, infos[n].id, second)
      /\ UNCHANGED <<second, restarts, infos, active_captures, scans, scans_in_progress>>
    BY DEF TsharkWrites
<1>2. infos[n].id \in Id /\ infos[n].id[2] <= second /\ second \in Nat
    BY <1>0, InfosTyped DEF LostBefore
<1>3. /\ DOMAIN captures' = DOMAIN captures \cup {infos[n].id}
      /\ \A i \in DOMAIN captures' : captures'[i] = IF i = infos[n].id THEN second ELSE captures[i]
    BY <1>1 DEF Extend
<1>4. WebTyped'
    BY <1>0, <1>1, <1>2, <1>3 DEF WebTyped
<1>5. FilesHaveCaptures'
    BY <1>0, <1>1, <1>2, <1>3 DEF FilesHaveCaptures
<1>6. LostBefore' /\ FilesAreApart' /\ CapturesAreListed' /\ LastScanIsShown'
    BY <1>0, <1>1 DEF LostBefore, FilesAreApart, CapturesAreListed, LastScanIsShown
<1> QED BY <1>4, <1>5, <1>6 DEF WebInv, CapturesApart

\* What the scans do leaves the captures.
LEMMA ScansApart ==
    ASSUME CapturePart, UNCHANGED <<second, restarts, infos, active_captures, captures>>,
           scans' \in Seq(Scan), LastScanIsShown'
    PROVE  WebInv'
<1>1. CapturePart'
    BY DEF CapturePart, WebTyped, LostBefore, FilesAreApart, CapturesAreListed, FilesHaveCaptures
<1> QED BY <1>1 DEF CapturePart, WebInv, CapturesApart

LEMMA StartScanKeepsApart ==
    ASSUME WebInv, NEW t \in Inspected, StartNmapScan(t)
    PROVE  WebInv'
<1> DEFINE new == <<t, second>>
           k == Len(scans) + 1
           scan == [id |-> new, status |-> "running", result |-> "none"]
<1>0. CapturePart /\ WebTyped /\ LastScanIsShown
    BY WebParts DEF CapturePart
<1>1. /\ scans' = Append(scans, scan) /\ scans_in_progress' = Extend(scans_in_progress, new, k)
      /\ UNCHANGED <<second, restarts, infos, active_captures, captures>>
    BY DEF StartNmapScan
<1>2. scan \in Scan /\ scan.id = new /\ scan.result = "none" /\ k \in Nat
    BY <1>0, InfosTyped DEF WebTyped, Id, Scan
<1>3. scans \in Seq(Scan) /\ Len(scans) \in Nat /\ DOMAIN scans = 1 .. Len(scans)
    BY <1>0, InfosTyped DEF WebTyped
<1> HIDE DEF scan, new
<1>4. /\ DOMAIN scans' = DOMAIN scans \cup {k} /\ scans'[k] = scan /\ scans' \in Seq(Scan)
      /\ k \notin DOMAIN scans /\ \A n \in DOMAIN scans : scans'[n] = scans[n] /\ k >= n
      /\ k >= k
    BY <1>1, <1>2, <1>3
<1>5. /\ DOMAIN scans_in_progress' = DOMAIN scans_in_progress \cup {new}
      /\ scans_in_progress'[new] = k
      /\ \A i \in DOMAIN scans_in_progress : i # new => scans_in_progress'[i] = scans_in_progress[i]
    BY <1>1 DEF Extend
<1> HIDE DEF k
<1>6. LastScanIsShown'
    <2> SUFFICES ASSUME NEW n \in DOMAIN scans'
                 PROVE  /\ scans'[n].id \in DOMAIN scans_in_progress'
                        /\ LET shown == scans_in_progress'[scans'[n].id]
                           IN  shown \in DOMAIN scans' /\ shown >= n /\ scans'[shown].id = scans'[n].id
                        /\ scans'[n].result # "none" => scans'[n].status = "completed"
        BY DEF LastScanIsShown
    <2>1. CASE n = k
        BY <1>2, <1>4, <1>5, <2>1
    <2>2. CASE n \in DOMAIN scans /\ scans[n].id = new
        BY <1>0, <1>2, <1>4, <1>5, <2>2 DEF LastScanIsShown
    <2>3. CASE n \in DOMAIN scans /\ scans[n].id # new
        BY <1>0, <1>4, <1>5, <2>3 DEF LastScanIsShown
    <2> QED BY <1>4, <2>1, <2>2, <2>3
<1> QED BY <1>0, <1>1, <1>4, <1>6, ScansApart

LEMMA ScanStepKeepsApart ==
    ASSUME WebInv, NEW n \in DOMAIN scans, ScanCompletes(n) \/ ScanResult(n)
    PROVE  WebInv'
<1>0. CapturePart /\ LastScanIsShown /\ scans \in Seq(Scan) /\ scans[n] \in Scan
    BY WebParts, InfosTyped DEF CapturePart, WebTyped
<1>1. UNCHANGED <<second, restarts, infos, active_captures, captures, scans_in_progress>>
    BY DEF ScanCompletes, ScanResult
<1>2. PICK r \in Scan : /\ scans' = [scans EXCEPT ![n] = r] /\ r.id = scans[n].id
                        /\ r.result # "none" => r.status = "completed"
    <2>1. CASE ScanCompletes(n)
        <3> DEFINE r == [scans[n] EXCEPT !.status = "completed"]
        <3>1. scans' = [scans EXCEPT ![n] = r]
            BY <1>0, <2>1 DEF ScanCompletes
        <3>2. r \in Scan /\ r.id = scans[n].id /\ r.status = "completed"
            BY <1>0 DEF Scan
        <3> QED BY <3>1, <3>2
    <2>2. CASE ScanResult(n)
        <3> DEFINE r == [scans[n] EXCEPT !.result = "stored"]
        <3>1. scans' = [scans EXCEPT ![n] = r]
            BY <1>0, <2>2 DEF ScanResult
        <3>2. r \in Scan /\ r.id = scans[n].id /\ r.status = "completed"
            BY <1>0, <2>2 DEF Scan, ScanResult
        <3> QED BY <3>1, <3>2
    <2> QED BY <2>1, <2>2
<1>3. /\ DOMAIN scans' = DOMAIN scans /\ scans' \in Seq(Scan) /\ scans'[n] = r
      /\ \A m \in DOMAIN scans : m # n => scans'[m] = scans[m]
    BY <1>0, <1>2
<1>4. \A m \in DOMAIN scans : scans'[m].id = scans[m].id
    BY <1>2, <1>3
<1>5. LastScanIsShown'
    <2> SUFFICES ASSUME NEW m \in DOMAIN scans'
                 PROVE  /\ scans'[m].id \in DOMAIN scans_in_progress'
                        /\ LET shown == scans_in_progress'[scans'[m].id]
                           IN  shown \in DOMAIN scans' /\ shown >= m /\ scans'[shown].id = scans'[m].id
                        /\ scans'[m].result # "none" => scans'[m].status = "completed"
        BY DEF LastScanIsShown
    <2>1. m \in DOMAIN scans /\ scans'[m].id = scans[m].id /\ scans_in_progress' = scans_in_progress
        BY <1>1, <1>3, <1>4
    <2>2. LET shown == scans_in_progress[scans[m].id]
          IN  /\ scans[m].id \in DOMAIN scans_in_progress
              /\ shown \in DOMAIN scans /\ shown >= m /\ scans[shown].id = scans[m].id
        BY <1>0, <2>1 DEF LastScanIsShown
    <2>3. scans'[m].result # "none" => scans'[m].status = "completed"
        BY <1>0, <1>2, <1>3, <2>1 DEF LastScanIsShown
    <2> QED BY <1>3, <1>4, <2>1, <2>2, <2>3
<1> QED BY <1>0, <1>1, <1>3, <1>5, ScansApart

\* All is forgotten at once.
LEMMA RestartKeepsApart ==
    ASSUME WebInv, WebRestart
    PROVE  WebInv'
<1>0. WebTyped /\ LostBefore /\ FilesAreApart /\ FilesHaveCaptures
    BY WebParts DEF CapturePart
<1>1. PICK stopped \in SUBSET DOMAIN infos :
          infos' = [n \in DOMAIN infos |->
                      [infos[n] EXCEPT !.status = "lost",
                                       !.tshark = IF n \in stopped /\ @ = "runs" THEN "failure" ELSE @]]
    BY DEF WebRestart
<1>2. /\ restarts' = restarts \cup {second} /\ second' = second
      /\ captures' = [i \in Kept |-> captures[i]] /\ Kept \subseteq DOMAIN captures
      /\ scans' = << >>
    BY DEF WebRestart, Kept
<1>3. /\ DOMAIN infos' = DOMAIN infos
      /\ \A n \in DOMAIN infos : infos'[n] \in Info /\ infos'[n].id = infos[n].id /\ infos'[n].status = "lost"
    BY <1>0, <1>1, InfosTyped DEF Info
<1>4. infos' \in Seq(Info) /\ scans' \in Seq(Scan)
    <2>1. Len(infos) \in Nat /\ DOMAIN infos' = 1 .. Len(infos)
        BY <1>0, <1>3, InfosTyped
    <2>2. infos' \in [1 .. Len(infos) -> Info]
        BY <1>1, <1>3, <2>1
    <2> QED BY <1>2, <2>1, <2>2
<1>5. second \in Nat /\ \A n \in DOMAIN infos : infos[n].id[2] <= second
    BY <1>0, InfosTyped DEF LostBefore
<1>6. WebTyped'
    <2>1. restarts' \subseteq 0 .. second' /\ second' \in 0 .. WebHorizon
        BY <1>0, <1>2, <1>5 DEF WebTyped
    <2>2. \A i \in DOMAIN captures' : i \in DOMAIN captures /\ captures'[i] = captures[i]
        BY <1>2
    <2> QED BY <1>0, <1>4, <2>1, <2>2 DEF WebTyped
<1>7. LostBefore'
    BY <1>2, <1>3, <1>5 DEF LostBefore
<1>8. FilesAreApart'
    BY <1>0, <1>2, <1>3 DEF FilesAreApart
<1>9. CapturesAreListed'
    BY <1>3 DEF CapturesAreListed
<1>10. FilesHaveCaptures'
    BY <1>0, <1>2, <1>3 DEF FilesHaveCaptures
<1>11. LastScanIsShown'
    BY <1>2 DEF LastScanIsShown
<1> QED BY <1>6, <1>7, <1>8, <1>9, <1>10, <1>11 DEF WebInv, CapturesApart

LEMMA CapturesHold == WebSpec => []WebInv
<1>1. WebInit => WebInv
    <2> SUFFICES ASSUME WebInit PROVE WebInv
        OBVIOUS
    <2>1. DOMAIN infos = {} /\ DOMAIN scans = {} /\ DOMAIN captures = {}
        BY DEF WebInit, Nothing
    <2>2. WebTyped
        BY <2>1, WebAssumption DEF WebInit, WebTyped
    <2> QED BY <2>1, <2>2 DEF WebInv, LostBefore, CapturesApart, FilesAreApart, CapturesAreListed,
                              FilesHaveCaptures, LastScanIsShown
<1>2. WebInv /\ [WebNext]_webVars => WebInv'
    <2> SUFFICES ASSUME WebInv, [WebNext]_webVars PROVE WebInv'
        OBVIOUS
    <2>1. CASE \E t \in Inspected : StartDeepInspect(t) \/ StartNmapScan(t)
        BY <2>1, StartKeepsApart, StartScanKeepsApart
    <2>2. CASE \E n \in DOMAIN infos : TsharkWrites(n) \/ TsharkEnds(n) \/ CaptureCompletes(n) \/ CaptureResult(n)
        BY <2>2, WriteKeepsApart, ThreadKeepsApart
    <2>3. CASE \E n \in DOMAIN scans : ScanCompletes(n) \/ ScanResult(n)
        BY <2>3, ScanStepKeepsApart
    <2>4. CASE WebRestart
        BY <2>4, RestartKeepsApart
    <2>5. CASE /\ UNCHANGED <<restarts, infos, active_captures, captures, scans, scans_in_progress>>
               /\ second' \in 0 .. WebHorizon /\ second' >= second
        <3>0. WebTyped /\ LostBefore /\ CapturesApart
            BY DEF WebInv
        <3>1. WebTyped'
            BY <2>5, <3>0, InfosTyped DEF WebTyped
        <3>2. LostBefore'
            BY <2>5, <3>0, InfosTyped DEF LostBefore
        <3>3. FilesHaveCaptures'
            <4>1. \A i \in DOMAIN captures : captures[i] \in Nat /\ second \in Nat /\ second' \in Nat
                BY <2>5, <3>0, InfosTyped DEF WebTyped
            <4> QED BY <2>5, <3>0, <4>1 DEF CapturesApart, FilesHaveCaptures
        <3>4. FilesAreApart' /\ CapturesAreListed' /\ LastScanIsShown'
            BY <2>5, <3>0 DEF CapturesApart, FilesAreApart, CapturesAreListed, LastScanIsShown
        <3> QED BY <3>1, <3>2, <3>3, <3>4 DEF WebInv, CapturesApart
    <2>6. second \in 0 .. WebHorizon
        BY DEF WebInv, WebTyped
    <2>7. SecondPasses => second' \in 0 .. WebHorizon /\ second' >= second
        BY <2>6, WebAssumption DEF SecondPasses
    <2>8. UNCHANGED webVars => second' \in 0 .. WebHorizon /\ second' >= second
        BY <2>6, WebAssumption DEF webVars
    <2> QED BY <2>1, <2>2, <2>3, <2>4, <2>5, <2>7, <2>8 DEF WebNext, webVars, SecondPasses
<1> QED BY <1>1, <1>2, PTL DEF WebSpec

\* deep_inspect_web.py: two captures share an id and a file only across a restart
\* within their second; what the service has not forgotten is found by its id,
\* runs as long as its tshark and ends with its own outcome, and a scan is hidden
\* only by a later one of the same target and second; for any requests, restarts
\* and outcomes.
THEOREM CapturesStayApart == WebSpec => []CapturesApart
<1>1. WebInv => CapturesApart
    BY DEF WebInv
<1> QED BY <1>1, CapturesHold, PTL


-----------------------------------------------------------------------------
(* The cases.                                                               *)
Ids == nextCase \in Nat /\ DOMAIN cases \subseteq 1 .. nextCase

\* Steps that write into rows neither add nor remove any.
LEMMA CorrelateKeeps ==
    ASSUME NEW i, Correlate(i)
    PROVE  DecisionsStay /\ DOMAIN cases' = DOMAIN cases
BY DEF Correlate, DecisionsStay

LEMMA SameRows ==
    ASSUME DOMAIN cases' = DOMAIN cases
    PROVE  RowsLive
BY DEF RowsLive

\* A case is opened above the last id, and only what is too old goes.
LEMMA OpenCaseKeeps ==
    ASSUME Ids, NEW a, OpenCase(a), nextCase' = nextCase + 1,
           \A i \in DOMAIN cases : cases[i].created \in Nat, time \in Nat
    PROVE  DecisionsStay /\ RowsLive
<1> DEFINE grown == Put(cases, nextCase + 1, NewCase(a))
           kept  == {i \in DOMAIN grown : grown[i].created + CaseLife >= time}
<1>1. cases' = [i \in kept |-> grown[i]]
    BY DEF OpenCase
<1>2. DOMAIN grown = DOMAIN cases \cup {nextCase + 1}
    BY DEF Put
<1>3. nextCase + 1 \notin DOMAIN cases
    BY DEF Ids
<1>4. \A i \in DOMAIN cases : grown[i] = cases[i]
    BY <1>3 DEF Put
<1>5. kept \subseteq DOMAIN grown
    OBVIOUS
<1>n. grown[nextCase + 1].created = time
    BY DEF Put, NewCase
<1>k. \A i \in DOMAIN grown \ kept : ~(grown[i].created + CaseLife >= time)
    OBVIOUS
<1> HIDE DEF grown, kept
<1>6. DecisionsStay
    BY <1>1, <1>4 DEF DecisionsStay
<1>7. \A i \in DOMAIN cases \ DOMAIN cases' : cases[i].created + CaseLife < time
    BY <1>1, <1>2, <1>4, <1>k, CaseAssumption
<1>8. \A i \in DOMAIN cases' \ DOMAIN cases :
          i = nextCase + 1 /\ nextCase' = i /\ cases'[i].created = time
    BY <1>1, <1>2, <1>5, <1>n
<1> QED BY <1>6, <1>7, <1>8 DEF RowsLive

\* What is known of every reachable state (CasesSafe).
Timed == time \in Nat /\ \A i \in DOMAIN cases : cases[i].created \in Nat

LEMMA SendKeeps ==
    ASSUME Ids, Timed, NEW a \in Threats, SendForensic(a)
    PROVE  DecisionsStay /\ RowsLive
<1>1. CASE (\E i : Correlate(i)) /\ UNCHANGED nextCase
    BY <1>1, CorrelateKeeps, SameRows
<1>2. CASE OpenCase(a) /\ nextCase' = nextCase + 1
    BY <1>2, OpenCaseKeeps DEF Timed
<1> QED BY <1>1, <1>2 DEF SendForensic

\* The one UPDATE of a collection writes the evidence only, into a row that is there.
LEMMA CollectionKeeps ==
    ASSUME Ids, NEW k \in DOMAIN tasks, EnrichAndStore(k)
    PROVE  DecisionsStay /\ RowsLive
<1>1. UNCHANGED nextCase
    BY DEF EnrichAndStore
<1>2. CASE UNCHANGED cases
    BY <1>1, <1>2, SameRows DEF DecisionsStay
<1>3. CASE \E o \in Opinions(tasks[k].target) : UpdateArtifacts(tasks[k].case, tasks[k].pcap, o)
    <2>1. PICK o : UpdateArtifacts(tasks[k].case, tasks[k].pcap, o)
        BY <1>3
    <2>2. DOMAIN cases' = DOMAIN cases /\ DecisionsStay
        BY <2>1 DEF UpdateArtifacts, DecisionsStay
    <2> QED BY <1>1, <2>2, SameRows
<1> QED BY <1>2, <1>3 DEF EnrichAndStore

LEMMA TriageKeeps ==
    ASSUME Ids, Triage
    PROVE  RowsLive
<1>1. DOMAIN cases' = DOMAIN cases /\ UNCHANGED nextCase
    BY DEF Triage, SetIncidentStatus, SetIncidentPriority, SetIncidentAssignee
<1> QED BY <1>1, SameRows

\* Any step keeps every decision unless it is the operator's, and the rows alive.
LEMMA CaseStep ==
    ASSUME Ids, Timed, [CaseNext]_caseVars
    PROVE  (DecisionsStay \/ Triage) /\ RowsLive
<1>1. CASE \E a \in Threats : SendForensic(a)
    BY <1>1, SendKeeps
<1>2. CASE \E k \in DOMAIN tasks : EnrichAndStore(k)
    BY <1>2, CollectionKeeps
<1>3. CASE Triage
    BY <1>3, TriageKeeps
<1>4. CASE UNCHANGED <<cases, nextCase>>
    BY <1>4, SameRows DEF DecisionsStay
<1>5. \/ \E a \in Threats : SendFails(a)
      \/ \E k \in DOMAIN tasks : CapturePackets(k)
      \/ MonitorRestart \/ CaseTick \/ UNCHANGED caseVars
      \/ \E a \in Threats : SendForensic(a)
      \/ \E k \in DOMAIN tasks : EnrichAndStore(k)
      \/ Triage
    BY DEF CaseNext
<1>6. ASSUME \/ \E a \in Threats : SendFails(a)
             \/ \E k \in DOMAIN tasks : CapturePackets(k)
             \/ MonitorRestart \/ CaseTick \/ UNCHANGED caseVars
      PROVE  UNCHANGED <<cases, nextCase>>
    BY <1>6 DEF SendFails, CapturePackets, MonitorRestart, CaseTick, caseVars
<1> QED BY <1>1, <1>2, <1>3, <1>4, <1>5, <1>6

-----------------------------------------------------------------------------
(* What the answers of the providers come to.                               *)

Sound(o) == o \in [verdict : Verdicts, score : Nat] /\ Backed(o)

\* The worse verdict and the higher score of two opinions back one another.
LEMMA FoldSound ==
    ASSUME NEW a, NEW b, Sound(a), Sound(b)
    PROVE  Sound(Fold(a, b))
<1> DEFINE v == MaxVerdict(a.verdict, b.verdict)
           s == MaxScore(a.score, b.score)
<1>1. /\ a.verdict \in Verdicts /\ b.verdict \in Verdicts
      /\ a.score \in Nat /\ b.score \in Nat /\ Backed(a) /\ Backed(b)
    BY DEF Sound
<1>2. v \in Verdicts /\ Rank(v) >= Rank(a.verdict) /\ Rank(v) >= Rank(b.verdict)
    BY <1>1 DEF MaxVerdict, Rank, Verdicts
<1>3. s \in Nat /\ s \in {a.score, b.score}
    BY <1>1 DEF MaxScore
<1>4. \A w \in Verdicts : Rank(w) \in 0 .. 3 /\ (Rank(w) = 3 <=> w = "malicious")
    BY DEF Rank, Verdicts
<1> HIDE DEF v, s
<1>5. (s >= 50 => v = "malicious") /\ (s >= 10 => Rank(v) >= 2)
    BY <1>1, <1>2, <1>3, <1>4 DEF Backed
<1> QED BY <1>2, <1>3, <1>5 DEF Sound, Backed, Fold, Opinion, v, s

LEMMA ProvidersSound ==
    /\ Sound(NoOpinion) /\ Sound(Opinion("benign", 0))
    /\ \A c, n : Sound(Greynoise(c, n))
    /\ \A k \in Nat : Sound(Abuseipdb(k))
    /\ \A m \in Nat, u \in Nat : Sound(Virustotal(m, u))
BY DEF Sound, Backed, NoOpinion, Opinion, Greynoise, Abuseipdb, Virustotal, Verdicts, Rank

LEMMA OpinionsSound ==
    ASSUME NEW t, NEW o \in Opinions(t)
    PROVE  Sound(o)
<1>1. \A p \in ProviderAnswers : Sound(p.gn) /\ Sound(p.ab) /\ Sound(p.vt)
    BY ProvidersSound, CaseAssumption DEF ProviderAnswers
<1>2. ASSUME NEW gn, NEW ab, NEW vt, Sound(gn), Sound(ab), Sound(vt)
      PROVE  Sound(Enrich(t \notin ExternalIps, TRUE, gn, ab, vt))
    <2>1. Sound(Fold(Fold(Fold(NoOpinion, gn), ab), vt))
        BY <1>2, FoldSound, ProvidersSound
    <2> QED BY <2>1, ProvidersSound DEF Enrich
<1>3. \A p \in ProviderAnswers : Sound(Enrich(t \notin ExternalIps, TRUE, p.gn, p.ab, p.vt))
    BY <1>1, <1>2
<1> QED BY <1>3, ProvidersSound DEF Opinions

-----------------------------------------------------------------------------
(* The cases.                                                               *)

Opened == \A i \in DOMAIN cases : cases[i].created <= time

CaseInv == CaseTypeOK /\ Opened /\ CasesAreSound

\* Numbered tasks; the address of a task is one that an alert can have.
LEMMA StartTaskTyped ==
    ASSUME CaseTypeOK, NEW a \in Threats, PickTarget(a) # NoAddress, NEW i \in Nat,
           StartTask(i, PickTarget(a))
    PROVE  /\ nextTask' \in Nat /\ DOMAIN tasks' \subseteq 1 .. nextTask'
           /\ tasks' \in [DOMAIN tasks' -> Task]
<1> DEFINE t == [case |-> i, target |-> PickTarget(a), stage |-> "capture", pcap |-> FALSE]
<1>1. t \in Task
    BY DEF Task, Targeted
<1>2. tasks' = Put(tasks, nextTask + 1, t) /\ nextTask' = nextTask + 1
    BY DEF StartTask
<1> HIDE DEF t
<1> QED BY <1>1, <1>2 DEF CaseTypeOK, Put

\* A step that starts or ends no collection and cools no address down.
Aside == UNCHANGED <<cooled, tasks, nextTask>>

TasksTyped ==
    /\ nextTask \in Nat /\ DOMAIN tasks \subseteq 1 .. nextTask
    /\ tasks \in [DOMAIN tasks -> Task]

RowsTyped ==
    /\ nextCase \in Nat /\ DOMAIN cases \subseteq 1 .. nextCase
    /\ cases \in [DOMAIN cases -> Case]

LEMMA CooledTyped ==
    ASSUME CaseTypeOK, NEW t \in Targeted, cooled' = Put(cooled, t, time)
    PROVE  DOMAIN cooled' \subseteq Targeted /\ cooled' \in [DOMAIN cooled' -> Nat]
BY DEF CaseTypeOK, Put

\* A row seen again now was within the window, so none of its matter has been
\* opened since it was last seen.
LEMMA CorrelateSound ==
    ASSUME CaseInv, NEW a \in Threats, NEW i \in Latest(Correlated(a)), Correlate(i),
           UNCHANGED <<time, nextCase>>
    PROVE  RowsTyped' /\ Opened' /\ CasesAreSound'
<1>1. /\ i \in DOMAIN cases /\ cases[i].lastSeen + Correlation >= time
      /\ cases' = [cases EXCEPT ![i].hits = @ + 1, ![i].lastSeen = time]
    BY DEF Latest, Correlated, Correlate
<1>2. /\ time \in Nat /\ nextCase \in Nat /\ DOMAIN cases \subseteq 1 .. nextCase
      /\ cases \in [DOMAIN cases -> Case] /\ \A j \in DOMAIN cases : cases[j] \in Case
    BY DEF CaseInv, CaseTypeOK
<1>3. /\ DOMAIN cases' = DOMAIN cases /\ cases' \in [DOMAIN cases -> Case]
      /\ \A j \in DOMAIN cases :
             /\ cases'[j].key = cases[j].key /\ cases'[j].created = cases[j].created
             /\ cases'[j].status = cases[j].status /\ cases'[j].touched = cases[j].touched
             /\ cases'[j].opinion = cases[j].opinion
             /\ cases'[j].lastSeen = IF j = i THEN time ELSE cases[j].lastSeen
    <2> DEFINE r == [cases[i] EXCEPT !.hits = @ + 1, !.lastSeen = time]
    <2>1. cases' = [cases EXCEPT ![i] = r]
        BY <1>1, <1>2
    <2>2. cases[i] \in Case /\ time \in Nat
        BY <1>1, <1>2
    <2>3. cases[i].hits \in Nat
        BY <2>2 DEF Case
    <2>4. cases[i].hits + 1 \in Nat
        BY <2>3
    <2>5. r \in Case
        BY <2>4, <2>2 DEF Case
    <2>6. r.lastSeen = time
        BY <2>4, <2>2 DEF Case
    <2>7. /\ r.key = cases[i].key /\ r.created = cases[i].created /\ r.status = cases[i].status
          /\ r.touched = cases[i].touched /\ r.opinion = cases[i].opinion
        BY <2>4, <2>2 DEF Case
    <2> HIDE DEF r
    <2> QED BY <1>1, <1>2, <2>1, <2>5, <2>6, <2>7
<1>4. RowsTyped' /\ Opened'
    BY <1>2, <1>3 DEF RowsTyped, Opened, CaseInv
<1>5. VerdictBacked'
    BY <1>3 DEF CaseInv, CasesAreSound, VerdictBacked
<1>6. CasesApart'
    <2> SUFFICES ASSUME NEW j \in DOMAIN cases, NEW k \in DOMAIN cases, j < k,
                        cases[j].key = cases[k].key, cases[j].status = "open", ~cases[j].touched
                 PROVE  cases'[j].lastSeen + Correlation < cases[k].created
        BY <1>3 DEF CasesApart
    <2>1. cases[j].lastSeen + Correlation < cases[k].created /\ cases[k].created <= time
        BY DEF CaseInv, CasesAreSound, CasesApart, Opened
    <2>2. cases[j].lastSeen \in Nat /\ cases[k].created \in Nat
        BY <1>2 DEF Case
    <2>3. j # i
        BY <1>1, <1>2, <2>1, <2>2, CaseAssumption
    <2> QED BY <1>3, <2>1, <2>3
<1> QED BY <1>4, <1>5, <1>6 DEF CasesAreSound

LEMMA NewCaseTyped ==
    ASSUME CaseTypeOK, NEW a \in Threats
    PROVE  NewCase(a) \in Case
<1>1. LevelPriority[a.level] \in Priorities
    BY CaseAssumption DEF LevelPriority, Priorities
<1>2. NoOpinion \in [verdict : Verdicts, score : Nat]
    BY ProvidersSound DEF Sound
<1>3. CaseKey(a) \in CaseKeys /\ "open" \in Statuses /\ time \in Nat
    BY DEF CaseKeys, Statuses, CaseTypeOK
<1> QED BY <1>1, <1>2, <1>3 DEF NewCase, Case

\* A case is opened when none of its matter can be correlated.
LEMMA OpenCaseSound ==
    ASSUME CaseInv, NEW a \in Threats, Correlated(a) = {}, OpenCase(a),
           time' = time, nextCase' = nextCase + 1
    PROVE  RowsTyped' /\ Opened' /\ CasesAreSound'
<1> DEFINE n == nextCase + 1
           new == NewCase(a)
           grown == Put(cases, n, new)
           kept  == {i \in DOMAIN grown : grown[i].created + CaseLife >= time}
<1>1. cases' = [i \in kept |-> grown[i]]
    BY DEF OpenCase
<1>2. /\ time \in Nat /\ nextCase \in Nat /\ DOMAIN cases \subseteq 1 .. nextCase
      /\ cases \in [DOMAIN cases -> Case] /\ \A j \in DOMAIN cases : cases[j] \in Case
    BY DEF CaseInv, CaseTypeOK
<1>3. new \in Case
    BY NewCaseTyped DEF CaseInv
<1>4. /\ new.key = CaseKey(a) /\ new.created = time /\ new.opinion = NoOpinion
      /\ new.status = "open"
    BY DEF NewCase
<1> HIDE DEF new
<1>5. DOMAIN grown = DOMAIN cases \cup {n} /\ grown[n] = new /\ n \notin DOMAIN cases
      /\ \A i \in DOMAIN cases : grown[i] = cases[i]
    BY <1>2 DEF Put
<1>6. kept \subseteq DOMAIN grown
    OBVIOUS
<1> HIDE DEF grown, kept
<1>7. /\ DOMAIN cases' \subseteq DOMAIN cases \cup {n}
      /\ cases' \in [DOMAIN cases' -> Case]
      /\ \A i \in DOMAIN cases' : cases'[i] = IF i = n THEN new ELSE cases[i]
    BY <1>1, <1>2, <1>3, <1>5, <1>6
<1>8. RowsTyped'
    BY <1>2, <1>7 DEF RowsTyped
<1>9. Opened'
    BY <1>2, <1>4, <1>7 DEF Opened, CaseInv
<1>10. VerdictBacked'
    BY <1>4, <1>7, ProvidersSound DEF CaseInv, CasesAreSound, VerdictBacked, Sound
<1>11. CasesApart'
    <2> SUFFICES ASSUME NEW j \in DOMAIN cases', NEW k \in DOMAIN cases', j < k,
                        cases'[j].key = cases'[k].key, cases'[j].status = "open", ~cases'[j].touched
                 PROVE  cases'[j].lastSeen + Correlation < cases'[k].created
        BY DEF CasesApart
    <2>1. j # n /\ j \in DOMAIN cases /\ cases'[j] = cases[j]
        BY <1>2, <1>7
    <2>2. CASE k # n
        BY <1>7, <2>1, <2>2 DEF CaseInv, CasesAreSound, CasesApart
    <2>3. CASE k = n
        <3>1. j \notin Correlated(a) /\ cases[j].key = CaseKey(a) /\ cases'[k].created = time
            BY <1>4, <1>7, <2>1, <2>3
        <3>2. ~(cases[j].lastSeen + Correlation >= time)
            BY <2>1, <3>1 DEF Correlated
        <3>3. cases[j].lastSeen \in Nat
            BY <1>2, <2>1 DEF Case
        <3> QED BY <1>2, <2>1, <3>1, <3>2, <3>3, CaseAssumption
    <2> QED BY <2>2, <2>3
<1> QED BY <1>8, <1>9, <1>10, <1>11 DEF CasesAreSound

LEMMA SendSound ==
    ASSUME CaseInv, NEW a \in Threats, SendForensic(a)
    PROVE  CaseInv'
<1>1. /\ PickTarget(a) # NoAddress /\ PickTarget(a) \in Targeted
      /\ cooled' = Put(cooled, PickTarget(a), time) /\ time' = time /\ CaseTypeOK
    BY DEF SendForensic, Admitted, Targeted, CaseInv
<1>2. DOMAIN cooled' \subseteq Targeted /\ cooled' \in [DOMAIN cooled' -> Nat]
    BY <1>1, CooledTyped
<1>3. RowsTyped' /\ Opened' /\ CasesAreSound' /\ TasksTyped'
    <2>1. CASE (\E i \in Latest(Correlated(a)) : Correlate(i) /\ StartTask(i, PickTarget(a))) /\ UNCHANGED nextCase
        <3>1. PICK i \in Latest(Correlated(a)) : Correlate(i) /\ StartTask(i, PickTarget(a))
            BY <2>1
        <3>2. i \in Nat
            BY <1>1 DEF Latest, Correlated, CaseTypeOK
        <3> QED BY <1>1, <2>1, <3>1, <3>2, CorrelateSound, StartTaskTyped DEF TasksTyped
    <2>2. CASE /\ Correlated(a) = {} /\ OpenCase(a) /\ nextCase' = nextCase + 1
               /\ StartTask(nextCase + 1, PickTarget(a))
        <3>1. nextCase + 1 \in Nat
            BY <1>1 DEF CaseTypeOK
        <3> QED BY <1>1, <2>2, <3>1, OpenCaseSound, StartTaskTyped DEF TasksTyped
    <2> QED BY <2>1, <2>2 DEF SendForensic
<1> QED BY <1>1, <1>2, <1>3 DEF CaseInv, CaseTypeOK, RowsTyped, TasksTyped

\* A write of some fields of known rows that the soundness of cases does not
\* look at, or that can only help it.
LEMMA FieldsSound ==
    ASSUME CaseInv, RowsTyped', time' \in Nat, time' >= time,
           DOMAIN cases' = DOMAIN cases,
           \A i \in DOMAIN cases :
               /\ cases'[i].key = cases[i].key
               /\ cases'[i].created = cases[i].created
               /\ cases'[i].lastSeen = cases[i].lastSeen
               /\ cases'[i].opinion = cases[i].opinion \/ Sound(cases'[i].opinion)
               /\ \/ cases'[i].touched
                  \/ cases'[i].status = cases[i].status /\ cases'[i].touched = cases[i].touched
    PROVE  Opened' /\ CasesAreSound'
<1>1. \A i \in DOMAIN cases : cases[i].created \in Nat /\ cases[i].created <= time
    BY DEF CaseInv, CaseTypeOK, Case, Opened
<1>2. time \in Nat
    BY DEF CaseInv, CaseTypeOK
<1>3. Opened'
    BY <1>1, <1>2 DEF Opened
<1>4. VerdictBacked'
    BY DEF CaseInv, CasesAreSound, VerdictBacked, Sound
<1>5. CasesApart'
    BY DEF CaseInv, CasesAreSound, CasesApart
<1> QED BY <1>3, <1>4, <1>5 DEF CasesAreSound

\* One field of one row, or none.
LEMMA TriageSound ==
    ASSUME CaseInv, Triage
    PROVE  CaseInv'
<1>1. CaseTypeOK /\ \A i \in DOMAIN cases : cases[i] \in Case
    BY DEF CaseInv, CaseTypeOK
<1>2. UNCHANGED <<time, cooled, nextCase, tasks, nextTask>>
    BY DEF Triage, SetIncidentStatus, SetIncidentPriority, SetIncidentAssignee
<1>3. PICK i \in DOMAIN cases :
          \/ \E v \in Statuses : cases' = [cases EXCEPT ![i].status = v, ![i].touched = TRUE]
          \/ \E v \in Priorities : cases' = [cases EXCEPT ![i].priority = v]
          \/ \E v \in Assignees : cases' = [cases EXCEPT ![i].assignee = v]
    BY DEF Triage, SetIncidentStatus, SetIncidentPriority, SetIncidentAssignee
<1>4. PICK r \in Case :
          /\ cases' = [cases EXCEPT ![i] = r]
          /\ r.key = cases[i].key /\ r.created = cases[i].created
          /\ r.lastSeen = cases[i].lastSeen /\ r.opinion = cases[i].opinion
          /\ \/ r.touched
             \/ r.status = cases[i].status /\ r.touched = cases[i].touched
    <2>1. ASSUME NEW v \in Statuses, cases' = [cases EXCEPT ![i].status = v, ![i].touched = TRUE]
          PROVE  LET r == [cases[i] EXCEPT !.status = v, !.touched = TRUE]
                 IN  /\ r \in Case /\ cases' = [cases EXCEPT ![i] = r]
                     /\ r.key = cases[i].key /\ r.created = cases[i].created
                     /\ r.lastSeen = cases[i].lastSeen /\ r.opinion = cases[i].opinion
                     /\ r.touched
        BY <1>1, <2>1 DEF Case
    <2>2. ASSUME NEW v \in Priorities, cases' = [cases EXCEPT ![i].priority = v]
          PROVE  LET r == [cases[i] EXCEPT !.priority = v]
                 IN  /\ r \in Case /\ cases' = [cases EXCEPT ![i] = r]
                     /\ r.key = cases[i].key /\ r.created = cases[i].created
                     /\ r.lastSeen = cases[i].lastSeen /\ r.opinion = cases[i].opinion
                     /\ r.status = cases[i].status /\ r.touched = cases[i].touched
        BY <1>1, <2>2 DEF Case
    <2>3. ASSUME NEW v \in Assignees, cases' = [cases EXCEPT ![i].assignee = v]
          PROVE  LET r == [cases[i] EXCEPT !.assignee = v]
                 IN  /\ r \in Case /\ cases' = [cases EXCEPT ![i] = r]
                     /\ r.key = cases[i].key /\ r.created = cases[i].created
                     /\ r.lastSeen = cases[i].lastSeen /\ r.opinion = cases[i].opinion
                     /\ r.status = cases[i].status /\ r.touched = cases[i].touched
        BY <1>1, <2>3 DEF Case
    <2> QED BY <1>3, <2>1, <2>2, <2>3
<1>5. RowsTyped'
    BY <1>1, <1>2, <1>4 DEF CaseTypeOK, RowsTyped
<1>6. time \in Nat /\ time' >= time /\ DOMAIN cases' = DOMAIN cases
    BY <1>1, <1>2, <1>4 DEF CaseTypeOK
<1>7. \A j \in DOMAIN cases : cases'[j] = IF j = i THEN r ELSE cases[j]
    BY <1>1, <1>4 DEF CaseTypeOK
<1>8. Opened' /\ CasesAreSound'
    BY <1>2, <1>4, <1>5, <1>6, <1>7, FieldsSound
<1> QED BY <1>1, <1>2, <1>5, <1>8 DEF CaseInv, CaseTypeOK, RowsTyped

LEMMA CollectionSound ==
    ASSUME CaseInv, NEW k \in DOMAIN tasks, EnrichAndStore(k)
    PROVE  CaseInv'
<1>1. CaseTypeOK /\ tasks[k] \in Task /\ \A i \in DOMAIN cases : cases[i] \in Case
    BY DEF CaseInv, CaseTypeOK
<1>2. UNCHANGED <<time, cooled, nextCase, nextTask>> /\ tasks' = Without(tasks, k)
    BY DEF EnrichAndStore
<1>3. TasksTyped'
    BY <1>1, <1>2 DEF CaseTypeOK, TasksTyped, Without
<1>4. RowsTyped' /\ Opened' /\ CasesAreSound'
    <2>1. CASE UNCHANGED cases
        BY <1>1, <1>2, <2>1 DEF CaseInv, CaseTypeOK, RowsTyped, Opened, CasesAreSound, CasesApart, VerdictBacked
    <2>2. CASE \E o \in Opinions(tasks[k].target) : UpdateArtifacts(tasks[k].case, tasks[k].pcap, o)
        <3> DEFINE i == tasks[k].case
                   got == tasks[k].pcap
        <3>1. PICK o : Sound(o) /\ UpdateArtifacts(i, got, o)
            BY <2>2, OpinionsSound
        <3>2. CASE i \notin DOMAIN cases
            BY <2>1, <3>1, <3>2 DEF UpdateArtifacts
        <3>3. CASE i \in DOMAIN cases
            <4> DEFINE r == [cases[i] EXCEPT !.pcap = got, !.opinion = o]
            <4>1. got \in BOOLEAN /\ o \in [verdict : Verdicts, score : Nat] /\ cases[i] \in Case
                BY <1>1, <3>1, <3>3 DEF Task, Sound
            <4> HIDE DEF i, got
            <4>2. cases' = [cases EXCEPT ![i] = r]
                BY <1>1, <3>1, <3>3 DEF UpdateArtifacts
            <4>3. r \in Case
                BY <4>1 DEF Case
            <4>4. /\ r.key = cases[i].key /\ r.created = cases[i].created
                  /\ r.lastSeen = cases[i].lastSeen /\ r.opinion = o
                  /\ r.status = cases[i].status /\ r.touched = cases[i].touched
                BY <4>1 DEF Case
            <4> HIDE DEF r
            <4>5. \A j \in DOMAIN cases : cases'[j] = IF j = i THEN r ELSE cases[j]
                BY <1>1, <4>2 DEF CaseTypeOK
            <4>6. RowsTyped' /\ DOMAIN cases' = DOMAIN cases
                BY <1>1, <1>2, <4>2, <4>3 DEF CaseTypeOK, RowsTyped
            <4>7. time' \in Nat /\ time' >= time
                BY <1>1, <1>2 DEF CaseTypeOK
            <4> QED BY <3>1, <4>4, <4>5, <4>6, <4>7, FieldsSound
        <3> QED BY <3>2, <3>3
    <2> QED BY <2>1, <2>2 DEF EnrichAndStore
<1> QED BY <1>1, <1>2, <1>3, <1>4 DEF CaseInv, CaseTypeOK, RowsTyped, TasksTyped

\* Steps that leave every row, at the same or a later time.
LEMMA RowsLeft ==
    ASSUME CaseInv, UNCHANGED <<cases, nextCase>>, time' \in Nat, time' >= time, TasksTyped',
           DOMAIN cooled' \subseteq Targeted, cooled' \in [DOMAIN cooled' -> Nat]
    PROVE  CaseInv'
<1>1. RowsTyped'
    BY DEF CaseInv, CaseTypeOK, RowsTyped
<1>2. Opened' /\ CasesAreSound'
    BY <1>1, FieldsSound
<1> QED BY <1>1, <1>2 DEF CaseInv, CaseTypeOK, RowsTyped, TasksTyped

LEMMA CaseInvStep ==
    ASSUME CaseInv, [CaseNext]_caseVars
    PROVE  CaseInv'
<1>1. /\ CaseTypeOK /\ TasksTyped /\ time \in Nat
      /\ DOMAIN cooled \subseteq Targeted /\ cooled \in [DOMAIN cooled -> Nat]
    BY DEF CaseInv, CaseTypeOK, TasksTyped
<1>2. CASE \E a \in Threats : SendForensic(a)
    BY <1>2, SendSound
<1>3. CASE \E a \in Threats : SendFails(a)
    <2>1. PICK a \in Threats : SendFails(a)
        BY <1>3
    <2>2. PickTarget(a) \in Targeted
        BY <2>1 DEF SendFails, Admitted, Targeted
    <2>3. DOMAIN cooled' \subseteq Targeted /\ cooled' \in [DOMAIN cooled' -> Nat]
        BY <1>1, <2>1, <2>2, CooledTyped DEF SendFails
    <2>4. TasksTyped' /\ UNCHANGED <<time, cases, nextCase>>
        BY <1>1, <2>1 DEF SendFails, TasksTyped
    <2> QED BY <1>1, <2>3, <2>4, RowsLeft
<1>4. CASE \E k \in DOMAIN tasks : CapturePackets(k)
    <2>1. PICK k \in DOMAIN tasks, got \in BOOLEAN : tasks' = [tasks EXCEPT ![k].stage = "enrich", ![k].pcap = got]
        BY <1>4 DEF CapturePackets
    <2>2. tasks[k] \in Task
        BY <1>1 DEF TasksTyped
    <2>3. [tasks[k] EXCEPT !.stage = "enrich", !.pcap = got] \in Task
        BY <2>2 DEF Task
    <2>4. UNCHANGED <<time, cooled, cases, nextCase, nextTask>>
        BY <1>4 DEF CapturePackets
    <2>5. TasksTyped'
        BY <1>1, <2>1, <2>3, <2>4 DEF TasksTyped
    <2> QED BY <1>1, <2>4, <2>5, RowsLeft
<1>5. CASE \E k \in DOMAIN tasks : EnrichAndStore(k)
    BY <1>5, CollectionSound
<1>6. CASE MonitorRestart
    <2>1. DOMAIN NoRows = {} /\ NoRows \in [{} -> Nat] /\ NoRows \in [{} -> Task]
        BY DEF NoRows
    <2>2. /\ cooled' = NoRows /\ tasks' = NoRows
          /\ UNCHANGED <<time, cases, nextCase, nextTask>>
        BY <1>6 DEF MonitorRestart
    <2>3. TasksTyped'
        BY <1>1, <2>1, <2>2 DEF TasksTyped
    <2> QED BY <1>1, <2>1, <2>2, <2>3, RowsLeft
<1>7. CASE Triage
    BY <1>7, TriageSound
<1>8. CASE CaseTick
    <2>1. time' = time + 1 /\ UNCHANGED <<cooled, cases, nextCase, tasks, nextTask>>
        BY <1>8 DEF CaseTick
    <2>2. TasksTyped'
        BY <1>1, <2>1 DEF TasksTyped
    <2> QED BY <1>1, <2>1, <2>2, RowsLeft
<1>9. CASE UNCHANGED caseVars
    <2>1. TasksTyped' /\ UNCHANGED <<time, cooled, cases, nextCase>>
        BY <1>1, <1>9 DEF TasksTyped, caseVars
    <2> QED BY <1>1, <2>1, RowsLeft
<1> QED BY <1>2, <1>3, <1>4, <1>5, <1>6, <1>7, <1>8, <1>9 DEF CaseNext

-----------------------------------------------------------------------------

\* Of every reachable state: types, no case from the future, sound cases.
THEOREM CasesSafe == CaseSpec => []CaseInv
<1>1. CaseInit => CaseInv
    <2> SUFFICES ASSUME CaseInit PROVE CaseInv
        OBVIOUS
    <2>1. DOMAIN NoRows = {} /\ NoRows \in [{} -> Nat] /\ NoRows \in [{} -> Case] /\ NoRows \in [{} -> Task]
        BY DEF NoRows
    <2>2. CaseTypeOK
        BY <2>1 DEF CaseInit, CaseTypeOK
    <2>3. Opened /\ CasesApart /\ VerdictBacked
        BY <2>1 DEF CaseInit, Opened, CasesApart, VerdictBacked
    <2> QED BY <2>2, <2>3 DEF CaseInv, CasesAreSound
<1>2. CaseInv /\ [CaseNext]_caseVars => CaseInv'
    BY CaseInvStep
<1> QED BY <1>1, <1>2, PTL DEF CaseSpec

\* forensic_handler.py, capture.py, store.py: the tables of cases and of
\* collections hold rows of their types.
THEOREM CasesTyped == CaseSpec => []CaseTypeOK
<1>1. CaseInv => CaseTypeOK
    BY DEF CaseInv
<1> QED BY <1>1, CasesSafe, PTL

\* alerts/forensic_handler.py, forensics/store.py: alerts that recur and
\* collections that end late leave an operator's decisions alone; a case goes when
\* its life is over, and its evidence brings none back.
THEOREM DecisionsKept == CaseSpec => TriageKept
<1>1. CaseInv => Ids /\ Timed
    BY DEF CaseInv, CaseTypeOK, Case, Ids, Timed
<1>2. CaseInv /\ [CaseNext]_caseVars => [(DecisionsStay \/ Triage) /\ RowsLive]_caseVars
    BY <1>1, CaseStep
<1> QED BY <1>2, CasesSafe, PTL DEF CaseSpec, TriageKept

\* forensics/store.py and enrich/reputation.py: alerts of one matter are in one
\* case unless it fell silent or was closed, and a case's verdict is never
\* milder than its score, whichever collection stored its answer last.
THEOREM CasesSound == CaseSpec => []CasesAreSound
<1>1. CaseInv => CasesAreSound
    BY DEF CaseInv
<1> QED BY <1>1, CasesSafe, PTL
=============================================================================
