-------------------------- MODULE AlertFilters_proofs --------------------------
(***************************************************************************)
(* Proofs about AlertFilters, for every value of its constants: what the   *)
(* dispatcher filters by is at most CacheAge old, whitelisting ends by the *)
(* cap on its time to live, and only overlapping updates are lost.         *)
(***************************************************************************)
EXTENDS AlertFilters, TLAPS

(***************************************************************************)
(* The inductive invariants                                                *)
(***************************************************************************)

\* Write w, still in hand, is of entries that exist and does what it will report.
Sound(w) ==
  w # None =>
    /\ w.store = "wl" => /\ w.to.held \subseteq issued /\ w.to.rolled \subseteq w.to.held
                         /\ w.on \subseteq w.to.held \ w.to.rolled
                         /\ w.off \cap (w.to.held \ w.to.rolled) = {}
    /\ w.store = "sup" => w.on \subseteq w.to.types /\ w.off \cap w.to.types = {}

Typed == TypeOK /\ wl.held \subseteq issued /\ Sound(op) /\ Sound(req)

\* No entry outlives the cap on its time to live.
Capped == \A i \in issued : entry[i].added <= now /\ entry[i].expires <= entry[i].added + MaxTtl

\* The histories are up to date.
Recorded ==
  \A x \in Items :
    /\ lastOn[x] <= now /\ 0 <= lastOff[x] /\ lastOff[x] <= now
    /\ IF x \in InForce(wl, sup, now) THEN lastOn[x] = now ELSE lastOff[x] = now

\* A copy holds exactly what was in force when it was read or since.
Copied(cache, at, items) ==
  \A x \in items : IF x \in cache THEN lastOn[x] >= at ELSE lastOff[x] >= at
CachesOK ==
  /\ Copied(wlCache, wlAt, EntryIds) /\ Copied(supCache, supAt, Types)
  /\ \A i \in wlCache : entry[i].expires > wlAt

\* Whitelist f, and types ts, agree with what was last reported, except about `but'.
Old(i) == i \in issued /\ entry[i].expires <= now /\ entry[i].added < now - Retention
WlAgrees(f, but) ==
  \A i \in EntryIds \ but :
    /\ settled[i] = "off" => i \notin f.held \ f.rolled
    /\ settled[i] = "on" => i \in f.held \ f.rolled \/ Old(i)
SupAgrees(ts, but) ==
  \A t \in Types \ but : /\ settled[t] = "off" => t \notin ts
                         /\ settled[t] = "on" => t \in ts

\* A write in hand agrees, too, except about what it will report itself: what the other
\* process settled meanwhile is marked unsure.
Agrees(w) ==
  w # None => /\ w.store = "wl" => WlAgrees(w.to, w.on \cup w.off)
              /\ w.store = "sup" => SupAgrees(w.to.types, w.on \cup w.off)

Agreed == WlAgrees(wl, {}) /\ SupAgrees(sup.types, {}) /\ Agrees(op) /\ Agrees(req)

Safe == Typed /\ Capped /\ Recorded /\ CachesOK /\ Agreed

(***************************************************************************)
(* The kinds of steps                                                      *)
(***************************************************************************)

\* A step that only loads: it leaves a write in hand with the monitor or the portal.
Loads ==
  \/ \E k \in Keys, ttl \in 0..(MaxTtl + 1) : AddWhitelist(k, ttl)
  \/ \E k \in Keys : RemoveWhitelist(k)
  \/ Compact
  \/ \E t \in Silenceable, hours \in 0..(MaxHours + 1) : Suppress(t, hours)
  \/ \E t \in Silenceable : Unsuppress(t) \/ PortalSuppress(t) \/ PortalUnsuppress(t)
  \/ \E i \in EntryIds : Rollback(i)

Drops == Restart \/ PortalCrash

\* Entries are only added, with their time to live bounded; nothing else of them changes.
LEMMA EntriesGrow ==
  ASSUME Typed, Next
  PROVE  /\ issued \subseteq issued' /\ issued' \in SUBSET EntryIds
         /\ entry' \in [issued' -> Entry]
         /\ \A i \in issued : entry'[i] = entry[i]
         /\ \A i \in issued' \ issued :
              entry'[i].added = now /\ entry'[i].expires <= now + MaxTtl
         /\ (issued' # issued => now' = now)
<1> USE ConstantsAssumption DEF ConstantsAssumption
<1>1. CASE \E k \in Keys, ttl \in 0..(MaxTtl + 1) : AddWhitelist(k, ttl)
  <2>1. PICK k \in Keys, ttl \in 0..(MaxTtl + 1) : AddWhitelist(k, ttl) BY <1>1
  <2>2. PICK i \in EntryIds \ issued :
          /\ entry' = [j \in issued \cup {i} |->
                         IF j = i THEN [key |-> k, added |-> now, expires |-> now + ttl]
                                  ELSE entry[j]]
          /\ now' = now
    BY <2>1 DEF AddWhitelist, Hold
  <2>3. [key |-> k, added |-> now, expires |-> now + ttl] \in Entry
    BY DEF Entry, Typed, TypeOK
  <2>4. issued' = issued \cup {i} BY <2>2 DEF issued
  <2>5. ttl <= MaxTtl /\ ttl \in Nat BY <2>1 DEF AddWhitelist
  <2> QED BY <2>2, <2>3, <2>4, <2>5 DEF Typed, TypeOK, Entry
<1>2. CASE UNCHANGED entry BY <1>2 DEF issued, Typed, TypeOK
<1> QED BY <1>1, <1>2 DEF Next, Dispatch, RemoveWhitelist, Compact, Suppress, Unsuppress,
     PortalSuppress, PortalUnsuppress, Rollback, Ask, Save, PortalSave, Tick, Restart,
     PortalCrash

(***************************************************************************)
(* Types, and writes in hand                                               *)
(***************************************************************************)

LEMMA TypedInit == Init => Typed /\ Capped
<1> USE ConstantsAssumption DEF ConstantsAssumption
<1> SUFFICES ASSUME Init PROVE Typed /\ Capped OBVIOUS
<1>1. issued = {} BY DEF Init, issued
<1>2. entry \in [issued -> Entry] BY <1>1 DEF Init
<1>3. wl \in WlFile /\ sup \in SupFile BY DEF Init, WlFile, SupFile
<1> QED BY <1>1, <1>2, <1>3 DEF Init, Typed, Capped, TypeOK, Sound, Never

\* What each of the loading steps leaves in hand is a write, of entries that exist.
LEMMA LoadedByMonitor ==
  ASSUME Typed, UNCHANGED <<now, files, req, caches, past, settled>>,
         op' \in Write, Sound(op)', issued' \in SUBSET EntryIds,
         issued \subseteq issued', entry' \in [issued' -> Entry]
  PROVE  Typed'
BY DEF Typed, TypeOK, Sound, files, caches, past

LEMMA LoadedByPortal ==
  ASSUME Typed, UNCHANGED <<now, files, op, caches, entry, past, settled>>,
         req' \in Write, Sound(req)'
  PROVE  Typed'
BY DEF Typed, TypeOK, Sound, files, caches, past, issued

LEMMA WlWrite ==
  ASSUME NEW h \in SUBSET EntryIds, NEW r \in SUBSET EntryIds,
         NEW x \in SUBSET EntryIds, NEW y \in SUBSET EntryIds
  PROVE  [store |-> "wl", to |-> [held |-> h, rolled |-> r], on |-> x, off |-> y] \in Write
BY DEF Write, WlFile

LEMMA SupWrite ==
  ASSUME NEW ts \in SUBSET Types, NEW f \in [Types -> Nat \cup {None}],
         NEW x \in SUBSET Types, NEW y \in SUBSET Types
  PROVE  [store |-> "sup", to |-> [types |-> ts, ttl |-> f], on |-> x, off |-> y] \in Write
BY DEF Write, SupFile

LEMMA HoldsAlso ==
  ASSUME NEW f \in WlFile, NEW ids
  PROVE  [f EXCEPT !.held = @ \cup ids] = [held |-> f.held \cup ids, rolled |-> f.rolled]
BY DEF WlFile

LEMMA TypesChange ==
  ASSUME NEW f \in SupFile, NEW ts
  PROVE  [f EXCEPT !.types = ts] = [types |-> ts, ttl |-> f.ttl]
BY DEF SupFile

LEMMA TypedLoads == ASSUME Typed, Next, Loads PROVE Typed'
<1> USE ConstantsAssumption DEF ConstantsAssumption
<1>0. /\ issued \subseteq issued' /\ issued' \in SUBSET EntryIds
      /\ entry' \in [issued' -> Entry]
  BY EntriesGrow
<1>f. /\ wl \in WlFile /\ sup \in SupFile
      /\ wl.held \in SUBSET issued /\ wl.rolled \in SUBSET wl.held
      /\ issued \in SUBSET EntryIds
      /\ sup.types \in SUBSET Types /\ sup.ttl \in [Types -> Nat \cup {None}] /\ now \in Nat
  BY DEF Typed, TypeOK, WlFile, SupFile
<1>1. ASSUME NEW k \in Keys, NEW ttl \in 0..(MaxTtl + 1), AddWhitelist(k, ttl) PROVE Typed'
  <2>1. PICK i \in EntryIds \ issued :
          /\ entry' = [j \in issued \cup {i} |->
                         IF j = i THEN [key |-> k, added |-> now, expires |-> now + ttl]
                                  ELSE entry[j]]
          /\ Hold([store |-> "wl", to |-> [wl EXCEPT !.held = @ \cup {i}],
                   on |-> {i}, off |-> {}])
    BY <1>1 DEF AddWhitelist
  <2> DEFINE w == [store |-> "wl", to |-> [held |-> wl.held \cup {i}, rolled |-> wl.rolled],
                   on |-> {i}, off |-> {}]
  <2>2. [wl EXCEPT !.held = @ \cup {i}] = [held |-> wl.held \cup {i}, rolled |-> wl.rolled]
    BY <1>f, HoldsAlso
  <2>3. op' = w /\ UNCHANGED <<now, files, req, caches, past, settled>>
    BY <2>1, <2>2 DEF Hold
  <2>4. w \in Write
    <3>1. /\ wl.held \cup {i} \in SUBSET EntryIds /\ wl.rolled \in SUBSET EntryIds
          /\ {i} \in SUBSET EntryIds /\ {} \in SUBSET EntryIds BY <1>f
    <3> HIDE DEF w
    <3> QED BY <3>1, WlWrite DEF w
  <2>5. issued' = issued \cup {i} BY <2>1 DEF issued
  <2>6. Sound(op)' BY <2>3, <1>f, <2>5 DEF Sound
  <2> HIDE DEF w
  <2> QED BY <1>0, <2>3, <2>4, <2>6, LoadedByMonitor
<1>2. ASSUME NEW k \in Keys, RemoveWhitelist(k) PROVE Typed'
  <2> DEFINE w == [store |-> "wl", to |-> [held |-> wl.held,
                                           rolled |-> wl.rolled \cup Removable(wl, k)],
                   on |-> {}, off |-> Removable(wl, k)]
  <2>1. Removable(wl, k) \in SUBSET wl.held BY DEF Removable
  <2>2. roll_back(wl, Removable(wl, k)) = w.to BY <1>f DEF roll_back, WlFile
  <2>3. op' = w /\ UNCHANGED <<now, files, req, caches, past, settled>>
    BY <1>2, <2>2 DEF RemoveWhitelist, Hold
  <2>4. w \in Write BY <1>f, <2>1, WlWrite
  <2>6. Sound(op)' BY <2>3, <1>0, <1>f, <2>1 DEF Sound
  <2> HIDE DEF w
  <2> QED BY <1>0, <2>3, <2>4, <2>6, LoadedByMonitor
<1>3. CASE Compact
  <2> DEFINE w == [store |-> "wl", to |-> [held   |-> wl.held \ Compactable(wl),
                                           rolled |-> wl.rolled \ Compactable(wl)],
                   on |-> {}, off |-> {}]
  <2>1. op' = w /\ UNCHANGED <<now, files, req, caches, past, settled>>
    BY <1>3 DEF Compact, Hold
  <2>2. w \in Write BY <1>f, WlWrite
  <2>3. Sound(op)' BY <2>1, <1>0, <1>f DEF Sound
  <2> HIDE DEF w
  <2> QED BY <1>0, <2>1, <2>2, <2>3, LoadedByMonitor
<1>4. ASSUME NEW t \in Silenceable, NEW hours \in 0..(MaxHours + 1), Suppress(t, hours)
      PROVE Typed'
  <2> DEFINE w == [store |-> "sup", to |-> [types |-> sup.types \cup {t},
                                            ttl   |-> [sup.ttl EXCEPT ![t] = now + hours]],
                   on |-> {t}, off |-> {}]
  <2>1. op' = w /\ UNCHANGED <<now, files, req, caches, past, settled>>
    BY <1>4 DEF Suppress, Hold
  <2>2. [sup.ttl EXCEPT ![t] = now + hours] \in [Types -> Nat \cup {None}] BY <1>f
  <2>3. w \in Write BY <1>f, <2>2, SupWrite
  <2>4. Sound(op)' BY <2>1 DEF Sound
  <2> HIDE DEF w
  <2> QED BY <1>0, <2>1, <2>3, <2>4, LoadedByMonitor
<1>5. ASSUME NEW t \in Silenceable, Unsuppress(t) PROVE Typed'
  <2> DEFINE w == [store |-> "sup", to |-> [types |-> sup.types \ {t},
                                            ttl   |-> [sup.ttl EXCEPT ![t] = None]],
                   on |-> {}, off |-> {t}]
  <2>1. op' = w /\ UNCHANGED <<now, files, req, caches, past, settled>>
    BY <1>5 DEF Unsuppress, Hold
  <2>2. [sup.ttl EXCEPT ![t] = None] \in [Types -> Nat \cup {None}] BY <1>f
  <2>3. w \in Write BY <1>f, <2>2, SupWrite
  <2>4. Sound(op)' BY <2>1 DEF Sound
  <2> HIDE DEF w
  <2> QED BY <1>0, <2>1, <2>3, <2>4, LoadedByMonitor
<1>6. ASSUME NEW t \in Silenceable, PortalSuppress(t) PROVE Typed'
  <2> DEFINE w == [store |-> "sup", to |-> [types |-> sup.types \cup {t}, ttl |-> sup.ttl],
                   on |-> {t}, off |-> {}]
  <2>1. [sup EXCEPT !.types = @ \cup {t}] = w.to BY <1>f, TypesChange
  <2>2. req' = w /\ UNCHANGED <<now, files, op, caches, entry, past, settled>>
    BY <1>6, <2>1 DEF PortalSuppress, Ask
  <2>3. w \in Write BY <1>f, SupWrite
  <2>4. Sound(req)' BY <2>2 DEF Sound
  <2> HIDE DEF w
  <2> QED BY <2>2, <2>3, <2>4, LoadedByPortal
<1>7. ASSUME NEW t \in Silenceable, PortalUnsuppress(t) PROVE Typed'
  <2> DEFINE w == [store |-> "sup", to |-> [types |-> sup.types \ {t}, ttl |-> sup.ttl],
                   on |-> {}, off |-> {t}]
  <2>1. [sup EXCEPT !.types = @ \ {t}] = w.to BY <1>f, TypesChange
  <2>2. req' = w /\ UNCHANGED <<now, files, op, caches, entry, past, settled>>
    BY <1>7, <2>1 DEF PortalUnsuppress, Ask
  <2>3. w \in Write BY <1>f, SupWrite
  <2>4. Sound(req)' BY <2>2 DEF Sound
  <2> HIDE DEF w
  <2> QED BY <2>2, <2>3, <2>4, LoadedByPortal
<1>8. ASSUME NEW i \in EntryIds, Rollback(i) PROVE Typed'
  <2> DEFINE w == [store |-> "wl", to |-> [held |-> wl.held, rolled |-> wl.rolled \cup {i}],
                   on |-> {}, off |-> {i}]
  <2>1. roll_back(wl, {i}) = w.to BY <1>f DEF roll_back, WlFile
  <2>2. req' = w /\ UNCHANGED <<now, files, op, caches, entry, past, settled>>
    BY <1>8, <2>1 DEF Rollback, Ask
  <2>3. i \in wl.held BY <1>8 DEF Rollback
  <2>4. w \in Write BY <1>f, <2>3, WlWrite
  <2>5. Sound(req)'
    <3>1. issued' = issued BY <2>2 DEF issued
    <3> QED BY <2>2, <1>f, <2>3, <3>1 DEF Sound
  <2> HIDE DEF w
  <2> QED BY <2>2, <2>4, <2>5, LoadedByPortal
<1> QED BY <1>1, <1>2, <1>3, <1>4, <1>5, <1>6, <1>7, <1>8 DEF Loads

LEMMA TypedReplace ==
  ASSUME Typed, NEW w \in Write, w # None, Sound(w), NEW other, Replace(w, other)
  PROVE  /\ wl' \in WlFile /\ wl'.rolled \subseteq wl'.held /\ wl'.held \subseteq issued
         /\ sup' \in SupFile
         /\ lastOn' \in [Items -> Int] /\ lastOff' \in [Items -> Int]
         /\ settled' \in [Items -> {"on", "off", "unsure"}]
<1>1. /\ w.store = "wl" => w.to \in WlFile
      /\ w.store = "sup" => w.to \in SupFile
  BY DEF Write
<1>2. /\ wl' \in WlFile /\ wl'.rolled \subseteq wl'.held /\ wl'.held \subseteq issued
      /\ sup' \in SupFile
  BY <1>1 DEF Replace, Typed, TypeOK, Sound
<1>3. now \in Int /\ lastOn \in [Items -> Int] /\ lastOff \in [Items -> Int]
      /\ settled \in [Items -> {"on", "off", "unsure"}]
  BY DEF Typed, TypeOK
<1>4. lastOn' \in [Items -> Int] /\ lastOff' \in [Items -> Int]
  BY <1>3 DEF Replace, Note
<1>5. settled' \in [Items -> {"on", "off", "unsure"}]
  BY <1>3 DEF Replace
<1> QED BY <1>2, <1>4, <1>5

LEMMA TypedStep == ASSUME Typed, Next PROVE Typed'
<1> USE ConstantsAssumption DEF ConstantsAssumption
<1>1. CASE Loads BY <1>1, TypedLoads
<1>2. ASSUME NEW a \in Alerts, Dispatch(a) PROVE Typed'
  <2>1. WlView \in SUBSET issued /\ SupView \in SUBSET Types
    BY DEF Typed, TypeOK, WlView, SupView, active_entries, SupFile
  <2>2. /\ wlCache' \in SUBSET issued /\ supCache' \in SUBSET Types
        /\ wlAt' \in Int /\ wlAt' <= now /\ supAt' \in Int /\ supAt' <= now
    BY <1>2, <2>1 DEF Dispatch, Typed, TypeOK
  <2> QED BY <1>2, <2>2 DEF Dispatch, Typed, TypeOK, Sound, issued, files, past
<1>3. CASE Save
  <2>1. op # None /\ op \in Write /\ Sound(op) BY <1>3 DEF Save, Typed, TypeOK
  <2>2. Replace(op, req) BY <1>3 DEF Save
  <2>3. /\ wl' \in WlFile /\ wl'.rolled \subseteq wl'.held /\ wl'.held \subseteq issued
        /\ sup' \in SupFile
        /\ lastOn' \in [Items -> Int] /\ lastOff' \in [Items -> Int]
        /\ settled' \in [Items -> {"on", "off", "unsure"}]
    BY <2>1, <2>2, TypedReplace
  <2> QED BY <1>3, <2>3 DEF Save, Typed, TypeOK, Sound, issued, caches
<1>4. CASE PortalSave
  <2>1. req # None /\ req \in Write /\ Sound(req) BY <1>4 DEF PortalSave, Typed, TypeOK
  <2>2. Replace(req, op) BY <1>4 DEF PortalSave
  <2>3. /\ wl' \in WlFile /\ wl'.rolled \subseteq wl'.held /\ wl'.held \subseteq issued
        /\ sup' \in SupFile
        /\ lastOn' \in [Items -> Int] /\ lastOff' \in [Items -> Int]
        /\ settled' \in [Items -> {"on", "off", "unsure"}]
    BY <2>1, <2>2, TypedReplace
  <2> QED BY <1>4, <2>3 DEF PortalSave, Typed, TypeOK, Sound, issued, caches
<1>5. CASE Tick
  <2>1. lastOn' \in [Items -> Int] /\ lastOff' \in [Items -> Int]
    BY <1>5 DEF Tick, Note, Typed, TypeOK
  <2> QED BY <1>5, <2>1 DEF Tick, Typed, TypeOK, Sound, issued, files, caches
<1>6. CASE Drops
  <2>1. Never \in Int /\ Never <= 0 BY DEF Never
  <2> QED BY <1>6, <2>1 DEF Drops, Restart, PortalCrash, Typed, TypeOK, Sound, issued, files,
        caches, past
<1> QED BY <1>1, <1>2, <1>3, <1>4, <1>5, <1>6 DEF Next, Loads, Drops

(***************************************************************************)
(* Histories and copies                                                    *)
(***************************************************************************)

\* A step reads the files, or lets time pass, or replaces a file.
LEMMA StepKinds ==
  ASSUME Typed, Next
  PROVE  \/ UNCHANGED <<now, wl, sup, lastOn, lastOff>>
         \/ /\ now' \in {now, now + 1} /\ UNCHANGED <<entry, wlCache, wlAt, supCache, supAt>>
            /\ Note(wl', sup', now')
<1>1. CASE Tick BY <1>1 DEF Tick, files, caches
<1>2. CASE Save BY <1>2 DEF Save, Replace, caches
<1>3. CASE PortalSave BY <1>3 DEF PortalSave, Replace, caches
<1>4. CASE Loads \/ Drops \/ \E a \in Alerts : Dispatch(a)
  BY <1>4 DEF Loads, Drops, Dispatch, AddWhitelist, RemoveWhitelist, Compact, Suppress,
     Unsuppress, Hold, PortalSuppress, PortalUnsuppress, Rollback, Ask, Restart, PortalCrash,
     files, past
<1> QED BY <1>1, <1>2, <1>3, <1>4 DEF Next, Loads, Drops

LEMMA CappedStep == ASSUME Typed, Capped, Next PROVE Capped'
<1>1. now \in Nat /\ (now' = now \/ now' = now + 1) BY StepKinds DEF Typed, TypeOK
<1>2. \A i \in issued : entry[i] \in Entry BY DEF Typed, TypeOK
<1>3. issued \subseteq issued' /\ (issued' # issued => now' = now) BY EntriesGrow
<1>4. ASSUME NEW i \in issued'
      PROVE  entry'[i].added <= now' /\ entry'[i].expires <= entry'[i].added + MaxTtl
  <2>1. CASE i \in issued
    <3>1. entry'[i] = entry[i] BY <2>1, EntriesGrow
    <3> QED BY <1>1, <1>2, <2>1, <3>1 DEF Capped, Entry
  <2>2. CASE i \notin issued
    <3>1. entry'[i].added = now /\ entry'[i].expires <= now + MaxTtl
      BY <1>4, <2>2, EntriesGrow
    <3> QED BY <1>1, <1>3, <1>4, <2>2, <3>1
  <2> QED BY <2>1, <2>2
<1> QED BY <1>4 DEF Capped

\* What an entry of a file has to be in force does not change but with the file and the clock.
LEMMA SameInForce ==
  ASSUME Typed, Next, UNCHANGED <<now, wl, sup>>
  PROVE  InForce(wl, sup, now)' = InForce(wl, sup, now)
BY EntriesGrow DEF InForce, Typed, TypeOK

LEMMA HistoryStep ==
  ASSUME Typed, Typed', Recorded, Next
  PROVE  /\ Recorded'
         /\ \A x \in Items : lastOn[x] <= lastOn'[x] /\ lastOff[x] <= lastOff'[x]
<1>1. now \in Nat /\ lastOn \in [Items -> Int] /\ lastOff \in [Items -> Int]
  BY DEF Typed, TypeOK
<1>2. CASE UNCHANGED <<now, wl, sup, lastOn, lastOff>>
  BY <1>1, <1>2, SameInForce DEF Recorded
<1>3. CASE now' \in {now, now + 1} /\ UNCHANGED entry /\ Note(wl', sup', now')
  <2> DEFINE F == InForce(wl', sup', now')
  <2>1. InForce(wl, sup, now)' = F BY <1>3 DEF InForce
  <2>2. \A x \in Items : /\ lastOn'[x] = IF x \in F THEN now' ELSE lastOn[x]
                         /\ lastOff'[x] = IF x \in F THEN lastOff[x] ELSE now'
    BY <1>3 DEF Note
  <2>3. now' \in Nat /\ now <= now' BY <1>1, <1>3
  <2> HIDE DEF F
  <2> QED BY <1>1, <2>1, <2>2, <2>3 DEF Recorded
<1> QED BY <1>2, <1>3, StepKinds

LEMMA CachesStep ==
  ASSUME Typed, Typed', Recorded, CachesOK, Next
  PROVE  CachesOK'
<1> USE ConstantsAssumption DEF ConstantsAssumption
<1>1. /\ now \in Nat /\ lastOn \in [Items -> Int] /\ lastOff \in [Items -> Int]
      /\ lastOn' \in [Items -> Int] /\ lastOff' \in [Items -> Int]
      /\ wlAt \in Int /\ supAt \in Int /\ wlAt <= now /\ supAt <= now
      /\ wlCache \subseteq issued /\ EntryIds \subseteq Items /\ Types \subseteq Items
      /\ \A i \in issued : entry[i] \in Entry
      /\ issued \subseteq EntryIds
  BY DEF Typed, TypeOK, Items
<1>2. \A x \in Items : lastOn[x] <= lastOn'[x] /\ lastOff[x] <= lastOff'[x] BY HistoryStep
<1>3. \A i \in wlCache : entry'[i] = entry[i] BY <1>1, EntriesGrow
<1>4. CASE UNCHANGED <<wlCache, wlAt, supCache, supAt>>
  <2>1. \A i \in wlCache : entry'[i].expires > wlAt BY <1>3 DEF CachesOK
  <2>2. Copied(wlCache, wlAt, EntryIds)' /\ Copied(supCache, supAt, Types)'
    BY <1>1, <1>2, <1>4 DEF CachesOK, Copied
  <2> QED BY <1>4, <2>1, <2>2 DEF CachesOK
<1>5. ASSUME NEW a \in Alerts, Dispatch(a) PROVE CachesOK'
  <2>1. UNCHANGED <<lastOn, lastOff, entry>> BY <1>5 DEF Dispatch, past
  <2>2. active_entries(wl) = InForce(wl, sup, now) \cap EntryIds
    BY DEF active_entries, InForce, Typed, TypeOK, WlFile, SupFile
  <2>3. sup.types = InForce(wl, sup, now) \cap Types
    BY DEF InForce, Typed, TypeOK, WlFile, SupFile
  <2>4. wlCache' = WlView /\ wlAt' = (IF Stale(wlAt) THEN now ELSE wlAt)
    BY <1>5 DEF Dispatch
  <2>5. Copied(wlCache, wlAt, EntryIds)'
    BY <1>1, <2>1, <2>2, <2>4 DEF WlView, CachesOK, Copied, Recorded
  <2>6. \A i \in wlCache' : entry'[i].expires > wlAt'
    BY <1>1, <2>1, <2>4 DEF WlView, active_entries, CachesOK
  <2>7. \/ supCache' = supCache /\ supAt' = supAt
        \/ supCache' = SupView /\ supAt' = (IF Stale(supAt) THEN now ELSE supAt)
    BY <1>5 DEF Dispatch
  <2>8. Copied(supCache, supAt, Types)'
    BY <1>1, <2>1, <2>3, <2>7 DEF SupView, CachesOK, Copied, Recorded
  <2> QED BY <2>5, <2>6, <2>8 DEF CachesOK
<1>6. CASE Restart
  <2>1. wlCache' = {} /\ supCache' = {} /\ wlAt' = Never /\ supAt' = Never
    BY <1>6 DEF Restart
  <2>2. \A x \in Items : lastOff'[x] >= 0 BY HistoryStep DEF Recorded
  <2>3. Never \in Int /\ Never <= 0 BY DEF Never
  <2> HIDE DEF Never
  <2> QED BY <1>1, <2>1, <2>2, <2>3 DEF CachesOK, Copied
<1>7. CASE ~Restart /\ ~(\E a \in Alerts : Dispatch(a))
  <2>1. UNCHANGED <<wlCache, wlAt, supCache, supAt>>
    BY <1>7 DEF Next, AddWhitelist, RemoveWhitelist, Compact, Suppress,
     Unsuppress, Hold, PortalSuppress, PortalUnsuppress, Rollback, Ask, PortalCrash,
     Save, PortalSave, Tick, caches
  <2> QED BY <1>4, <2>1
<1> QED BY <1>5, <1>6, <1>7

(***************************************************************************)
(* What was reported                                                       *)
(***************************************************************************)

\* An entry that is old and expired stays so.
LEMMA OldStays == ASSUME Typed, Next PROVE \A i \in EntryIds : Old(i) => Old(i)'
<1> USE ConstantsAssumption DEF ConstantsAssumption
<1>1. now \in Nat /\ (now' = now \/ now' = now + 1) BY StepKinds DEF Typed, TypeOK
<1>2. \A i \in issued : i \in issued' /\ entry'[i] = entry[i] /\ entry[i] \in Entry
  BY EntriesGrow DEF Typed, TypeOK
<1> QED BY <1>1, <1>2 DEF Old, Entry

\* While nothing is reported, what agreed agrees still.
LEMMA AgreesStays ==
  ASSUME Typed, Next, UNCHANGED settled
  PROVE  /\ UNCHANGED wl /\ WlAgrees(wl, {}) => WlAgrees(wl, {})'
         /\ UNCHANGED sup /\ SupAgrees(sup.types, {}) => SupAgrees(sup.types, {})'
         /\ UNCHANGED op /\ Agrees(op) => Agrees(op)'
         /\ UNCHANGED req /\ Agrees(req) => Agrees(req)'
BY OldStays DEF Agrees, WlAgrees, SupAgrees

\* A loaded whitelist differs from the file in what will be reported, or was compacted away.
LEMMA AgreesLoads == ASSUME Typed, Agreed, Next, Loads PROVE Agreed'
<1> USE ConstantsAssumption DEF ConstantsAssumption
<1>0. UNCHANGED <<settled, wl, sup>>
  BY DEF Loads, AddWhitelist, RemoveWhitelist, Compact, Suppress, Unsuppress, Hold,
     PortalSuppress, PortalUnsuppress, Rollback, Ask, files
<1>1. WlAgrees(wl, {})' /\ SupAgrees(sup.types, {})' BY <1>0, AgreesStays DEF Agreed
<1>2. \A i \in EntryIds : Old(i) => Old(i)' BY OldStays
<1>f. wl \in WlFile /\ sup \in SupFile BY DEF Typed, TypeOK
<1>3. ASSUME NEW k \in Keys, NEW ttl \in 0..(MaxTtl + 1), AddWhitelist(k, ttl)
      PROVE  Agrees(op)' /\ Agrees(req)'
  <2>1. PICK i \in EntryIds \ issued :
          /\ op' = [store |-> "wl", to |-> [wl EXCEPT !.held = @ \cup {i}],
                    on |-> {i}, off |-> {}]
          /\ UNCHANGED req
    BY <1>3 DEF AddWhitelist, Hold
  <2>2. [wl EXCEPT !.held = @ \cup {i}] = [held |-> wl.held \cup {i}, rolled |-> wl.rolled]
    BY <1>f, HoldsAlso
  <2>3. Agrees(op)' BY <1>0, <1>1, <2>1, <2>2 DEF Agrees, WlAgrees
  <2> QED BY <1>0, <2>1, <2>3, AgreesStays DEF Agreed
<1>4. ASSUME NEW k \in Keys, RemoveWhitelist(k) PROVE Agrees(op)' /\ Agrees(req)'
  <2>1. op' = [store |-> "wl", to |-> roll_back(wl, Removable(wl, k)),
               on |-> {}, off |-> Removable(wl, k)] /\ UNCHANGED req
    BY <1>4 DEF RemoveWhitelist, Hold
  <2>2. roll_back(wl, Removable(wl, k))
          = [held |-> wl.held, rolled |-> wl.rolled \cup Removable(wl, k)]
    BY <1>f DEF roll_back, WlFile
  <2>3. Agrees(op)' BY <1>0, <1>1, <2>1, <2>2 DEF Agrees, WlAgrees
  <2> QED BY <1>0, <2>1, <2>3, AgreesStays DEF Agreed
<1>5. CASE Compact
  <2>1. op' = [store |-> "wl", to |-> [held   |-> wl.held \ Compactable(wl),
                                       rolled |-> wl.rolled \ Compactable(wl)],
               on |-> {}, off |-> {}] /\ UNCHANGED req
    BY <1>5 DEF Compact, Hold
  <2>2. \A i \in Compactable(wl) : i \in wl.rolled \/ Old(i)
    BY DEF Compactable, Old, Typed, TypeOK
  <2>3. Agrees(op)' BY <1>0, <1>1, <1>2, <2>1, <2>2 DEF Agrees, WlAgrees
  <2> QED BY <1>0, <2>1, <2>3, AgreesStays DEF Agreed
<1>6. ASSUME NEW t \in Silenceable, NEW hours \in 0..(MaxHours + 1), Suppress(t, hours)
      PROVE  Agrees(op)' /\ Agrees(req)'
  <2>1. /\ op'.store = "sup" /\ op'.to.types = sup.types \cup {t}
        /\ op'.on = {t} /\ op'.off = {} /\ UNCHANGED req
    BY <1>6 DEF Suppress, Hold
  <2>2. Agrees(op)' BY <1>0, <1>1, <2>1 DEF Agrees, SupAgrees
  <2> QED BY <1>0, <2>1, <2>2, AgreesStays DEF Agreed
<1>7. ASSUME NEW t \in Silenceable, Unsuppress(t) PROVE Agrees(op)' /\ Agrees(req)'
  <2>1. /\ op'.store = "sup" /\ op'.to.types = sup.types \ {t}
        /\ op'.on = {} /\ op'.off = {t} /\ UNCHANGED req
    BY <1>7 DEF Unsuppress, Hold
  <2>2. Agrees(op)' BY <1>0, <1>1, <2>1 DEF Agrees, SupAgrees
  <2> QED BY <1>0, <2>1, <2>2, AgreesStays DEF Agreed
<1>8. ASSUME NEW t \in Silenceable, PortalSuppress(t) PROVE Agrees(op)' /\ Agrees(req)'
  <2>1. [sup EXCEPT !.types = @ \cup {t}] = [types |-> sup.types \cup {t}, ttl |-> sup.ttl]
    BY <1>f, TypesChange
  <2>2. /\ req' = [store |-> "sup", to |-> [sup EXCEPT !.types = @ \cup {t}],
                   on |-> {t}, off |-> {}]
        /\ UNCHANGED op
    BY <1>8 DEF PortalSuppress, Ask
  <2>3. Agrees(req)' BY <1>0, <1>1, <2>1, <2>2 DEF Agrees, SupAgrees
  <2> QED BY <1>0, <2>2, <2>3, AgreesStays DEF Agreed
<1>9. ASSUME NEW t \in Silenceable, PortalUnsuppress(t) PROVE Agrees(op)' /\ Agrees(req)'
  <2>1. [sup EXCEPT !.types = @ \ {t}] = [types |-> sup.types \ {t}, ttl |-> sup.ttl]
    BY <1>f, TypesChange
  <2>2. /\ req' = [store |-> "sup", to |-> [sup EXCEPT !.types = @ \ {t}],
                   on |-> {}, off |-> {t}]
        /\ UNCHANGED op
    BY <1>9 DEF PortalUnsuppress, Ask
  <2>3. Agrees(req)' BY <1>0, <1>1, <2>1, <2>2 DEF Agrees, SupAgrees
  <2> QED BY <1>0, <2>2, <2>3, AgreesStays DEF Agreed
<1>10. ASSUME NEW i \in EntryIds, Rollback(i) PROVE Agrees(op)' /\ Agrees(req)'
  <2>1. roll_back(wl, {i}) = [held |-> wl.held, rolled |-> wl.rolled \cup {i}]
    BY <1>f DEF roll_back, WlFile
  <2>2. /\ req' = [store |-> "wl", to |-> roll_back(wl, {i}), on |-> {}, off |-> {i}]
        /\ UNCHANGED op
    BY <1>10 DEF Rollback, Ask
  <2>3. Agrees(req)' BY <1>0, <1>1, <2>1, <2>2 DEF Agrees, WlAgrees
  <2> QED BY <1>0, <2>2, <2>3, AgreesStays DEF Agreed
<1> QED BY <1>1, <1>3, <1>4, <1>5, <1>6, <1>7, <1>8, <1>9, <1>10 DEF Loads, Agreed

\* After write w the files agree with what was reported, and so does the other write, in hand
\* meanwhile: if it is of the same file, what w reported is unsure.
LEMMA ReplaceAgrees ==
  ASSUME Typed, Agreed, NEW w \in Write, w # None, Sound(w), Agrees(w),
         NEW other, other # None => other \in Write, Agrees(other),
         Replace(w, other), UNCHANGED <<now, entry>>
  PROVE  /\ WlAgrees(wl, {})' /\ SupAgrees(sup.types, {})'
         /\ other # None =>
              /\ other.store = "wl" => \A i \in EntryIds \ (other.on \cup other.off) :
                   /\ settled'[i] = "off" => i \notin other.to.held \ other.to.rolled
                   /\ settled'[i] = "on" => i \in other.to.held \ other.to.rolled \/ Old(i)
              /\ other.store = "sup" => \A t \in Types \ (other.on \cup other.off) :
                   /\ settled'[t] = "off" => t \notin other.to.types
                   /\ settled'[t] = "on" => t \in other.to.types
<1> USE ConstantsAssumption DEF ConstantsAssumption
<1>1. \A i \in EntryIds : Old(i)' <=> Old(i) BY DEF Old, issued
<1>2. \A x \in Items :
        settled'[x] = IF x \notin w.on \cup w.off THEN settled[x]
                      ELSE IF other # None /\ other.store = w.store THEN "unsure"
                      ELSE IF x \in w.on THEN "on" ELSE "off"
  BY DEF Replace
<1>3. EntryIds \subseteq Items /\ Types \subseteq Items BY DEF Items
<1>4. \/ w.store = "wl" /\ w.on \subseteq EntryIds /\ w.off \subseteq EntryIds
      \/ w.store = "sup" /\ w.on \subseteq Types /\ w.off \subseteq Types
  BY DEF Write
<1>5. /\ wl' = (IF w.store = "wl" THEN w.to ELSE wl)
      /\ sup' = (IF w.store = "sup" THEN w.to ELSE sup)
  BY DEF Replace
<1>6. WlAgrees(wl, {})'
  <2>1. ASSUME NEW i \in EntryIds
        PROVE  /\ settled'[i] = "off" => i \notin wl'.held \ wl'.rolled
               /\ settled'[i] = "on" => i \in wl'.held \ wl'.rolled \/ Old(i)
    <3>1. CASE w.store = "wl"
      BY <1>2, <1>3, <1>4, <1>5, <3>1 DEF Agrees, Sound, WlAgrees
    <3>2. CASE w.store = "sup"
      <4>1. settled'[i] = settled[i] /\ wl' = wl BY <1>2, <1>3, <1>4, <1>5, <3>2
      <4> QED BY <4>1 DEF Agreed, WlAgrees
    <3> QED BY <1>4, <3>1, <3>2
  <2> QED BY <1>1, <2>1 DEF WlAgrees
<1>7. SupAgrees(sup.types, {})'
  <2>1. ASSUME NEW t \in Types
        PROVE  /\ settled'[t] = "off" => t \notin sup'.types
               /\ settled'[t] = "on" => t \in sup'.types
    <3>1. CASE w.store = "sup"
      BY <1>2, <1>3, <1>4, <1>5, <3>1 DEF Agrees, Sound, SupAgrees
    <3>2. CASE w.store = "wl"
      <4>1. settled'[t] = settled[t] /\ sup' = sup BY <1>2, <1>3, <1>4, <1>5, <3>2
      <4> QED BY <4>1 DEF Agreed, SupAgrees
    <3> QED BY <1>4, <3>1, <3>2
  <2> QED BY <2>1 DEF SupAgrees
<1>8. ASSUME other # None, other.store = "wl", NEW i \in EntryIds \ (other.on \cup other.off)
      PROVE  /\ settled'[i] = "off" => i \notin other.to.held \ other.to.rolled
             /\ settled'[i] = "on" => i \in other.to.held \ other.to.rolled \/ Old(i)
  <2>1. settled'[i] = settled[i] \/ settled'[i] = "unsure" BY <1>2, <1>3, <1>4, <1>8
  <2> QED BY <1>8, <2>1 DEF Agrees, WlAgrees
<1>9. ASSUME other # None, other.store = "sup", NEW t \in Types \ (other.on \cup other.off)
      PROVE  /\ settled'[t] = "off" => t \notin other.to.types
             /\ settled'[t] = "on" => t \in other.to.types
  <2>1. settled'[t] = settled[t] \/ settled'[t] = "unsure" BY <1>2, <1>3, <1>4, <1>9
  <2> QED BY <1>9, <2>1 DEF Agrees, SupAgrees
<1> QED BY <1>6, <1>7, <1>8, <1>9

LEMMA AgreedStep == ASSUME Typed, Agreed, Next PROVE Agreed'
<1>1. CASE Loads BY <1>1, AgreesLoads
<1>3. CASE Save
  <2>1. /\ op # None /\ op \in Write /\ Sound(op) /\ Agrees(op)
        /\ req # None => req \in Write
        /\ Agrees(req) /\ Replace(op, req) /\ UNCHANGED <<now, entry, req>> /\ op' = None
    BY <1>3 DEF Save, Typed, TypeOK, Agreed, caches
  <2>2. \A i \in EntryIds : Old(i)' <=> Old(i) BY <2>1 DEF Old, issued
  <2>3. /\ WlAgrees(wl, {})' /\ SupAgrees(sup.types, {})'
        /\ req # None =>
             /\ req.store = "wl" => \A i \in EntryIds \ (req.on \cup req.off) :
                  /\ settled'[i] = "off" => i \notin req.to.held \ req.to.rolled
                  /\ settled'[i] = "on" => i \in req.to.held \ req.to.rolled \/ Old(i)
             /\ req.store = "sup" => \A t \in Types \ (req.on \cup req.off) :
                  /\ settled'[t] = "off" => t \notin req.to.types
                  /\ settled'[t] = "on" => t \in req.to.types
    BY <2>1, ReplaceAgrees
  <2>4. Agrees(req)' BY <2>1, <2>2, <2>3 DEF Agrees, WlAgrees, SupAgrees
  <2>5. Agrees(op)' BY <2>1 DEF Agrees
  <2> QED BY <2>3, <2>4, <2>5 DEF Agreed
<1>4. CASE PortalSave
  <2>1. /\ req # None /\ req \in Write /\ Sound(req) /\ Agrees(req)
        /\ op # None => op \in Write
        /\ Agrees(op) /\ Replace(req, op) /\ UNCHANGED <<now, entry, op>> /\ req' = None
    BY <1>4 DEF PortalSave, Typed, TypeOK, Agreed, caches
  <2>2. \A i \in EntryIds : Old(i)' <=> Old(i) BY <2>1 DEF Old, issued
  <2>3. /\ WlAgrees(wl, {})' /\ SupAgrees(sup.types, {})'
        /\ op # None =>
             /\ op.store = "wl" => \A i \in EntryIds \ (op.on \cup op.off) :
                  /\ settled'[i] = "off" => i \notin op.to.held \ op.to.rolled
                  /\ settled'[i] = "on" => i \in op.to.held \ op.to.rolled \/ Old(i)
             /\ op.store = "sup" => \A t \in Types \ (op.on \cup op.off) :
                  /\ settled'[t] = "off" => t \notin op.to.types
                  /\ settled'[t] = "on" => t \in op.to.types
    BY <2>1, ReplaceAgrees
  <2>4. Agrees(op)' BY <2>1, <2>2, <2>3 DEF Agrees, WlAgrees, SupAgrees
  <2>5. Agrees(req)' BY <2>1 DEF Agrees
  <2> QED BY <2>3, <2>4, <2>5 DEF Agreed
<1>5. CASE Drops \/ Tick \/ \E a \in Alerts : Dispatch(a)
  <2>1. /\ UNCHANGED <<settled, wl, sup>> /\ (op' = op \/ op' = None)
        /\ (req' = req \/ req' = None)
    BY <1>5 DEF Drops, Restart, PortalCrash, Tick, Dispatch, files
  <2>2. op' = None => Agrees(op)' BY DEF Agrees
  <2>3. req' = None => Agrees(req)' BY DEF Agrees
  <2> QED BY <2>1, <2>2, <2>3, AgreesStays DEF Agreed
<1> QED BY <1>1, <1>3, <1>4, <1>5 DEF Next, Loads, Drops

(***************************************************************************)
(* The theorems                                                            *)
(***************************************************************************)

\* The inductive invariant: types and pending writes, caps, histories, copies and reports.
THEOREM SafeAlways == Spec => []Safe
<1> USE ConstantsAssumption DEF ConstantsAssumption
<1>1. Init => Safe
  <2> SUFFICES ASSUME Init PROVE Safe OBVIOUS
  <2>1. Typed /\ Capped BY TypedInit
  <2>2. /\ now = 0 /\ \A x \in Items : lastOn[x] = Never /\ lastOff[x] = 0
        /\ InForce(wl, sup, now) = {}
        /\ Never \in Int /\ Never <= 0
    BY DEF Init, InForce, Never
  <2>3. wlCache = {} /\ supCache = {} /\ wlAt = Never /\ supAt = Never /\ op = None /\ req = None
    BY DEF Init
  <2>4. Recorded
    <3> HIDE DEF Never
    <3> QED BY <2>2 DEF Recorded
  <2>5. CachesOK
    <3> HIDE DEF Never
    <3> QED BY <2>2, <2>3 DEF CachesOK, Copied, Items
  <2>6. Agreed BY DEF Init, Agreed, Agrees, WlAgrees, SupAgrees, Items
  <2> QED BY <2>1, <2>4, <2>5, <2>6 DEF Safe
<1>2. Safe /\ [Next]_vars => Safe'
  <2> SUFFICES ASSUME Safe, [Next]_vars PROVE Safe' OBVIOUS
  <2>1. CASE Next
    <3>1. Typed' BY <2>1, TypedStep DEF Safe
    <3> QED BY <2>1, <3>1, CappedStep, HistoryStep, CachesStep, AgreedStep DEF Safe
  <2>2. CASE UNCHANGED vars
    BY <2>2 DEF vars, files, caches, past, Safe, Typed, TypeOK, Sound, Capped, Recorded,
       InForce, CachesOK, Copied, Agreed, Agrees, WlAgrees, SupAgrees, Old, issued
  <2> QED BY <2>1, <2>2
<1> QED BY <1>1, <1>2, PTL DEF Spec

\* Types are correct for every set of addresses, types and entries, every cap and retention.
THEOREM TypeCorrect == Spec => []TypeOK
<1>1. Safe => TypeOK BY DEF Safe, Typed
<1> QED BY <1>1, SafeAlways, PTL

\* In the invariant a copy is as old as its time says, and the last changes of each item are
\* recorded, for the whitelist and for the suppressed types alike.
LEMMA SafeIsFresh == Safe => WhitelistIsFresh /\ SuppressionIsFresh
<1> USE ConstantsAssumption DEF ConstantsAssumption
<1> SUFFICES ASSUME Safe PROVE WhitelistIsFresh /\ SuppressionIsFresh OBVIOUS
<1>1. /\ now \in Nat /\ wlAt \in Int /\ supAt \in Int
      /\ lastOn \in [Items -> Int] /\ lastOff \in [Items -> Int]
      /\ EntryIds \subseteq Items /\ Types \subseteq Items
  BY DEF Safe, Typed, TypeOK, Items
<1>2. active_entries(wl) = InForce(wl, sup, now) \cap EntryIds
  BY DEF Safe, active_entries, InForce, Typed, TypeOK, WlFile, SupFile
<1>3. sup.types = InForce(wl, sup, now) \cap Types
  BY DEF Safe, InForce, Typed, TypeOK, WlFile, SupFile
<1>4. WhitelistIsFresh
  BY <1>1, <1>2 DEF Safe, CachesOK, Copied, Recorded, WhitelistIsFresh, Fresh, WlView, Stale
<1>5. SuppressionIsFresh
  BY <1>1, <1>3 DEF Safe, CachesOK, Copied, Recorded, SuppressionIsFresh, Fresh, SupView, Stale
<1> QED BY <1>4, <1>5

\* The dispatcher drops by a whitelist entry that was in force, and passes by one that was
\* not, at some moment of the last CacheAge.
THEOREM WhitelistCopyIsFresh == Spec => []WhitelistIsFresh
BY SafeIsFresh, SafeAlways, PTL

\* The same of the suppressed types, which have a file and a copy of their own.
THEOREM SuppressionCopyIsFresh == Spec => []SuppressionIsFresh
BY SafeIsFresh, SafeAlways, PTL

\* No alert is dropped by the agent's whitelist later than the cap on the time to live, and
\* the age of a copy, after an entry that covers it was created.
THEOREM WhitelistingIsBounded == Spec => []WhitelistingEnds
<1> USE ConstantsAssumption DEF ConstantsAssumption
<1>1. Safe => WhitelistingEnds
  <2> SUFFICES ASSUME Safe, NEW a \in Alerts, NEW i \in WlView, Matches(i, a)
               PROVE  i \in issued /\ now < entry[i].added + MaxTtl + CacheAge
    BY DEF WhitelistingEnds, WhitelistDrops
  <2>1. now \in Nat /\ wlAt \in Int /\ \A j \in issued : entry[j] \in Entry
    BY DEF Safe, Typed, TypeOK
  <2>2. i \in issued /\ now < entry[i].expires + CacheAge
    <3>1. CASE Stale(wlAt)
      BY <2>1, <3>1 DEF Safe, Typed, WlView, active_entries, Entry
    <3>2. CASE ~Stale(wlAt)
      BY <2>1, <3>2 DEF Safe, Typed, TypeOK, WlView, CachesOK, Stale, Entry
    <3> QED BY <3>1, <3>2
  <2>3. entry[i].expires <= entry[i].added + MaxTtl BY <2>2 DEF Safe, Capped
  <2> QED BY <2>1, <2>2, <2>3 DEF Entry
<1> QED BY <1>1, SafeAlways, PTL

\* What a request reported stays true until a later one changes it, unless the other process
\* had a copy of the file in hand when it was done.
THEOREM ReportsStand == Spec => []OnlyOverlapsLoseUpdates
<1>1. Safe => OnlyOverlapsLoseUpdates
  BY DEF Safe, Agreed, WlAgrees, SupAgrees, Old, OnlyOverlapsLoseUpdates
<1> QED BY <1>1, SafeAlways, PTL
===============================================================================
