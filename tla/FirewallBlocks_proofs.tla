------------------------- MODULE FirewallBlocks_proofs -------------------------
(***************************************************************************)
(* Proofs about FirewallBlocks, for every value of its constants: the      *)
(* strengthening Safe of the safety invariants is inductive.               *)
(***************************************************************************)
EXTENDS FirewallBlocks, FiniteSetTheorems, TLAPS

(***************************************************************************)
(* The inductive invariant                                                 *)
(***************************************************************************)

\* Entry i is over: its removal was asked for, or its time has passed.
Ended(i) == i \in asked \/ entry[i].expires <= now

\* Target t is denied, unless a lift of its rule has been called for.
Denied(t) == t \in rules \/ Released(t)

\* Every copy of the file, saved or loaded, is well formed and holds entries that exist.
Copy(f) == f.rolled \subseteq f.held /\ f.held \subseteq issued
CopiesOK == Copy(file) /\ Copy(snap) /\ Copy(psnap)

\* What each operation is working on, by its next step.
AddOK == pc \in {"ufw_add", "add_load", "add_save"} =>
           target \in Targets /\ ttl \in 1..MaxBlockTime
RemoveOK ==
  /\ pc = "remove_list" => target \in Targets /\ {i \in issued : Covers(target, i)} \subseteq asked
  /\ pc \in {"remove_next", "remove_mark"} => todo \subseteq asked
  /\ pc = "remove_mark" => cur \in asked
ReapOK ==
  /\ pc \in {"reap_next", "reap_load", "reap_mark"} =>
       \A i \in todo : i \in issued /\ entry[i].expires <= now
  /\ pc \in {"reap_load", "reap_mark"} => cur \in issued /\ entry[cur].expires <= now
CursorOK ==
  /\ AddOK /\ RemoveOK /\ ReapOK
  /\ pc = "add_save" => cur \in issued
  /\ ppc = "mark" => pcur \in issued
  /\ ppc = "ufw" => pcur \in asked

\* An entry is marked rolled back in a copy only when it is over.
MarksOK == \A i \in file.rolled \cup snap.rolled \cup psnap.rolled : Ended(i)

\* The target of every entry, and of the entry about to be made, is denied.
DenialsOK ==
  /\ \A i \in issued : Denied(entry[i].target)
  /\ pc = "add_load" => Denied(target)

Safe == TypeOK /\ CopiesOK /\ CursorOK /\ MarksOK /\ DenialsOK

(***************************************************************************)
(* The inductive invariant holds initially and is preserved by every step. *)
(***************************************************************************)

\* No entry exists at the start.
LEMMA SafeInit == ASSUME ConstantsAssumption, Init PROVE Safe
BY DEF ConstantsAssumption, Init, StartIn, EmptyFile, Safe, TypeOK, CopiesOK, Copy, CursorOK,
       AddOK, RemoveOK, ReapOK, MarksOK, DenialsOK, ReaperModes, File, Entry, issued

\* The new entry is the only one that AddLoad changes.
LEMMA NewEntry ==
  ASSUME TypeOK, AddLoad
  PROVE  \E i \in EntryIds \ issued :
           /\ issued' = issued \cup {i} /\ cur' = i
           /\ entry'[i] = [target |-> target, added |-> now, expires |-> now + ttl]
           /\ \A j \in issued : entry'[j] = entry[j]
BY DEF AddLoad, TypeOK, issued

\* ufw has denied its target.
LEMMA AddLoadSafe == ASSUME Safe, AddLoad PROVE Safe'
<1> USE DEF AddLoad, Safe, clockVars, portalVars
<1> PICK i \in EntryIds \ issued :
      /\ issued' = issued \cup {i} /\ cur' = i
      /\ entry'[i] = [target |-> target, added |-> now, expires |-> now + ttl]
      /\ \A j \in issued : entry'[j] = entry[j]
  BY NewEntry
<1>1. TypeOK'
  BY DEF TypeOK, CursorOK, AddOK, CopiesOK, Copy, File, Entry, issued
<1>2. CopiesOK' /\ CursorOK'
  BY DEF CopiesOK, Copy, CursorOK, AddOK, RemoveOK, ReapOK
<1>3. MarksOK'
  BY DEF CopiesOK, Copy, MarksOK, Ended
<1>4. DenialsOK'
  <2>1. Denied(target)
    BY DEF DenialsOK
  <2>2. ASSUME NEW j \in issued' PROVE Denied(entry[j].target)'
    BY <2>1, <2>2 DEF DenialsOK, Denied, Released
  <2> QED BY <2>2 DEF DenialsOK
<1> QED BY <1>1, <1>2, <1>3, <1>4

\* add_temporary_block: what ufw denied is denied until the entry is stored.
LEMMA AddSafe ==
  ASSUME Safe,
         \/ \E t \in Targets, d \in 0..(MaxBlockTime + 1) : CheckBlock(t, d)
         \/ UfwAdd \/ AddLoad \/ AddSave
  PROVE  Safe'
<1> USE DEF Safe, TypeOK, CopiesOK, Copy, CursorOK, AddOK, RemoveOK, ReapOK, MarksOK,
            DenialsOK, Denied, Released, Ended,
            Targets, File, Entry, EmptyFile, issued, clockVars, portalVars
<1>1. ASSUME NEW t \in Targets, NEW d \in 0..(MaxBlockTime + 1), CheckBlock(t, d)
      PROVE  Safe'
  BY <1>1 DEF CheckBlock
<1>2. CASE UfwAdd
  BY <1>2 DEF UfwAdd, UfwSucceeds, UfwFails, Idle
<1>3. CASE AddLoad
  BY <1>3, AddLoadSafe
<1>4. CASE AddSave
  BY <1>4 DEF AddSave, Idle
<1> QED BY <1>1, <1>2, <1>3, <1>4

\* remove_block: whatever it lifts or marks, its removal was asked for.
LEMMA RemoveSafe ==
  ASSUME Safe,
         (\E t \in Targets : RemoveBlock(t)) \/ RemoveList \/ RemoveNext \/ RemoveMark
  PROVE  Safe'
<1> USE DEF Safe, TypeOK, CopiesOK, Copy, CursorOK, AddOK, RemoveOK, ReapOK, MarksOK,
            DenialsOK, Denied, Released, Ended,
            Targets, File, Entry, EmptyFile, issued, clockVars, portalVars
<1>1. ASSUME NEW t \in Targets, RemoveBlock(t) PROVE Safe'
  BY <1>1 DEF RemoveBlock, UfwSucceeds, UfwFails, Covers
<1>2. CASE RemoveList
  BY <1>2 DEF RemoveList, active_entries
<1>3. CASE RemoveNext
  BY <1>3 DEF RemoveNext, Idle
<1>4. CASE RemoveMark
  BY <1>4 DEF RemoveMark, MarkSave, Markable, mark_rolled_back
<1> QED BY <1>1, <1>2, <1>3, <1>4

\* The reaper: whatever it lifts or marks has expired.
LEMMA ReapSafe ==
  ASSUME Safe, ReapList \/ ReapUfw \/ ReapLoad \/ ReapMark \/ ReapDone
  PROVE  Safe'
<1> USE DEF Safe, TypeOK, CopiesOK, Copy, CursorOK, AddOK, RemoveOK, ReapOK, MarksOK,
            DenialsOK, Denied, Released, Ended,
            Targets, File, Entry, EmptyFile, issued, clockVars, portalVars
<1>1. CASE ReapList
  BY <1>1 DEF ReapList, expired_active
<1>2. CASE ReapUfw
  BY <1>2 DEF ReapUfw, UfwSucceeds, UfwFails
<1>3. CASE ReapLoad
  BY <1>3 DEF ReapLoad
<1>4. CASE ReapMark
  BY <1>4 DEF ReapMark, MarkSave, Markable, mark_rolled_back
<1>5. CASE ReapDone
  BY <1>5 DEF ReapDone, Idle
<1> QED BY <1>1, <1>2, <1>3, <1>4, <1>5

\* The retention sweep: it drops entries from the file and marks none.
LEMMA SweepSafe == ASSUME Safe, SweepLoad \/ SweepSave PROVE Safe'
<1> USE DEF Safe, TypeOK, CopiesOK, Copy, CursorOK, AddOK, RemoveOK, ReapOK, MarksOK,
            DenialsOK, Denied, Released, Ended,
            Targets, File, Entry, EmptyFile, issued, clockVars, portalVars
<1>1. CASE SweepLoad
  BY <1>1 DEF SweepLoad, Compactable
<1>2. CASE SweepSave
  BY <1>2 DEF SweepSave, Idle
<1> QED BY <1>1, <1>2

\* The portal: it lifts the rule of an entry only after it has marked it.
LEMMA PortalSafe ==
  ASSUME Safe, (\E i \in issued : UnblockLoad(i)) \/ UnblockMark \/ UnblockUfw \/ PortalCrash
  PROVE  Safe'
<1> USE DEF Safe, issued, clockVars, monitorVars, portalVars
<1>1. ASSUME NEW i \in issued, UnblockLoad(i) PROVE Safe'
  <2> USE <1>1 DEF UnblockLoad
  <2>1. TypeOK'
    BY DEF TypeOK
  <2>2. CopiesOK' /\ CursorOK'
    BY DEF CopiesOK, Copy, CursorOK, AddOK, RemoveOK, ReapOK, Covers
  <2>3. MarksOK'
    BY DEF MarksOK, Ended
  <2>4. DenialsOK'
    BY DEF DenialsOK, Denied, Released
  <2> QED BY <2>1, <2>2, <2>3, <2>4
<1>2. CASE UnblockMark
  <2> USE <1>2 DEF UnblockMark, PortalIdle, Markable, mark_rolled_back, EmptyFile
  <2>1. TypeOK'
    BY DEF TypeOK, CopiesOK, Copy, CursorOK, File
  <2>2. CopiesOK' /\ CursorOK'
    BY DEF TypeOK, File, CopiesOK, Copy, CursorOK, AddOK, RemoveOK, ReapOK, Covers
  <2>3. MarksOK'
    BY DEF TypeOK, File, MarksOK, Ended
  <2>4. DenialsOK'
    BY DEF DenialsOK, Denied, Released
  <2> QED BY <2>1, <2>2, <2>3, <2>4
<1>3. CASE UnblockUfw
  <2> USE <1>3 DEF UnblockUfw, UfwSucceeds, UfwFails, PortalIdle, EmptyFile
  <2>1. TypeOK'
    BY DEF TypeOK, File
  <2>2. CopiesOK' /\ CursorOK'
    BY DEF CopiesOK, Copy, CursorOK, AddOK, RemoveOK, ReapOK, Covers
  <2>3. MarksOK'
    BY DEF MarksOK, Ended
  <2>4. DenialsOK'
    BY DEF TypeOK, CursorOK, DenialsOK, Denied, Released
  <2> QED BY <2>1, <2>2, <2>3, <2>4
<1>4. CASE PortalCrash
  <2> USE <1>4 DEF PortalCrash, PortalIdle, EmptyFile
  <2>1. TypeOK'
    BY DEF TypeOK, File
  <2>2. CopiesOK' /\ CursorOK'
    BY DEF CopiesOK, Copy, CursorOK, AddOK, RemoveOK, ReapOK, Covers
  <2>3. MarksOK'
    BY DEF MarksOK, Ended
  <2>4. DenialsOK'
    BY DEF DenialsOK, Denied, Released
  <2> QED BY <2>1, <2>2, <2>3, <2>4
<1> QED BY <1>1, <1>2, <1>3, <1>4

\* Time, stops and restarts.
LEMMA EnvironmentSafe ==
  ASSUME ConstantsAssumption, Safe, Tick \/ Stop \/ \E m \in Modes : Start(m)
  PROVE  Safe'
<1> USE DEF Safe, issued, clockVars, monitorVars, portalVars
<1>1. CASE Tick
  <2> USE <1>1 DEF Tick, TypeOK
  <2>1. TypeOK'
    OBVIOUS
  <2>2. CopiesOK' /\ CursorOK'
    BY DEF CopiesOK, Copy, CursorOK, AddOK, RemoveOK, ReapOK, Covers, Entry
  <2>3. MarksOK'
    BY DEF CopiesOK, Copy, MarksOK, Ended, Entry
  <2>4. DenialsOK'
    BY DEF DenialsOK, Denied, Released, Entry
  <2> QED BY <2>1, <2>2, <2>3, <2>4
<1>2. CASE Stop
  BY <1>2 DEF Stop, Idle, EmptyFile, File, TypeOK, CopiesOK, Copy, CursorOK, AddOK, RemoveOK,
              ReapOK, MarksOK, Ended, DenialsOK, Denied, Released
<1>3. ASSUME NEW m \in Modes, Start(m) PROVE Safe'
  BY <1>3 DEF Start, StartIn, TypeOK, CopiesOK, Copy, CursorOK, AddOK, RemoveOK,
              ReapOK, MarksOK, Ended, DenialsOK, Denied, Released
<1> QED BY <1>1, <1>2, <1>3

\* A step that changes nothing.
LEMMA StutterSafe == ASSUME Safe, UNCHANGED vars PROVE Safe'
BY DEF vars, clockVars, monitorVars, portalVars, Safe, TypeOK, CopiesOK, Copy, CursorOK,
       AddOK, RemoveOK, ReapOK, MarksOK, Ended, DenialsOK, Denied, Released, Covers, issued

\* Every step of either process keeps the inductive invariant.
LEMMA SafeStep == ASSUME ConstantsAssumption, Safe, [Next]_vars PROVE Safe'
BY AddSafe, RemoveSafe, ReapSafe, SweepSafe, PortalSafe, EnvironmentSafe, StutterSafe
   DEF Next, Continue

\* The inductive invariant holds in every behaviour.
THEOREM SafeAlways == Spec => []Safe
<1>1. ASSUME Init PROVE Safe
  BY <1>1, ConstantsAssumption, SafeInit
<1>2. ASSUME Safe, [Next]_vars PROVE Safe'
  BY <1>2, ConstantsAssumption, SafeStep
<1> QED BY <1>1, <1>2, PTL DEF Spec
(***************************************************************************)
(* The theorems.                                                           *)
(***************************************************************************)

\* Every variable keeps its type, and a mark is only ever on an entry the file holds.
THEOREM TypeCorrect == Spec => []TypeOK
BY SafeAlways, PTL DEF Safe

\* The rule of a block that has not expired stays in ufw until somebody asks for a block of
\* the same target to be removed or one of them expires: whatever the portal interleaves,
\* whatever ufw answers, wherever either process is killed.
THEOREM BlocksStay == Spec => []BlockStays
<1>1. Safe => BlockStays
  BY DEF Safe, DenialsOK, Denied, BlockStays
<1> QED BY <1>1, SafeAlways, PTL

\* No entry is marked rolled back before its time unless its removal was asked for.
THEOREM MarksHaveAReason == Spec => []RolledBackForAReason
<1>1. Safe => RolledBackForAReason
  BY DEF Safe, MarksOK, Ended, RolledBackForAReason
<1> QED BY <1>1, SafeAlways, PTL

(***************************************************************************)
(* FirewallBlocks implements BlockLease.                                   *)
(***************************************************************************)

\* The refinement mapping.
Leases   == {entry[i] : i \in issued}
Recalled == {entry[i] : i \in asked}

\* A released target may be lifted.
LEMMA ReleasedMayLift == ASSUME NEW t, TypeOK, Released(t) PROVE Lease!MayLift(t, Recalled)
BY DEF TypeOK, Released, Recalled, Lease!MayLift

\* Ending the rule of a block that is over is a recall of nothing.
LEMMA LiftIsRecall ==
  ASSUME TypeOK, NEW i \in issued, Ended(i),
         rules' \in {rules, rules \ {entry[i].target}}, UNCHANGED <<now, entry, asked>>
  PROVE  Lease!Next
<1>1. /\ Leases' = Leases /\ Recalled' = Recalled \cup {}
  BY DEF Leases, Recalled, issued
<1>2. Lease!MayLift(entry[i].target, Recalled')
  BY <1>1 DEF TypeOK, Ended, Recalled, Lease!MayLift
<1>3. {} \in SUBSET Leases
  OBVIOUS
<1>4. \E called \in SUBSET Leases : Lease!Recall(called)
  BY <1>1, <1>2, <1>3 DEF Lease!Recall, Leases, Recalled
<1> QED
  BY <1>4 DEF Lease!Next, Leases

\* Every step that concerns the promise is a step of BlockLease.
LEMMA DenyStep == ASSUME Safe, UfwAdd PROVE [Lease!Next]_Lease!leaseVars
<1>1. target \in Targets /\ rules' \in {rules, rules \cup {target}}
  BY DEF Safe, CursorOK, AddOK, UfwAdd, UfwSucceeds, UfwFails
<1>2. /\ UNCHANGED now /\ Leases' = Leases /\ Recalled' = Recalled
  BY DEF UfwAdd, clockVars, Leases, Recalled, issued
<1> QED
  BY <1>1, <1>2 DEF Leases, Recalled, Lease!Next, Lease!Deny, Lease!leaseVars

\* A new entry is a grant: its target was denied when the rule went in.
LEMMA GrantStep == ASSUME Safe, AddLoad PROVE Lease!Next
<1> DEFINE l == [target |-> target, added |-> now, expires |-> now + ttl]
<1>1. target \in Targets /\ ttl \in 1..MaxBlockTime
  BY DEF AddLoad, Safe, CursorOK, AddOK
<1>2. target \in rules \/ Lease!MayLift(target, Recalled)
  BY ReleasedMayLift DEF AddLoad, Safe, DenialsOK, Denied
<1>3. Leases' = Leases \cup {l} /\ Recalled' = Recalled
  <2>1. TypeOK
    BY DEF Safe
  <2> PICK i \in EntryIds \ issued :
        /\ issued' = issued \cup {i}
        /\ entry'[i] = l
        /\ \A j \in issued : entry'[j] = entry[j]
    BY <2>1, NewEntry
  <2>2. Leases' = Leases \cup {l}
    BY DEF Leases
  <2>3. Recalled' = Recalled
    <3>1. asked' = asked /\ asked \subseteq issued
      BY <2>1 DEF AddLoad, TypeOK
    <3> QED BY <3>1 DEF Recalled
  <2> QED BY <2>2, <2>3
<1>4. UNCHANGED <<now, rules>>
  BY DEF AddLoad, clockVars
<1> QED
  BY <1>1, <1>2, <1>3, <1>4 DEF Lease!Next, Lease!Grant, Leases, Recalled

\* remove_block, the reaper and an unblock recall.
LEMMA RecallStep ==
  ASSUME Safe, NEW t \in Targets, RemoveBlock(t) PROVE Lease!Next
<1> DEFINE released == {i \in issued : Covers(t, i)}
           ended    == {entry[i] : i \in released}
<1>1. /\ UNCHANGED now /\ Leases' = Leases /\ Recalled' = Recalled \cup ended
  BY DEF RemoveBlock, clockVars, Leases, Recalled, issued
<1>2. ended \in SUBSET Leases
  BY DEF Leases
<1>3. rules' = rules \/ (t \in rules /\ rules' = rules \ {t})
  BY DEF RemoveBlock, UfwSucceeds, UfwFails
<1>4. Lease!MayLift(t, Recalled') \/ \A l \in Leases : l.target # t
  <2> SUFFICES ASSUME NEW i \in issued, entry[i].target = t PROVE Lease!MayLift(t, Recalled')
    BY DEF Leases
  <2>1. entry[i] \in ended
    BY DEF Covers
  <2> QED BY <1>1, <2>1 DEF Lease!MayLift
<1>5. \E called \in SUBSET Leases : Lease!Recall(called)
  BY <1>1, <1>2, <1>3, <1>4 DEF Lease!Recall, Leases, Recalled
<1> QED
  BY <1>5 DEF Lease!Next, Leases
\* Nothing the promise is about changes.
LEMMA SilentStep ==
  ASSUME UNCHANGED <<now, rules, entry, asked>> PROVE UNCHANGED Lease!leaseVars
BY DEF Lease!leaseVars, issued

\* So every step is a step of BlockLease or changes nothing it speaks of.
LEMMA LeaseStep ==
  ASSUME ConstantsAssumption, Safe, Next PROVE [Lease!Next]_Lease!leaseVars
<1> DEFINE Implemented == [Lease!Next]_Lease!leaseVars
<1>1. ASSUME NEW t \in Targets, NEW d \in 0..(MaxBlockTime + 1), CheckBlock(t, d)
      PROVE  Implemented
  BY <1>1, SilentStep DEF CheckBlock, clockVars
<1>2. ASSUME NEW t \in Targets, RemoveBlock(t) PROVE Implemented
  BY <1>2, RecallStep
<1>3. CASE UfwAdd
  BY <1>3, DenyStep
<1>4. CASE AddLoad
  BY <1>4, GrantStep
<1>5. CASE AddSave \/ RemoveList \/ RemoveNext \/ SweepSave \/ SweepLoad
  BY <1>5, SilentStep DEF AddSave, RemoveList, RemoveNext, SweepSave, SweepLoad, clockVars
<1>6. CASE RemoveMark \/ ReapMark \/ ReapList \/ ReapLoad \/ ReapDone
  BY <1>6, SilentStep DEF RemoveMark, ReapMark, MarkSave, ReapList, ReapLoad, ReapDone, clockVars
<1>7. CASE ReapUfw
  <2> PICK i \in todo : /\ rules' \in {rules, rules \ {entry[i].target}}
    BY <1>7 DEF ReapUfw, UfwSucceeds, UfwFails
  <2>1. i \in issued /\ Ended(i)
    BY <1>7 DEF ReapUfw, Safe, CursorOK, ReapOK, Ended
  <2>2. UNCHANGED <<now, entry, asked>>
    BY <1>7 DEF ReapUfw, clockVars
  <2> QED BY <2>1, <2>2, LiftIsRecall DEF Safe
<1>8. CASE UnblockUfw
  <2>1. pcur \in issued /\ Ended(pcur)
    BY <1>8 DEF UnblockUfw, Safe, TypeOK, CursorOK, Ended
  <2>2. rules' \in {rules, rules \ {entry[pcur].target}}
    BY <1>8 DEF UnblockUfw, UfwSucceeds, UfwFails
  <2>3. UNCHANGED <<now, entry, asked>>
    BY <1>8 DEF UnblockUfw, clockVars
  <2> QED BY <2>1, <2>2, <2>3, LiftIsRecall DEF Safe
<1>9. CASE UnblockMark
  <2>1. UNCHANGED <<now, rules, entry>>
    BY <1>9 DEF UnblockMark, clockVars
  <2>2. CASE UNCHANGED asked
    BY <2>1, <2>2, SilentStep
  <2>3. CASE asked' = asked \cup {pcur}
    <3>1. pcur \in issued
      BY <1>9 DEF UnblockMark, Safe, CursorOK
    <3>2. /\ Leases' = Leases /\ Recalled' = Recalled \cup {entry[pcur]}
          /\ {entry[pcur]} \in SUBSET Leases
      BY <2>1, <2>3, <3>1 DEF Leases, Recalled, issued
    <3>3. \E called \in SUBSET Leases : Lease!Recall(called)
      BY <2>1, <3>2 DEF Lease!Recall, Leases, Recalled
    <3> QED BY <3>3 DEF Lease!Next, Leases
  <2> QED BY <1>9, <2>2, <2>3 DEF UnblockMark
<1>10. ASSUME NEW i \in issued, UnblockLoad(i) PROVE Implemented
  BY <1>10, SilentStep DEF UnblockLoad, clockVars
<1>11. CASE PortalCrash \/ Stop \/ \E m \in Modes : Start(m)
  BY <1>11, SilentStep DEF PortalCrash, Stop, Start, clockVars
<1>12. CASE Tick
  BY <1>12 DEF Tick, issued, Lease!Next, Lease!Advance
<1> QED
  BY <1>1, <1>2, <1>3, <1>4, <1>5, <1>6, <1>7, <1>8, <1>9, <1>10, <1>11, <1>12
     DEF Next, Continue

\* The files, the processes, their crashes and the failures of ufw implement leases: a
\* target is denied before a block of it is recorded, for at most the longest term, and is
\* let in again only when a block of it was recalled or is over.
THEOREM ImplementsLease == Spec => LeaseSpec
<1>1. ASSUME Init PROVE Lease!Init
  BY <1>1 DEF Init, Lease!Init, issued
<1>2. ASSUME Safe, [Next]_vars PROVE [Lease!Next]_Lease!leaseVars
  <2>1. CASE Next
    BY <1>2, <2>1, ConstantsAssumption, LeaseStep
  <2>2. CASE UNCHANGED vars
    BY <2>2, SilentStep DEF vars, clockVars
  <2> QED BY <1>2, <2>1, <2>2
<1> QED
  BY <1>1, <1>2, SafeAlways, PTL DEF Spec, LeaseSpec, Lease!Spec

(***************************************************************************)
(* The monitor without a portal.  Nobody else writes the file, so what an  *)
(* operation has loaded is what it replaces, and the reaper's passes can   *)
(* be counted on: no entry the file holds as active is more than one clock *)
(* value past its expiry.                                                  *)
(***************************************************************************)

\* The entries the file holds and has not marked.
Standing == file.held \ file.rolled

AtAdd  == pc \in {"ufw_add", "add_load", "add_save"}
AtReap == pc \in {"reap_next", "reap_load", "reap_mark"}

\* A loaded copy is the file as it stands, and the sweep drops what is settled and old.
OwnFile ==
  /\ ppc = "idle"
  /\ pc \in {"add_save", "remove_mark", "reap_mark", "sweep_save"} => snap = file
  /\ pc = "sweep_save" => \A i \in todo : /\ i \in file.held
                                          /\ i \in file.rolled \/ entry[i].expires <= now
                                          /\ entry[i].added < now - Retention

\* Room was left for the entry that is being added.
RoomOK ==
  /\ Cardinality(active_entries(file)) <= MaxActiveBlocks
  /\ AtAdd => Cardinality(active_entries(file)) < MaxActiveBlocks

\* i is on the reaper's list, or not past its expiry; after a pass, not even at it.
Timely(i) == \/ AtReap /\ i \in todo
             \/ entry[i].expires >= now /\ (pass = "done" => entry[i].expires > now)

PassOK ==
  /\ AtAdd => mode = "live"
  /\ AtReap => mode \in ReaperModes /\ todo \subseteq Standing
  /\ pc \in {"reap_load", "reap_mark"} => cur \in todo
  /\ pass = "begun" => AtReap /\ \A i \in Standing : entry[i].expires <= now => i \in todo
  /\ mode \in ReaperModes /\ pc # "reap_first" => \A i \in Standing : Timely(i)
  /\ pc = "add_save" => cur \notin file.held /\ Timely(cur)

\* Entry i has lost its rule to another one of its target, which expired while i lasted.
Overlapped(i) == \E j \in issued \ {i} : /\ entry[j].target = entry[i].target
                                         /\ entry[j].expires \in entry[i].added .. now

OverlapOK ==
  /\ \A i \in issued : entry[i].added <= now
  /\ \A i \in Standing, j \in issued : entry[j].added <= entry[i].expires
  /\ pc = "add_load" => target \in rules
  /\ \A i \in issued \ asked : entry[i].expires > now => entry[i].target \in rules \/ Overlapped(i)

Alone == Safe /\ OwnFile /\ RoomOK /\ PassOK /\ OverlapOK

\* Every rule belongs to an entry that stands, or is being added, or to an address of which
\* a removal was asked for.
OwnedRules ==
  \A t \in rules :
    \/ \E i \in asked : entry[i].target.ip = t.ip
    \/ \E i \in Standing : entry[i].target = t /\ (pc \in {"reap_load", "reap_mark"} => i # cur)
    \/ pc = "add_load" /\ target = t
    \/ pc = "add_save" /\ entry[cur].target = t

RulesOK ==
  /\ OwnedRules
  /\ \A i \in issued : entry[i].expires <= entry[i].added + MaxBlockTime
  /\ pc = "sweep_save" => todo \subseteq file.rolled

\* The actions of the monitor and of the clock: without a portal there are no others.
LEMMA NextAlone ==
  ASSUME Portal = FALSE, OwnFile, [Next]_vars
  PROVE  \/ \E t \in Targets, d \in 0..(MaxBlockTime + 1) : CheckBlock(t, d)
         \/ \E t \in Targets : RemoveBlock(t)
         \/ UfwAdd \/ AddLoad \/ AddSave
         \/ RemoveList \/ RemoveNext \/ RemoveMark
         \/ ReapList \/ ReapUfw \/ ReapLoad \/ ReapMark \/ ReapDone
         \/ SweepLoad \/ SweepSave \/ Tick \/ Stop \/ (\E m \in Modes : Start(m))
         \/ UNCHANGED vars
BY DEF OwnFile, Next, Continue, UnblockLoad, UnblockMark, UnblockUfw, PortalCrash

\* No step changes an entry or sets the clock back.
LEMMA EntriesStay ==
  ASSUME Safe, [Next]_vars
  PROVE  /\ issued \subseteq issued' /\ \A i \in issued : entry'[i] = entry[i]
         /\ now' \in {now, now + 1} /\ now \in Nat /\ asked \subseteq asked'
<1>1. now \in Nat /\ TypeOK
  BY DEF Safe, TypeOK
<1>2. CASE AddLoad
  <2>1. now' = now /\ asked' = asked
    BY <1>2 DEF AddLoad, clockVars
  <2> QED BY <1>1, <1>2, <2>1, NewEntry
<1>3. CASE Next /\ ~AddLoad
  <2>1. entry' = entry
    BY <1>3 DEF Next, Continue, CheckBlock, RemoveBlock, UfwAdd, AddSave, RemoveList, RemoveNext,
           RemoveMark, ReapMark, MarkSave, ReapList, ReapUfw, ReapLoad, ReapDone, SweepLoad,
           SweepSave, UnblockLoad, UnblockMark, UnblockUfw, PortalCrash, Tick, Stop, Start
  <2>2. now' \in {now, now + 1}
    BY <1>3 DEF Next, Continue, CheckBlock, RemoveBlock, UfwAdd, AddSave, RemoveList, RemoveNext,
           RemoveMark, ReapMark, MarkSave, ReapList, ReapUfw, ReapLoad, ReapDone, SweepLoad,
           SweepSave, UnblockLoad, UnblockMark, UnblockUfw, PortalCrash, Tick, Stop, Start, clockVars
  <2>3. asked \subseteq asked'
    BY <1>3 DEF Next, Continue, CheckBlock, RemoveBlock, UfwAdd, AddSave, RemoveList, RemoveNext,
           RemoveMark, ReapMark, MarkSave, ReapList, ReapUfw, ReapLoad, ReapDone, SweepLoad,
           SweepSave, UnblockLoad, UnblockMark, UnblockUfw, PortalCrash, Tick, Stop, Start
  <2> QED BY <1>1, <2>1, <2>2, <2>3 DEF issued
<1>4. CASE UNCHANGED vars
  BY <1>1, <1>4 DEF vars, clockVars, issued
<1> QED BY <1>2, <1>3, <1>4

\* Only AddSave makes an entry stand: every other step writes the file with less in it, or
\* not at all.
LEMMA StandingShrinks ==
  ASSUME Portal = FALSE, Safe, OwnFile, [Next]_vars, ~AddSave
  PROVE  Standing' \subseteq Standing /\ file'.held \subseteq file.held
<1>1. CASE UNCHANGED file
  BY <1>1 DEF Standing
<1>2. CASE RemoveMark \/ ReapMark
  BY <1>2 DEF RemoveMark, ReapMark, MarkSave, mark_rolled_back, Markable, OwnFile, Standing,
              Safe, TypeOK, File
<1>3. CASE SweepSave
  BY <1>3 DEF SweepSave, OwnFile, Standing
<1> QED
  BY <1>1, <1>2, <1>3, NextAlone
     DEF CheckBlock, RemoveBlock, UfwAdd, AddLoad, RemoveList, RemoveNext, ReapList, ReapUfw,
         ReapLoad, ReapDone, SweepLoad, Tick, Stop, Start, vars

\* What is loaded is what the file still holds when it is replaced.
LEMMA OwnFileStep ==
  ASSUME Portal = FALSE, Safe, OwnFile, [Next]_vars
  PROVE  OwnFile'
<1>1. ppc' = "idle"
  BY NextAlone
     DEF OwnFile, CheckBlock, RemoveBlock, UfwAdd, AddLoad, AddSave, RemoveList, RemoveNext,
         RemoveMark, ReapMark, MarkSave, ReapList, ReapUfw, ReapLoad, ReapDone, SweepLoad,
         SweepSave, Tick, Stop, Start, vars, portalVars
<1>2. pc' \in {"add_save", "remove_mark", "reap_mark", "sweep_save"} => snap' = file'
  <2>1. CASE AddLoad \/ RemoveNext \/ ReapLoad \/ SweepLoad
    BY <2>1 DEF AddLoad, RemoveNext, Idle, ReapLoad, SweepLoad
  <2>2. CASE Tick \/ UNCHANGED vars
    BY <2>2 DEF OwnFile, Tick, vars, monitorVars
  <2>3. CASE UfwAdd \/ AddSave \/ SweepSave \/ ReapDone \/ Stop
    BY <2>3 DEF UfwAdd, AddSave, SweepSave, ReapDone, Stop, Idle
  <2> QED
    BY <2>1, <2>2, <2>3, NextAlone
       DEF CheckBlock, RemoveBlock, RemoveList, RemoveMark, ReapMark, MarkSave, ReapList, ReapUfw,
           Start, StartIn
<1>3. ASSUME pc' = "sweep_save", NEW i \in todo'
      PROVE  /\ i \in file'.held
             /\ i \in file'.rolled \/ entry'[i].expires <= now'
             /\ entry'[i].added < now' - Retention
  <2>1. CASE SweepLoad
    BY <1>3, <2>1 DEF SweepLoad, Compactable, clockVars
  <2>2. CASE Tick
    <3>1. /\ i \in file.held /\ i \in issued
          /\ i \in file.rolled \/ entry[i].expires <= now
          /\ entry[i].added < now - Retention
      BY <1>3, <2>2 DEF Tick, monitorVars, OwnFile, Safe, CopiesOK, Copy
    <3>2. entry[i].added \in Nat /\ entry[i].expires \in Nat /\ now \in Nat
      BY <3>1 DEF Safe, TypeOK, Entry
    <3> QED BY <2>2, <3>1, <3>2, ConstantsAssumption DEF Tick, ConstantsAssumption
  <2>3. CASE UNCHANGED vars
    BY <1>3, <2>3 DEF vars, clockVars, monitorVars, OwnFile
  <2> QED
    BY <1>3, <2>1, <2>2, <2>3, NextAlone
       DEF CheckBlock, RemoveBlock, UfwAdd, AddLoad, AddSave, RemoveList, RemoveNext,
           RemoveMark, ReapMark, MarkSave, ReapList, ReapUfw, ReapLoad, ReapDone,
           SweepSave, Stop, Start, StartIn, Idle
<1> QED BY <1>1, <1>2, <1>3 DEF OwnFile

\* The entries that count against the ceiling.
LEMMA ActiveIs ==
  /\ active_entries(file) = {i \in Standing : entry[i].expires > now}
  /\ Safe => active_entries(file) \subseteq EntryIds /\ IsFiniteSet(active_entries(file))
             /\ Cardinality(active_entries(file)) \in Nat
<1>1. active_entries(file) = {i \in Standing : entry[i].expires > now}
  BY DEF active_entries, Standing
<1>2. Safe => Standing \subseteq EntryIds
  BY DEF Safe, TypeOK, File, Standing
<1> QED BY <1>1, <1>2, ConstantsAssumption, FS_Subset, FS_CardinalityType DEF ConstantsAssumption

\* The room check_block leaves lasts until the entry is stored.
LEMMA RoomStep ==
  ASSUME Portal = FALSE, Safe, OwnFile, RoomOK, [Next]_vars
  PROVE  RoomOK'
<1> DEFINE A == active_entries(file)
           B == {i \in Standing' : entry'[i].expires > now'}
<1>1. A = {i \in Standing : entry[i].expires > now} /\ IsFiniteSet(A) /\ Cardinality(A) \in Nat
  BY ActiveIs
<1>2. active_entries(file)' = B
  BY DEF active_entries, Standing
<1>3. /\ Standing \subseteq issued
      /\ \A i \in issued : entry'[i] = entry[i] /\ entry[i].expires \in Nat
      /\ now' \in {now, now + 1} /\ now \in Nat
  BY EntriesStay DEF Standing, Safe, CopiesOK, Copy, TypeOK, Entry
<1>4. MaxActiveBlocks \in Nat
  BY ConstantsAssumption DEF ConstantsAssumption
<1>5. Cardinality(A) <= MaxActiveBlocks /\ (AtAdd => Cardinality(A) < MaxActiveBlocks)
  BY DEF RoomOK
<1>6. CASE AddSave
  <2>1. Standing' \subseteq Standing \cup {cur} /\ AtAdd /\ ~AtAdd' /\ now' = now /\ cur \in issued
    BY <1>6 DEF AddSave, OwnFile, Standing, AtAdd, Idle, Safe, CursorOK, TypeOK, File, clockVars
  <2>2. B \subseteq A \cup {cur}
    BY <1>1, <1>3, <2>1
  <2>3. Cardinality(A \cup {cur}) <= Cardinality(A) + 1 /\ IsFiniteSet(A \cup {cur})
    BY <1>1, FS_AddElement
  <2>4. Cardinality(B) <= Cardinality(A \cup {cur}) /\ IsFiniteSet(B)
        /\ Cardinality(B) \in Nat /\ Cardinality(A \cup {cur}) \in Nat
    BY <2>2, <2>3, FS_Subset, FS_CardinalityType
  <2> HIDE DEF A, B
  <2>5. Cardinality(B) <= MaxActiveBlocks
    BY <1>1, <1>4, <1>5, <2>1, <2>3, <2>4
  <2> QED BY <1>2, <2>1, <2>5 DEF RoomOK
<1>7. CASE ~AddSave
  <2>1. Standing' \subseteq Standing
    BY <1>7, StandingShrinks
  <2>2. B \subseteq A
    BY <1>1, <1>3, <2>1
  <2>3. Cardinality(B) <= Cardinality(A) /\ IsFiniteSet(B) /\ Cardinality(B) \in Nat
    BY <1>1, <2>2, FS_Subset, FS_CardinalityType
  <2>4. AtAdd' => AtAdd \/ Cardinality(A) < MaxActiveBlocks
    BY <1>7, NextAlone
       DEF CheckBlock, RemoveBlock, UfwAdd, AddLoad, RemoveList, RemoveNext, RemoveMark, ReapMark,
           MarkSave, ReapList, ReapUfw, ReapLoad, ReapDone, SweepLoad, SweepSave, Tick, Stop,
           Start, StartIn, Idle, vars, monitorVars, AtAdd
  <2> HIDE DEF A, B
  <2>5. Cardinality(B) <= MaxActiveBlocks /\ (AtAdd' => Cardinality(B) < MaxActiveBlocks)
    BY <1>1, <1>4, <1>5, <2>3, <2>4
  <2> QED BY <1>2, <2>5 DEF RoomOK
<1> QED BY <1>6, <1>7

LEMMA StandingTyped ==
  ASSUME Safe
  PROVE  /\ Standing \subseteq issued /\ now \in Nat
         /\ \A i \in issued : entry[i].expires \in Nat /\ entry[i].added \in Nat
BY DEF Standing, Safe, CopiesOK, Copy, TypeOK, Entry

\* Outside the reaper: entries stay timely while the clock stands, and a new one is.
LEMMA PassAddRemoveSweep ==
  ASSUME Portal = FALSE, Safe, OwnFile, PassOK, [Next]_vars,
         \/ \E t \in Targets, d \in 0..(MaxBlockTime + 1) : CheckBlock(t, d)
         \/ \E t \in Targets : RemoveBlock(t)
         \/ UfwAdd \/ AddLoad \/ AddSave
         \/ RemoveList \/ RemoveNext \/ RemoveMark
         \/ SweepLoad \/ SweepSave
  PROVE  PassOK'
<1>1. /\ UNCHANGED clockVars /\ ~AtReap /\ ~AtReap' /\ pc # "reap_first" /\ pc' # "reap_first"
      /\ AtAdd' => AtAdd \/ mode = "live"
      /\ pc' \notin {"reap_load", "reap_mark"}
  BY DEF AtReap, AtAdd, CheckBlock, RemoveBlock, UfwAdd, AddLoad, AddSave, RemoveList, RemoveNext,
         RemoveMark, MarkSave, SweepLoad, SweepSave, Idle, ExecutorModes
<1>2. UNCHANGED <<now, mode, pass>> /\ pass # "begun"
  BY <1>1 DEF clockVars, PassOK
<1>3. /\ \A i \in issued : entry'[i] = entry[i]
      /\ Standing \subseteq issued /\ now \in Nat
  BY EntriesStay, StandingTyped
<1>4. \A i \in issued : Timely(i) => /\ entry'[i].expires >= now'
                                     /\ pass' = "done" => entry'[i].expires > now'
  BY <1>1, <1>2, <1>3 DEF Timely
<1>5. mode' \in ReaperModes /\ pc' # "reap_first" => \A i \in Standing' : Timely(i)'
  <2>1. CASE AddSave
    <3>1. Standing' \subseteq Standing \cup {cur} /\ cur \in issued /\ Timely(cur)
      BY <2>1 DEF AddSave, OwnFile, Standing, Safe, CursorOK, TypeOK, File, PassOK
    <3> QED BY <1>1, <1>2, <1>3, <1>4, <3>1 DEF PassOK, Timely
  <2>2. CASE ~AddSave
    <3>1. Standing' \subseteq Standing
      BY <2>2, StandingShrinks
    <3> QED BY <1>1, <1>2, <1>3, <1>4, <3>1 DEF PassOK, Timely
  <2> QED BY <2>1, <2>2
<1>6. pc' = "add_save" => cur' \notin file'.held /\ Timely(cur)'
  <2>1. pc' = "add_save" => AddLoad
    BY <1>1 DEF CheckBlock, RemoveBlock, UfwAdd, AddSave, RemoveList, RemoveNext,
           RemoveMark, MarkSave, SweepLoad, SweepSave, Idle
  <2>2. CASE AddLoad
    <3>1. ttl \in 1 .. MaxBlockTime /\ file' = file /\ file.held \subseteq issued /\ TypeOK
      BY <2>2 DEF AddLoad, Safe, CursorOK, AddOK, CopiesOK, Copy
    <3>2. PICK i \in EntryIds \ issued :
            cur' = i /\ entry'[i] = [target |-> target, added |-> now, expires |-> now + ttl]
      BY <2>2, <3>1, NewEntry
    <3>3. entry'[cur'].expires = now + ttl /\ now + ttl > now
      BY <1>3, <3>1, <3>2, ConstantsAssumption DEF ConstantsAssumption
    <3> QED BY <1>2, <1>3, <3>1, <3>2, <3>3 DEF Timely
  <2> QED BY <2>1, <2>2
<1>7. AtAdd' => mode' = "live"
  BY <1>1, <1>2 DEF PassOK
<1> QED BY <1>1, <1>2, <1>5, <1>6, <1>7 DEF PassOK

\* A pass of the reaper lists all that has expired, and leaves none of it when it is done.
LEMMA PassReap ==
  ASSUME Portal = FALSE, Safe, OwnFile, PassOK, [Next]_vars,
         ReapList \/ ReapUfw \/ ReapLoad \/ ReapMark \/ ReapDone
  PROVE  PassOK'
<1>1. /\ UNCHANGED <<now, mode, entry>> /\ ~AtAdd' /\ pc' # "reap_first" /\ pc' # "add_save"
  BY DEF AtAdd, ReapList, ReapUfw, ReapLoad, ReapMark, MarkSave, ReapDone, Idle, clockVars
<1>2. Standing \subseteq issued /\ now \in Nat /\ \A i \in issued : entry[i].expires \in Nat
  BY StandingTyped
<1>3. CASE ReapList
  <2>1. /\ AtReap' /\ pc' = "reap_next" /\ mode \in ReaperModes /\ file' = file
        /\ todo' = {i \in Standing : entry[i].expires <= now}
        /\ pass' = IF pass = "due" THEN "begun" ELSE pass
    BY <1>3 DEF ReapList, AtReap, expired_active, Standing
  <2>2. Standing' = Standing /\ todo' \subseteq Standing
    BY <2>1 DEF Standing
  <2>3. \A i \in Standing : entry[i].expires <= now => i \in todo'
    BY <2>1
  <2>4. \A i \in Standing : Timely(i)'
    BY <1>1, <1>2, <2>1, <2>3 DEF Timely
  <2> QED BY <1>1, <2>1, <2>2, <2>3, <2>4 DEF PassOK
<1>4. CASE ReapUfw \/ ReapLoad
  <2>1. /\ AtReap /\ AtReap' /\ UNCHANGED <<todo, file, pass>>
        /\ cur' \in todo
    BY <1>4 DEF ReapUfw, ReapLoad, AtReap, clockVars, PassOK
  <2>2. Standing' = Standing
    BY <2>1 DEF Standing
  <2>3. mode \in ReaperModes /\ pc # "reap_first"
    BY <2>1 DEF PassOK, AtReap
  <2>4. \A i \in Standing : Timely(i) => Timely(i)'
    BY <1>1, <2>1 DEF Timely
  <2> QED BY <1>1, <2>1, <2>2, <2>3, <2>4 DEF PassOK
<1>5. CASE ReapMark
  <2>1. /\ AtReap /\ AtReap' /\ pc' = "reap_next" /\ pass' = pass /\ todo' = todo \ {cur}
        /\ cur \in todo /\ todo \subseteq Standing /\ mode \in ReaperModes /\ pc # "reap_first"
    BY <1>5 DEF ReapMark, MarkSave, AtReap, clockVars, PassOK
  <2>2. Standing' = Standing \ {cur}
    BY <1>5, <2>1 DEF ReapMark, MarkSave, Markable, mark_rolled_back, OwnFile, Standing, Safe, TypeOK, File
  <2>3. \A i \in Standing' : Timely(i) => Timely(i)'
    BY <1>1, <2>1, <2>2 DEF Timely
  <2> QED BY <1>1, <2>1, <2>2, <2>3 DEF PassOK
<1>6. CASE ReapDone
  <2>1. /\ AtReap /\ ~AtReap' /\ todo = {} /\ pass' = (IF pass = "begun" THEN "done" ELSE pass)
        /\ pc' = "idle" /\ file' = file /\ mode \in ReaperModes /\ pc # "reap_first"
    BY <1>6 DEF ReapDone, Idle, AtReap, PassOK
  <2>2. Standing' = Standing
    BY <2>1 DEF Standing
  <2>3. ASSUME NEW i \in Standing PROVE Timely(i)'
    <3>1. entry[i].expires >= now /\ (pass = "done" => entry[i].expires > now)
      BY <2>1 DEF PassOK, Timely
    <3>2. pass = "begun" => entry[i].expires > now
      BY <1>2, <2>1 DEF PassOK
    <3> QED BY <1>1, <2>1, <3>1, <3>2 DEF Timely
  <2>4. pass' # "begun"
    BY <2>1
  <2> QED BY <1>1, <2>1, <2>2, <2>3, <2>4 DEF PassOK
<1> QED BY <1>3, <1>4, <1>5, <1>6

\* The clock moves on only after a pass, and a monitor that starts begins with one.
LEMMA PassStep ==
  ASSUME Portal = FALSE, Safe, OwnFile, PassOK, [Next]_vars
  PROVE  PassOK'
<1>1. Standing \subseteq issued /\ now \in Nat /\ \A i \in issued : entry[i].expires \in Nat
  BY StandingTyped
<1>2. CASE Tick
  <2>1. /\ UNCHANGED <<mode, pc, cur, todo, file, entry>> /\ now' = now + 1 /\ pass' = "due"
        /\ mode \in ReaperModes => pass = "done"
    BY <1>2 DEF Tick, monitorVars
  <2>2. Standing' = Standing /\ AtReap' = AtReap /\ AtAdd' = AtAdd
    BY <2>1 DEF Standing, AtReap, AtAdd
  <2>3. pc = "add_save" => cur \in issued /\ mode \in ReaperModes
    BY DEF Safe, CursorOK, PassOK, AtAdd, ReaperModes
  <2>4. \A i \in issued : mode \in ReaperModes /\ Timely(i) => Timely(i)'
    BY <1>1, <2>1, <2>2 DEF Timely
  <2>5. /\ AtAdd' => mode' = "live"
        /\ AtReap' => mode' \in ReaperModes /\ todo' \subseteq Standing'
        /\ pc' \in {"reap_load", "reap_mark"} => cur' \in todo'
    BY <2>1, <2>2 DEF PassOK
  <2>6. mode' \in ReaperModes /\ pc' # "reap_first" => \A i \in Standing' : Timely(i)'
    BY <1>1, <2>1, <2>2, <2>4 DEF PassOK
  <2>7. pc' = "add_save" => cur' \notin file'.held /\ Timely(cur)'
    <3>1. ASSUME pc = "add_save" PROVE Timely(cur)'
      <4>1. Timely(cur) /\ cur \in issued /\ mode \in ReaperModes /\ ~AtReap
        BY <2>3, <3>1 DEF PassOK, AtReap
      <4> QED BY <1>1, <2>1, <4>1 DEF Timely
    <3> QED BY <2>1, <3>1 DEF PassOK
  <2> QED BY <2>1, <2>5, <2>6, <2>7 DEF PassOK
<1>3. CASE Stop
  BY <1>3 DEF Stop, Idle, PassOK, AtAdd, AtReap, ReaperModes
<1>4. CASE \E m \in Modes : Start(m)
  <2>1. PICK m \in Modes : Start(m)
    BY <1>4
  <2>2. /\ mode = "down" /\ mode' = m /\ pc' \in {"reap_first", "idle"} /\ pass' = pass
        /\ m \in ReaperModes => pc' = "reap_first"
    BY <2>1 DEF Start, StartIn
  <2>3. pass # "begun"
    BY <2>2 DEF PassOK, ReaperModes
  <2> QED BY <2>2, <2>3 DEF PassOK, AtAdd, AtReap
<1>5. CASE UNCHANGED vars
  BY <1>5 DEF vars, clockVars, monitorVars, PassOK, AtAdd, AtReap, Standing, Timely
<1> QED BY <1>2, <1>3, <1>4, <1>5, PassAddRemoveSweep, PassReap, NextAlone

\* The rules that a step lifts.
LEMMA LiftsAlone ==
  ASSUME Portal = FALSE, Safe, OwnFile, PassOK, [Next]_vars
  PROVE  \/ rules \subseteq rules'
         \/ \E t \in Targets : RemoveBlock(t) /\ rules \ {t} \subseteq rules'
         \/ /\ ReapUfw /\ cur' \in Standing /\ cur' \in issued /\ entry[cur'].expires <= now
            /\ rules \ {entry[cur'].target} \subseteq rules'
<1>1. CASE \E t \in Targets : RemoveBlock(t)
  BY <1>1 DEF RemoveBlock, UfwSucceeds, UfwFails
<1>2. CASE ReapUfw
  <2>1. /\ cur' \in todo /\ rules \ {entry[cur'].target} \subseteq rules'
        /\ AtReap /\ pc \in {"reap_next", "reap_load", "reap_mark"}
    BY <1>2 DEF ReapUfw, UfwSucceeds, UfwFails, AtReap
  <2> QED BY <1>2, <2>1 DEF PassOK, Safe, CursorOK, ReapOK
<1>3. CASE UfwAdd
  BY <1>3 DEF UfwAdd, UfwSucceeds, UfwFails
<1> QED
  BY <1>1, <1>2, <1>3, NextAlone
     DEF CheckBlock, AddLoad, AddSave, RemoveList, RemoveNext, RemoveMark, ReapMark, MarkSave,
         ReapList, ReapLoad, ReapDone, SweepLoad, SweepSave, Tick, Stop, Start, vars

\* An entry that is listed later than its expiry would lift the rules of entries made since:
\* there is none, since passes are on time.
LEMMA OverlapStep ==
  ASSUME Portal = FALSE, Safe, OwnFile, PassOK, OverlapOK, [Next]_vars
  PROVE  OverlapOK'
<1>1. /\ issued \subseteq issued' /\ \A i \in issued : entry'[i] = entry[i]
      /\ now' \in {now, now + 1} /\ now \in Nat /\ asked \subseteq asked'
      /\ Standing \subseteq issued
      /\ \A i \in issued : entry[i].expires \in Nat /\ entry[i].added \in Nat
  BY EntriesStay, StandingTyped
<1>2. ASSUME NEW i \in issued, Overlapped(i) PROVE Overlapped(i)'
  BY <1>1, <1>2 DEF Overlapped
<1>3. CASE AddLoad
  <2>1. /\ UNCHANGED <<now, file, rules, asked>> /\ target \in rules /\ pc' = "add_save"
        /\ pc = "add_load" /\ TypeOK
    BY <1>3 DEF AddLoad, clockVars, OverlapOK, Safe
  <2>2. PICK i \in EntryIds \ issued :
          /\ issued' = issued \cup {i}
          /\ entry'[i] = [target |-> target, added |-> now, expires |-> now + ttl]
    BY <1>3, <2>1, NewEntry
  <2>3. entry'[i].added = now /\ entry'[i].target = target
    BY <2>2
  <2>4. \A k \in Standing : entry[k].expires >= now
    BY <2>1 DEF PassOK, AtAdd, AtReap, ReaperModes, Timely
  <2>5. Standing' = Standing
    BY <2>1 DEF Standing
  <2>6. \A j \in issued' : entry'[j].added <= now'
    BY <1>1, <2>1, <2>2, <2>3 DEF OverlapOK
  <2>7. \A k \in Standing', j \in issued' : entry'[j].added <= entry'[k].expires
    BY <1>1, <2>2, <2>3, <2>4, <2>5 DEF OverlapOK
  <2>8. \A k \in issued' \ asked' :
          entry'[k].expires > now' => entry'[k].target \in rules' \/ Overlapped(k)'
    BY <1>1, <1>2, <2>1, <2>2, <2>3 DEF OverlapOK
  <2> QED BY <2>1, <2>6, <2>7, <2>8 DEF OverlapOK
<1>4. CASE ~AddLoad
  <2>1. issued' = issued
    BY <1>4, NextAlone
       DEF CheckBlock, RemoveBlock, UfwAdd, AddSave, RemoveList, RemoveNext, RemoveMark, ReapMark,
           MarkSave, ReapList, ReapUfw, ReapLoad, ReapDone, SweepLoad, SweepSave, Tick, Stop,
           Start, vars, issued
  <2>2. \A i \in issued' : entry'[i].added <= now'
    BY <1>1, <2>1 DEF OverlapOK
  <2>3. \A i \in Standing', j \in issued' : entry'[j].added <= entry'[i].expires
    <3>1. CASE AddSave
      <4>1. Standing' \subseteq Standing \cup {cur} /\ cur \in issued /\ entry[cur].expires >= now
        BY <3>1 DEF AddSave, OwnFile, Standing, Safe, CursorOK, TypeOK, File, PassOK, Timely, AtReap
      <4> QED BY <1>1, <2>1, <4>1 DEF OverlapOK
    <3>2. CASE ~AddSave
      BY <1>1, <2>1, <3>2, StandingShrinks DEF OverlapOK
    <3> QED BY <3>1, <3>2
  <2>4. pc' = "add_load" => target' \in rules'
    <3>1. CASE UfwAdd
      BY <3>1 DEF UfwAdd, UfwSucceeds, Idle
    <3>2. CASE Tick \/ UNCHANGED vars
      BY <3>2 DEF Tick, vars, monitorVars, OverlapOK
    <3> QED
      BY <1>4, <3>1, <3>2, NextAlone
         DEF CheckBlock, RemoveBlock, AddSave, RemoveList, RemoveNext, RemoveMark, ReapMark,
             MarkSave, ReapList, ReapUfw, ReapLoad, ReapDone, SweepLoad, SweepSave, Stop, Start,
             StartIn, Idle
  <2>5. ASSUME NEW i \in issued \ asked', entry[i].expires > now', entry[i].target \in rules
        PROVE  entry[i].target \in rules' \/ Overlapped(i)'
    <3>1. CASE rules \subseteq rules'
      BY <2>5, <3>1
    <3>2. ASSUME NEW t \in Targets, RemoveBlock(t), rules \ {t} \subseteq rules'
          PROVE  entry[i].target \in rules'
      <4>1. ~Covers(t, i)
        BY <2>5, <3>2 DEF RemoveBlock
      <4>2. entry[i].target # t
        BY <4>1 DEF Covers
      <4> QED BY <2>5, <3>2, <4>2
    <3>3. ASSUME ReapUfw, cur' \in Standing, cur' \in issued, entry[cur'].expires <= now,
                 rules \ {entry[cur'].target} \subseteq rules'
          PROVE  entry[i].target \in rules' \/ Overlapped(i)'
      <4>1. CASE entry[i].target # entry[cur'].target
        BY <2>5, <3>3, <4>1
      <4>2. CASE entry[i].target = entry[cur'].target
        <5> DEFINE c == cur'
        <5>1. c \in issued /\ c # i
          BY <1>1, <2>5, <3>3
        <5>2. entry[c].expires \in entry[i].added .. now
          BY <1>1, <3>3 DEF OverlapOK
        <5>3. c \in Standing /\ entry[c].target = entry[i].target
          BY <3>3, <4>2
        <5> HIDE DEF c
        <5>4. Overlapped(i)
          BY <5>1, <5>2, <5>3 DEF Overlapped
        <5> QED BY <1>2, <5>4
      <4> QED BY <4>1, <4>2
    <3> QED BY <3>1, <3>2, <3>3, LiftsAlone
  <2>6. ASSUME NEW i \in issued' \ asked', entry'[i].expires > now'
        PROVE  entry'[i].target \in rules' \/ Overlapped(i)'
    <3>1. i \in issued \ asked /\ entry[i].expires > now /\ entry'[i] = entry[i]
      BY <1>1, <2>1, <2>6
    <3> QED BY <1>2, <2>5, <2>6, <3>1 DEF OverlapOK
  <2> QED BY <2>2, <2>3, <2>4, <2>6 DEF OverlapOK
<1> QED BY <1>3, <1>4

\* The invariant of the monitor without a portal, whatever ufw answers and wherever the
\* monitor is killed.
LEMMA AloneAlways == ASSUME Portal = FALSE PROVE Spec => []Alone
<1>1. Init => Alone
  <2> SUFFICES ASSUME Init PROVE Alone
    OBVIOUS
  <2>1. Safe
    BY ConstantsAssumption, SafeInit
  <2>2. OwnFile /\ PassOK /\ OverlapOK
    BY DEF Init, StartIn, EmptyFile, OwnFile, PassOK, OverlapOK, Standing, AtAdd, AtReap, issued
  <2>3. active_entries(file) = {} /\ ~AtAdd
    BY DEF Init, StartIn, EmptyFile, active_entries, AtAdd
  <2>4. RoomOK
    BY <2>3, FS_EmptySet, ConstantsAssumption DEF RoomOK, ConstantsAssumption
  <2> QED BY <2>1, <2>2, <2>4 DEF Alone
<1>2. Alone /\ [Next]_vars => Alone'
  BY ConstantsAssumption, SafeStep, OwnFileStep, RoomStep, PassStep, OverlapStep DEF Alone
<1> QED BY <1>1, <1>2, PTL DEF Spec

\* Without a portal: the ceiling that check_block enforces before ufw is called holds of the
\* file at all times, for any ceiling, and across crashes and failures of ufw.
THEOREM CeilingHolds == ASSUME Portal = FALSE PROVE Spec => []ActiveCeiling
<1>1. Alone => ActiveCeiling
  BY DEF Alone, RoomOK, ActiveCeiling
<1> QED BY <1>1, AloneAlways, PTL

\* Without a portal: a block that nobody asked to be removed loses its rule early only to a
\* block of the same target that expired while it lasted.
THEOREM OnlyOverlapsLift == ASSUME Portal = FALSE PROVE Spec => []OnlyAnOverlapLiftsEarly
<1>1. Alone => OnlyAnOverlapLiftsEarly
  BY StandingTyped, ActiveIs DEF Alone, OverlapOK, Overlapped, OnlyAnOverlapLiftsEarly
<1> QED BY <1>1, AloneAlways, PTL

\* Without a portal: no write of the file drops an entry that is not settled and old, or
\* takes a mark back.
THEOREM StoreIsAppendOnly == ASSUME Portal = FALSE PROVE Spec => StoreNeverRegresses
<1>1. ASSUME Alone, [Next]_vars
      PROVE  [/\ \A i \in file.held \ file'.held : /\ i \in file.rolled \/ entry[i].expires <= now
                                                   /\ entry[i].added < now - Retention
              /\ file.rolled \cap file'.held \subseteq file'.rolled]_file
  <2>1. CASE AddSave
    BY <1>1, <2>1 DEF AddSave, Alone, OwnFile, Safe, TypeOK, File
  <2>2. CASE RemoveMark \/ ReapMark
    BY <1>1, <2>2 DEF RemoveMark, ReapMark, MarkSave, mark_rolled_back, Alone, OwnFile, Safe, TypeOK, File
  <2>3. CASE SweepSave
    BY <1>1, <2>3 DEF SweepSave, Alone, OwnFile
  <2>4. UNCHANGED file \/ AddSave \/ RemoveMark \/ ReapMark \/ SweepSave
    BY <1>1, NextAlone
       DEF Alone, CheckBlock, RemoveBlock, UfwAdd, AddLoad, RemoveList, RemoveNext, ReapList,
           ReapUfw, ReapLoad, ReapDone, SweepLoad, Tick, Stop, Start, vars
  <2> QED BY <2>1, <2>2, <2>3, <2>4
<1> QED BY <1>1, AloneAlways, PTL DEF Spec, StoreNeverRegresses

\* What LiftedOnTime needs besides: ufw answers, the monitor is stopped between operations
\* only and never runs without its reaper, and the retention is no shorter than a block.
Orderly == /\ Portal = FALSE /\ UfwFaults = FALSE /\ Crashes = FALSE
           /\ "dry" \notin Modes /\ MaxBlockTime <= Retention

LEMMA RulesStep ==
  ASSUME Orderly, Alone, RulesOK, [Next]_vars
  PROVE  RulesOK'
<1> USE DEF Orderly, Alone
<1>1. /\ issued \subseteq issued' /\ \A i \in issued : entry'[i] = entry[i]
      /\ now' \in {now, now + 1} /\ now \in Nat /\ asked \subseteq asked'
      /\ Standing \subseteq issued /\ asked \subseteq issued
      /\ \A i \in issued : entry[i].expires \in Nat /\ entry[i].added \in Nat
  BY EntriesStay, StandingTyped DEF Safe, TypeOK
<1>2. MaxBlockTime \in Nat /\ Retention \in Nat
  BY ConstantsAssumption DEF ConstantsAssumption
<1>3. \A i \in issued' : entry'[i].expires <= entry'[i].added + MaxBlockTime
  <2>1. CASE AddLoad
    <3>1. ttl \in 1 .. MaxBlockTime /\ TypeOK
      BY <2>1 DEF AddLoad, Safe, CursorOK, AddOK
    <3>2. PICK i \in EntryIds \ issued :
            /\ issued' = issued \cup {i}
            /\ entry'[i] = [target |-> target, added |-> now, expires |-> now + ttl]
      BY <2>1, <3>1, NewEntry
    <3>3. entry'[i].expires <= entry'[i].added + MaxBlockTime
      BY <1>1, <1>2, <3>1, <3>2
    <3> QED BY <1>1, <3>2, <3>3 DEF RulesOK
  <2>2. CASE ~AddLoad
    <3>1. issued' = issued
      BY <2>2, NextAlone
         DEF CheckBlock, RemoveBlock, UfwAdd, AddSave, RemoveList, RemoveNext, RemoveMark, ReapMark,
             MarkSave, ReapList, ReapUfw, ReapLoad, ReapDone, SweepLoad, SweepSave, Tick, Stop,
             Start, vars, issued
    <3> QED BY <1>1, <3>1 DEF RulesOK
  <2> QED BY <2>1, <2>2
<1>4. pc' = "sweep_save" => todo' \subseteq file'.rolled
  <2>1. CASE SweepLoad
    <3>1. mode \in ReaperModes /\ pc = "idle" /\ todo' = Compactable(file) /\ file' = file
      BY <2>1, ConstantsAssumption
         DEF SweepLoad, ConstantsAssumption, Safe, TypeOK, ReaperModes
    <3>2. ASSUME NEW i \in Compactable(file), i \notin file.rolled PROVE FALSE
      <4>1. /\ i \in Standing /\ entry[i].expires <= now /\ entry[i].added < now - Retention
            /\ i \in issued
        BY <1>1, <3>2 DEF Compactable, Standing
      <4>2. entry[i].expires >= now
        BY <3>1, <4>1 DEF PassOK, Timely, AtReap
      <4>3. entry[i].expires <= entry[i].added + MaxBlockTime
        BY <4>1 DEF RulesOK
      <4> QED BY <1>1, <1>2, <4>1, <4>2, <4>3
    <3> QED BY <3>1, <3>2
  <2>2. CASE Tick \/ UNCHANGED vars
    BY <2>2 DEF Tick, vars, monitorVars, RulesOK
  <2> QED
    BY <2>1, <2>2, NextAlone
       DEF CheckBlock, RemoveBlock, UfwAdd, AddLoad, AddSave, RemoveList, RemoveNext, RemoveMark,
           ReapMark, MarkSave, ReapList, ReapUfw, ReapLoad, ReapDone, SweepSave, Stop, Start,
           StartIn, Idle
<1>5. OwnedRules'
  <2> SUFFICES ASSUME NEW t \in rules'
               PROVE  \/ \E i \in asked' : entry'[i].target.ip = t.ip
                      \/ \E i \in Standing' : /\ entry'[i].target = t
                                              /\ pc' \in {"reap_load", "reap_mark"} => i # cur'
                      \/ pc' = "add_load" /\ target' = t
                      \/ pc' = "add_save" /\ entry'[cur'].target = t
    BY DEF OwnedRules
  <2> USE DEF RulesOK
  <2>1. ASSUME NEW i \in asked, entry[i].target.ip = t.ip
        PROVE  \E j \in asked' : entry'[j].target.ip = t.ip
    BY <1>1, <2>1
  <2>2. ASSUME NEW i \in Standing PROVE entry'[i] = entry[i]
    BY <1>1
  <2>3. CASE UNCHANGED <<file, rules>> /\ ~AtReap /\ ~AtReap' /\ pc \notin {"add_load", "add_save"}
    <3>1. Standing' = Standing
      BY <2>3 DEF Standing
    <3> QED BY <2>1, <2>2, <2>3, <3>1 DEF OwnedRules, AtReap
  <2>4. CASE UfwAdd
    <3>1. Standing' = Standing /\ pc = "ufw_add" /\ pc' = "add_load" /\ rules' = rules \cup {target}
          /\ target' = target
      BY <2>4 DEF UfwAdd, UfwSucceeds, UfwFails, Standing
    <3> QED BY <2>1, <2>2, <3>1 DEF OwnedRules
  <2>5. CASE AddLoad
    <3>1. /\ Standing' = Standing /\ pc = "add_load" /\ pc' = "add_save" /\ rules' = rules
          /\ entry'[cur'].target = target
      BY <2>5, NewEntry DEF AddLoad, Standing, Safe
    <3> QED BY <2>1, <2>2, <3>1 DEF OwnedRules
  <2>6. CASE AddSave
    <3>1. /\ pc = "add_save" /\ pc' = "idle" /\ rules' = rules /\ cur \in issued
          /\ Standing' = Standing \cup {cur}
      BY <2>6 DEF AddSave, Idle, OwnFile, PassOK, Standing, Safe, CursorOK, TypeOK, File
    <3> QED BY <1>1, <2>1, <2>2, <3>1 DEF OwnedRules
  <2>7. ASSUME NEW u \in Targets, RemoveBlock(u) PROVE rules' \subseteq rules
    BY <2>7 DEF RemoveBlock, UfwSucceeds, UfwFails
  <2>8. CASE \E u \in Targets : RemoveBlock(u)
    <3>1. /\ rules' \subseteq rules /\ Standing' = Standing /\ pc = "idle" /\ pc' = "remove_list"
      BY <2>7, <2>8 DEF RemoveBlock, Standing
    <3> QED BY <2>1, <2>2, <3>1 DEF OwnedRules
  <2>9. CASE RemoveMark
    <3>1. /\ rules' = rules /\ pc = "remove_mark" /\ pc' = "remove_next" /\ cur \in asked
          /\ Standing \ {cur} \subseteq Standing'
      BY <2>9 DEF RemoveMark, MarkSave, mark_rolled_back, OwnFile, Standing, Safe, CursorOK,
                  RemoveOK, TypeOK, File
    <3>2. CASE \E i \in Standing : entry[i].target = t /\ i # cur
      BY <2>2, <3>1, <3>2
    <3>3. CASE entry[cur].target = t
      <4>1. entry[cur].target.ip = t.ip
        BY <3>3
      <4> QED BY <2>1, <3>1, <4>1
    <3> QED BY <2>1, <3>1, <3>2, <3>3 DEF OwnedRules
  <2>10. CASE ReapList \/ ReapLoad \/ ReapDone
    <3>1. /\ rules' = rules /\ Standing' = Standing
          /\ pc \notin {"add_load", "add_save"}
          /\ pc' \in {"reap_load", "reap_mark"} => pc = "reap_load" /\ cur' = cur
      BY <2>10 DEF ReapList, ReapLoad, ReapDone, Idle, Standing
    <3> QED BY <2>1, <2>2, <3>1 DEF OwnedRules
  <2>11. CASE ReapUfw
    <3>1. /\ rules' = rules \ {entry[cur'].target} /\ Standing' = Standing
          /\ pc = "reap_next"
      BY <2>11 DEF ReapUfw, UfwSucceeds, UfwFails, Standing
    <3> QED BY <2>1, <2>2, <3>1 DEF OwnedRules
  <2>12. CASE ReapMark
    <3>1. /\ rules' = rules /\ Standing \ {cur} \subseteq Standing'
          /\ pc = "reap_mark" /\ pc' = "reap_next"
      BY <2>12 DEF ReapMark, MarkSave, mark_rolled_back, OwnFile, Standing, Safe, TypeOK, File
    <3> QED BY <2>1, <2>2, <3>1 DEF OwnedRules
  <2>13. CASE SweepSave
    <3>1. rules' = rules /\ pc = "sweep_save" /\ pc' = "idle" /\ Standing' = Standing
      BY <2>13 DEF SweepSave, Idle, OwnFile, Standing
    <3> QED BY <2>1, <2>2, <3>1 DEF OwnedRules
  <2>14. CASE Tick \/ UNCHANGED vars
    <3>1. UNCHANGED <<rules, pc, target, cur, file, entry>> /\ Standing' = Standing
      BY <2>14 DEF Tick, vars, monitorVars, Standing
    <3> QED BY <2>1, <2>2, <3>1 DEF OwnedRules
  <2>15. ASSUME NEW u \in Targets, NEW d \in 0..(MaxBlockTime + 1), CheckBlock(u, d)
         PROVE  UNCHANGED <<file, rules>> /\ ~AtReap /\ ~AtReap' /\ pc \notin {"add_load", "add_save"}
    BY <2>15 DEF CheckBlock, AtReap
  <2>16. CASE RemoveList \/ RemoveNext \/ SweepLoad \/ Stop
    BY <2>3, <2>16 DEF RemoveList, RemoveNext, SweepLoad, Stop, Idle, AtReap
  <2>17. ASSUME NEW m \in Modes, Start(m)
         PROVE  UNCHANGED <<file, rules>> /\ ~AtReap /\ ~AtReap' /\ pc \notin {"add_load", "add_save"}
    BY <2>17 DEF Start, StartIn, PassOK, AtReap, AtAdd, ReaperModes
  <2> QED
    BY <2>3, <2>4, <2>5, <2>6, <2>8, <2>9, <2>10, <2>11, <2>12, <2>13, <2>14, <2>15, <2>16, <2>17,
       NextAlone
<1> QED BY <1>3, <1>4, <1>5 DEF RulesOK

\* After a pass of the reaper every rule belongs to a block that has not expired, or to an
\* address of which a removal was asked for.
THEOREM RulesLiftedOnTime == ASSUME Orderly PROVE Spec => []LiftedOnTime
<1>1. Init => RulesOK
  BY DEF Init, StartIn, RulesOK, OwnedRules, issued
<1>2. Alone /\ RulesOK /\ [Next]_vars => RulesOK'
  BY RulesStep
<1>3. Alone /\ RulesOK => LiftedOnTime
  <2> SUFFICES ASSUME Alone, RulesOK, mode \in ReaperModes, pc = "idle", pass = "done",
                      NEW t \in rules
               PROVE  \E i \in issued : /\ entry[i].target.ip = t.ip
                                        /\ \/ entry[i].target = t /\ entry[i].expires > now
                                           \/ i \in asked
    BY DEF LiftedOnTime
  <2>1. CASE \E i \in asked : entry[i].target.ip = t.ip
    BY <2>1 DEF Alone, Safe, TypeOK
  <2>2. CASE \E i \in Standing : entry[i].target = t
    <3>1. PICK i \in Standing : entry[i].target = t
      BY <2>2
    <3>2. Timely(i) /\ i \in issued
      BY StandingTyped DEF Alone, PassOK
    <3>3. entry[i].expires > now
      BY <3>2 DEF Timely, AtReap
    <3>4. entry[i].target.ip = t.ip
      BY <3>1
    <3> QED BY <3>1, <3>2, <3>3, <3>4
  <2> QED BY <2>1, <2>2 DEF RulesOK, OwnedRules
<1>4. Portal = FALSE
  BY DEF Orderly
<1> QED BY <1>1, <1>2, <1>3, <1>4, AloneAlways, PTL DEF Spec
===============================================================================
