---------------------------- MODULE FirewallBlocks ----------------------------
(***************************************************************************)
(* The temporary firewall blocks of the NetWatchM agent: the JSON sidecar  *)
(* agent_blocks.json (FirewallStore), the ufw rules it stands for          *)
(* (FirewallController), and everybody who changes the two:                *)
(*                                                                         *)
(*  - the monitor process, one asyncio event loop on which the executor's  *)
(*    add_temporary_block and remove_block, the firewall reaper and the    *)
(*    retention sweep run to completion one after the other (none of them  *)
(*    awaits), so the monitor has one program counter;                     *)
(*  - the portal process (netwatchm-web), a single-threaded HTTP server    *)
(*    whose POST /api/agent/unblock/<id> works on the same file and the    *)
(*    same rules without any lock.                                         *)
(*                                                                         *)
(* Every read of the file, every atomic replacement of it and every ufw    *)
(* call is a step of its own, and either process may stop between two      *)
(* steps.  The fields of an entry never change once it is created, except  *)
(* rolled_back; they are kept once, in `entry', and a copy of the file is  *)
(* the set of ids it holds and the ids it has marked rolled back.          *)
(*                                                                         *)
(* The clock counts units that are long against the reaper's period of 60  *)
(* seconds (an hour, say): the reaper completes a pass in every unit the   *)
(* monitor runs it, which is the guard of Tick.                            *)
(***************************************************************************)
EXTENDS Integers, FiniteSets

CONSTANTS
  Ips,              \* addresses the model may name
  Ports,            \* ports it may name
  AllPorts,         \* port None: the rule covers every port of the address
  Protected,        \* private, loopback, gateway, host and whitelisted addresses
  BannedPorts,      \* GuardrailLimits.banned_block_ports
  MaxActiveBlocks,  \* GuardrailLimits.max_active_blocks
  MaxBlockTime,     \* GuardrailLimits.max_block_minutes, in clock units
  Retention,        \* retention_days, in clock units
  EntryIds,         \* the uuids the store can draw: bounds the blocks ever created
  Horizon,          \* bounds the clock
  Modes,            \* configurations the monitor may be started in
  Portal,           \* the web service is deployed
  UfwFaults,        \* ufw may fail or time out
  Crashes,          \* a process may be killed between two steps
  None

ReaperModes   == {"live", "digest"}   \* agent.enabled and not agent.dry_run
ExecutorModes == {"live"}             \* ... and agent.mode is not "digest"

ASSUME ConstantsAssumption ==
  /\ AllPorts \notin Ports /\ Protected \subseteq Ips /\ BannedPorts \subseteq Ports
  /\ MaxActiveBlocks \in Nat /\ MaxBlockTime \in Nat /\ Retention \in Nat /\ Horizon \in Nat
  /\ Modes \subseteq {"live", "digest", "dry"} /\ Modes # {}
  /\ {Portal, UfwFaults, Crashes} \subseteq BOOLEAN
  /\ IsFiniteSet(EntryIds)

Targets == [ip: Ips, port: Ports \cup {AllPorts}]
Entry   == [target: Targets, added: Nat, expires: Nat]
File    == [held: SUBSET EntryIds, rolled: SUBSET EntryIds]

VARIABLES
  now,      \* time.time()
  mode,     \* configuration of the running monitor, "down" when it is not running
  pass,     \* of the reaper at this clock value: "due", "begun" or "done"
  pc,       \* what the monitor's current synchronous operation does next
  target,   \* its arguments: the ip and port ...
  ttl,      \* ... and the duration
  cur,      \* the entry it is working on
  todo,     \* the entries it has listed and not handled yet
  snap,     \* the copy of the file it has loaded and not saved yet
  file,     \* agent_blocks.json
  rules,    \* the deny rules ufw has
  ppc,      \* what the portal's current request does next
  pcur,     \* the entry id in the request's URL
  psnap,    \* the copy of the file the request has loaded
  entry,    \* history: the fields of every entry ever created
  asked     \* history: entries that a remove_block or an unblock was asked for

monitorVars == <<pc, target, ttl, cur, todo, snap>>
portalVars  == <<ppc, pcur, psnap>>
clockVars   == <<now, mode, pass>>
vars == <<clockVars, monitorVars, file, rules, portalVars, entry, asked>>

issued == DOMAIN entry

(***************************************************************************)
(* FirewallStore                                                           *)
(***************************************************************************)

\* Faulty variants of the queries and of the mark, which the runs must tell apart.
expired_active_late(f)  == {i \in f.held \ f.rolled : entry[i].expires < now}
expired_active_early(f) == {i \in f.held \ f.rolled : entry[i].expires <= now + 1}
MarkableUnknown(f, i)   == i \notin f.rolled
CompactableEither(f) ==
  {i \in f.held : \/ i \in f.rolled \/ entry[i].expires <= now
                  \/ entry[i].added < now - Retention}

\* The two queries of the store, on a copy f of the file.
active_entries(f) == {i \in f.held \ f.rolled : entry[i].expires > now}
expired_active(f) == {i \in f.held \ f.rolled : entry[i].expires <= now}

\* mark_rolled_back on a loaded copy: an id that is unknown or already marked is left alone.
Markable(f, i)         == i \in f.held \ f.rolled
mark_rolled_back(f, i) == [f EXCEPT !.rolled = @ \cup {i}]

\* retention._compact_json_store: settled entries older than the retention window.
Compactable(f) ==
  {i \in f.held : /\ i \in f.rolled \/ entry[i].expires <= now
                  /\ entry[i].added < now - Retention}

EmptyFile == [held |-> {}, rolled |-> {}]

(***************************************************************************)
(* FirewallController: the outcomes of one ufw call.  A call that times    *)
(* out (rc 124) or fails may or may not have reached the rules.            *)
(***************************************************************************)

UfwSucceeds(r)  == rules' = r
UfwFails(r)     == UfwFaults /\ rules' \in {rules, r}

(***************************************************************************)
(* The monitor                                                             *)
(***************************************************************************)

Idle == /\ pc' = "idle" /\ target' = None /\ ttl' = 0
        /\ cur' = None /\ todo' = {} /\ snap' = EmptyFile

\* Faulty variants: one block too many; no cap on the duration.
CheckBlockOneTooMany(t, d) ==
  /\ mode \in ExecutorModes /\ pc = "idle"
  /\ t.ip \notin Protected /\ t.port \notin BannedPorts /\ d \in 1..MaxBlockTime
  /\ Cardinality(active_entries(file)) <= MaxActiveBlocks
  /\ issued # EntryIds
  /\ pc' = "ufw_add" /\ target' = t /\ ttl' = d
  /\ UNCHANGED <<cur, todo, snap, clockVars, file, rules, portalVars, entry, asked>>

CheckBlockUncapped(t, d) ==
  /\ mode \in ExecutorModes /\ pc = "idle"
  /\ t.ip \notin Protected /\ t.port \notin BannedPorts /\ d >= 1
  /\ Cardinality(active_entries(file)) < MaxActiveBlocks
  /\ issued # EntryIds
  /\ pc' = "ufw_add" /\ target' = t /\ ttl' = d
  /\ UNCHANGED <<cur, todo, snap, clockVars, file, rules, portalVars, entry, asked>>

\* Executor._add_temporary_block: Guardrails.check_block lets the call through.
\* (A call it refuses, for these reasons or for the hourly rate cap, changes nothing here.)
CheckBlock(t, d) ==
  /\ mode \in ExecutorModes /\ pc = "idle"
  /\ t.ip \notin Protected
  /\ t.port \notin BannedPorts
  /\ d \in 1..MaxBlockTime
  /\ Cardinality(active_entries(file)) < MaxActiveBlocks
  /\ issued # EntryIds      \* bound of the model
  /\ pc' = "ufw_add" /\ target' = t /\ ttl' = d
  /\ UNCHANGED <<cur, todo, snap, clockVars, file, rules, portalVars, entry, asked>>

\* Faulty variant: the entry is stored although ufw reported an error.
UfwAddUnchecked ==
  /\ pc = "ufw_add"
  /\ UfwSucceeds(rules \cup {target}) \/ UfwFails(rules \cup {target})
  /\ pc' = "add_load"
  /\ UNCHANGED <<target, ttl, cur, todo, snap, clockVars, file, portalVars, entry, asked>>

\* ... the ufw rule is added; when ufw reports an error no entry is stored.
UfwAdd ==
  /\ pc = "ufw_add"
  /\ \/ /\ UfwSucceeds(rules \cup {target})
        /\ pc' = "add_load"
        /\ UNCHANGED <<target, ttl, cur, todo, snap>>
     \/ /\ UfwFails(rules \cup {target})
        /\ Idle
  /\ UNCHANGED <<clockVars, file, portalVars, entry, asked>>

\* ... FirewallStore.add: a fresh entry is built and the file is loaded ...
AddLoad ==
  /\ pc = "add_load"
  /\ \E i \in EntryIds \ issued :
       /\ entry' = [j \in issued \cup {i} |->
                      IF j = i THEN [target |-> target, added |-> now, expires |-> now + ttl]
                               ELSE entry[j]]
       /\ cur' = i
  /\ snap' = file
  /\ pc' = "add_save"
  /\ UNCHANGED <<target, ttl, todo, clockVars, file, rules, portalVars, asked>>

\* ... and replaced by the loaded copy with the entry appended.
AddSave ==
  /\ pc = "add_save"
  /\ file' = [snap EXCEPT !.held = @ \cup {cur}]
  /\ Idle
  /\ UNCHANGED <<clockVars, rules, portalVars, entry, asked>>

\* The entries Executor._remove_block matches against its arguments.
Covers(t, i) == /\ entry[i].target.ip = t.ip
                /\ t.port = AllPorts \/ entry[i].target.port = t.port

\* Executor._remove_block: check_remove_block, then ufw delete; its outcome only
\* changes the answer the agent gets.
RemoveBlock(t) ==
  /\ mode \in ExecutorModes /\ pc = "idle"
  /\ UfwSucceeds(rules \ {t}) \/ UfwFails(rules \ {t})
  /\ pc' = "remove_list" /\ target' = t
  /\ asked' = asked \cup {i \in issued : Covers(t, i)}
  /\ UNCHANGED <<ttl, cur, todo, snap, clockVars, file, portalVars, entry>>

\* ... then the matching active entries are listed ...
RemoveList ==
  /\ pc = "remove_list"
  /\ todo' = {i \in active_entries(file) : Covers(target, i)}
  /\ pc' = "remove_next"
  /\ UNCHANGED <<target, ttl, cur, snap, clockVars, file, rules, portalVars, entry, asked>>

\* ... and marked rolled back one by one, each with a load and a save of its own.
RemoveNext ==
  /\ pc = "remove_next"
  /\ \/ /\ todo = {} /\ Idle
     \/ \E i \in todo : /\ cur' = i /\ snap' = file /\ pc' = "remove_mark"
                        /\ UNCHANGED <<target, ttl, todo>>
  /\ UNCHANGED <<clockVars, file, rules, portalVars, entry, asked>>

\* The save of mark_rolled_back, for _remove_block and for the reaper.
MarkSave(from, to) ==
  /\ pc = from
  /\ file' = IF Markable(snap, cur) THEN mark_rolled_back(snap, cur) ELSE file
  /\ todo' = todo \ {cur} /\ cur' = None /\ snap' = EmptyFile
  /\ pc' = to
  /\ UNCHANGED <<target, ttl, clockVars, rules, portalVars, entry, asked>>

RemoveMark == MarkSave("remove_mark", "remove_next")

\* run_firewall_reaper wakes up: one pass of _process_expired_once lists what has expired.
\* At start-up this is the first thing the monitor does to the blocks.
ReapList ==
  /\ mode \in ReaperModes /\ pc \in {"idle", "reap_first"}
  /\ todo' = expired_active(file)
  /\ pc' = "reap_next" /\ pass' = IF pass = "due" THEN "begun" ELSE pass
  /\ UNCHANGED <<target, ttl, cur, snap, now, mode, file, rules, portalVars, entry, asked>>

\* Faulty variants: every rule of the address is deleted; an entry whose rule ufw would
\* not delete stays unmarked.
ReapUfwWholeAddress ==
  /\ pc = "reap_next"
  /\ \E i \in todo : /\ rules' = {t \in rules : t.ip # entry[i].target.ip}
                     /\ cur' = i
  /\ pc' = "reap_load"
  /\ UNCHANGED <<target, ttl, todo, snap, clockVars, file, portalVars, entry, asked>>

ReapUfwKeepsOnError ==
  /\ pc = "reap_next"
  /\ \E i \in todo :
       LET r == rules \ {entry[i].target} IN
       \/ UfwSucceeds(r) /\ cur' = i /\ pc' = "reap_load" /\ UNCHANGED todo
       \/ UfwFails(r) /\ todo' = todo \ {i} /\ UNCHANGED <<cur, pc>>
  /\ UNCHANGED <<target, ttl, snap, clockVars, file, portalVars, entry, asked>>

\* For each one the rule is deleted, whatever ufw answers ...
ReapUfw ==
  /\ pc = "reap_next"
  /\ \E i \in todo :
       /\ UfwSucceeds(rules \ {entry[i].target}) \/ UfwFails(rules \ {entry[i].target})
       /\ cur' = i
  /\ pc' = "reap_load"
  /\ UNCHANGED <<target, ttl, todo, snap, clockVars, file, portalVars, entry, asked>>

\* ... and the entry is marked rolled back.
ReapLoad ==
  /\ pc = "reap_load"
  /\ snap' = file /\ pc' = "reap_mark"
  /\ UNCHANGED <<target, ttl, cur, todo, clockVars, file, rules, portalVars, entry, asked>>

ReapMark == MarkSave("reap_mark", "reap_next")

ReapDone ==
  /\ pc = "reap_next" /\ todo = {}
  /\ pass' = IF pass = "begun" THEN "done" ELSE pass
  /\ Idle
  /\ UNCHANGED <<now, mode, file, rules, portalVars, entry, asked>>

\* compact_blocks_store in the retention sweep: load and choose, then replace the file.
\* A sweep that finds nothing to drop does not write.
SweepLoad ==
  /\ mode # "down" /\ pc = "idle"
  /\ Compactable(file) # {}
  /\ todo' = Compactable(file) /\ snap' = file
  /\ pc' = "sweep_save"
  /\ UNCHANGED <<target, ttl, cur, clockVars, file, rules, portalVars, entry, asked>>

SweepSave ==
  /\ pc = "sweep_save"
  /\ file' = [held |-> snap.held \ todo, rolled |-> snap.rolled \ todo]
  /\ Idle
  /\ UNCHANGED <<clockVars, rules, portalVars, entry, asked>>

(***************************************************************************)
(* The portal: POST /api/agent/unblock/<id>.  The entry is marked first    *)
(* and the rule deleted afterwards, whatever ufw answers.                  *)
(***************************************************************************)

PortalIdle == ppc' = "idle" /\ pcur' = None /\ psnap' = EmptyFile

UnblockLoad(i) ==
  /\ Portal /\ ppc = "idle"
  /\ i \in issued
  /\ psnap' = file /\ pcur' = i /\ ppc' = "mark"
  /\ UNCHANGED <<clockVars, monitorVars, file, rules, entry, asked>>

UnblockMark ==
  /\ ppc = "mark"
  /\ IF Markable(psnap, pcur)
     THEN /\ file' = mark_rolled_back(psnap, pcur)
          /\ asked' = asked \cup {pcur}
          /\ ppc' = "ufw" /\ psnap' = EmptyFile
          /\ UNCHANGED pcur
     ELSE /\ PortalIdle     \* 404: not found or already rolled back
          /\ UNCHANGED <<file, asked>>
  /\ UNCHANGED <<clockVars, monitorVars, rules, entry>>

UnblockUfw ==
  /\ ppc = "ufw"
  /\ LET r == rules \ {entry[pcur].target} IN UfwSucceeds(r) \/ UfwFails(r)
  /\ PortalIdle
  /\ UNCHANGED <<clockVars, monitorVars, file, entry, asked>>

PortalCrash ==
  /\ Crashes /\ ppc # "idle"
  /\ PortalIdle
  /\ UNCHANGED <<clockVars, monitorVars, file, rules, entry, asked>>

(***************************************************************************)
(* Time, stops and restarts                                                *)
(***************************************************************************)

Tick ==
  /\ now < Horizon
  /\ mode \in ReaperModes => pass = "done"
  /\ now' = now + 1 /\ pass' = "due"
  /\ UNCHANGED <<mode, monitorVars, file, rules, portalVars, entry, asked>>

\* The monitor stops: between two operations, or, when it is killed, anywhere.
Stop ==
  /\ mode # "down"
  /\ pc = "idle" \/ Crashes
  /\ mode' = "down" /\ pass' = "due"
  /\ Idle
  /\ UNCHANGED <<now, file, rules, portalVars, entry, asked>>

\* run_monitor creates the reaper task, when it creates it, before the retention task and
\* before the agent's first answer from the model: its first pass comes first.
StartIn(m) == IF m \in ReaperModes THEN "reap_first" ELSE "idle"

Start(m) ==
  /\ mode = "down" /\ m \in Modes
  /\ mode' = m
  /\ pc' = StartIn(m)
  /\ UNCHANGED <<now, pass, target, ttl, cur, todo, snap, file, rules, portalVars,
                 entry, asked>>

(***************************************************************************)
(* Specification                                                           *)
(***************************************************************************)

Init ==
  /\ now = 0 /\ mode \in Modes /\ pass = "due"
  /\ pc = StartIn(mode) /\ target = None /\ ttl = 0
  /\ cur = None /\ todo = {} /\ snap = EmptyFile
  /\ file = EmptyFile /\ rules = {}
  /\ ppc = "idle" /\ pcur = None /\ psnap = EmptyFile
  /\ entry = [i \in {} |-> None] /\ asked = {}

\* The steps of an operation once it has begun.
Continue ==
  \/ UfwAdd \/ AddLoad \/ AddSave
  \/ RemoveList \/ RemoveNext \/ RemoveMark
  \/ ReapUfw \/ ReapLoad \/ ReapMark \/ ReapDone
  \/ SweepSave

Next ==
  \/ \E t \in Targets, d \in 0..(MaxBlockTime + 1) : CheckBlock(t, d)
  \/ \E t \in Targets : RemoveBlock(t)
  \/ Continue \/ ReapList \/ SweepLoad
  \/ \E i \in issued : UnblockLoad(i)
  \/ UnblockMark \/ UnblockUfw \/ PortalCrash
  \/ Tick \/ Stop \/ \E m \in Modes : Start(m)

Spec == Init /\ [][Next]_vars

\* asyncio runs a coroutine that can go on, and serves timers in the order they fire:
\* the reaper's timer is not overtaken for ever by other coroutines.
Fairness == WF_vars(Continue) /\ SF_vars(ReapList) /\ WF_vars(Tick)

FairSpec == Spec /\ Fairness

(***************************************************************************)
(* Properties                                                              *)
(***************************************************************************)

TypeOK ==
  /\ now \in Nat /\ mode \in Modes \cup {"down"} /\ pass \in {"due", "begun", "done"}
  /\ pc \in {"idle", "ufw_add", "add_load", "add_save",
             "remove_list", "remove_next", "remove_mark",
             "reap_first", "reap_next", "reap_load", "reap_mark", "sweep_save"}
  /\ target \in Targets \cup {None} /\ ttl \in Nat
  /\ cur \in EntryIds \cup {None} /\ todo \in SUBSET EntryIds /\ snap \in File
  /\ file \in File /\ file.rolled \subseteq file.held /\ rules \in SUBSET Targets
  /\ ppc \in {"idle", "mark", "ufw"} /\ pcur \in EntryIds \cup {None} /\ psnap \in File
  /\ issued \in SUBSET EntryIds /\ entry \in [issued -> Entry] /\ asked \in SUBSET issued

\* A lift of the rule of target t has been called for: some block of it was asked to be
\* removed, or has expired.
Released(t) == \E i \in issued : /\ entry[i].target = t
                                 /\ i \in asked \/ entry[i].expires <= now

\* A block that has not expired is in force: its rule stays in ufw until somebody asks for
\* a block of the same address and port to be removed, or one of them expires.  (Two
\* blocks of one address and port share one rule, so the end of one lifts the other.)
BlockStays ==
  \A i \in issued : entry[i].expires > now => \/ entry[i].target \in rules
                                              \/ Released(entry[i].target)

\* No entry is marked rolled back before its time unless a removal covering it was asked
\* for: neither the reaper nor a stale copy of the file gives a block up early.
RolledBackForAReason ==
  \A i \in file.rolled : i \in asked \/ entry[i].expires <= now

\* With one process, only the removal of this very block, or a block of the same target
\* that expires while it lasts, lifts its rule early.
OnlyAnOverlapLiftsEarly ==
  \A i \in active_entries(file) \ asked :
    \/ entry[i].target \in rules
    \/ \E j \in issued \ {i} : /\ entry[j].target = entry[i].target
                               /\ entry[j].expires \in entry[i].added..now

\* The ceiling check_block enforces before ufw is called still holds when the entry is
\* stored, several steps later.
ActiveCeiling == Cardinality(active_entries(file)) <= MaxActiveBlocks

\* After a pass of the reaper every rule belongs to a block that has not expired, except
\* where a remove_block without a port was asked for the address: that call marks the
\* blocks of single ports rolled back and deletes only the rule of all ports.
LiftedOnTime ==
  (mode \in ReaperModes /\ pc = "idle" /\ pass = "done") =>
    \A t \in rules : \E i \in issued : /\ entry[i].target.ip = t.ip
                                       /\ \/ entry[i].target = t /\ entry[i].expires > now
                                          \/ i \in asked

\* What run_firewall_reaper says of itself: "no block survives past its expiry".  After a
\* pass, every rule has a block that has not expired.
NoBlockSurvivesExpiry ==
  (mode \in ReaperModes /\ pc = "idle" /\ pass = "done") =>
    \A t \in rules : \E i \in issued : entry[i].target = t /\ entry[i].expires > now

\* The file is append and soft-delete: an entry leaves it only when it is settled and older
\* than the retention window, and an entry that was marked is never unmarked.
StoreNeverRegresses ==
  [][/\ \A i \in file.held \ file'.held : /\ i \in file.rolled \/ entry[i].expires <= now
                                          /\ entry[i].added < now - Retention
     /\ file.rolled \cap file'.held \subseteq file'.rolled]_file

\* While the monitor keeps running with its reaper, every block in the file comes to an
\* end: it is removed, or it expires and the reaper marks it.
Pending(i) == /\ i \in issued
              /\ i \in file.held \ file.rolled
              /\ entry[i].expires <= Horizon
BlockEnds == \A i \in EntryIds : Pending(i) ~> (~Pending(i) \/ mode \notin ReaperModes)

(***************************************************************************)
(* What the component promises, as an abstract specification: see          *)
(* BlockLease.  The rules are the denied targets, and the entries ever     *)
(* created are the leases.                                                 *)
(***************************************************************************)
Lease == INSTANCE BlockLease
           WITH denied <- rules, leases <- {entry[i] : i \in issued},
                recalled <- {entry[i] : i \in asked}, MaxTerm <- MaxBlockTime
LeaseSpec == Lease!Spec
===============================================================================
