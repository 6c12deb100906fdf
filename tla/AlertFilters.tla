------------------------------ MODULE AlertFilters ------------------------------
(***************************************************************************)
(* What keeps an alert from being reported: the agent's whitelist          *)
(* (agent_whitelist.json, AgentWhitelistStore) and the suppressed types    *)
(* (suppressed.json, SuppressedTypesStore and the portal's own functions). *)
(*                                                                         *)
(*  - The monitor writes both for the agent's tools and for the retention  *)
(*    sweep; these operations do not await, so it has one of them in hand. *)
(*  - The portal rolls whitelist entries back and suppresses or restores   *)
(*    types, one request at a time.                                        *)
(*  - alert_dispatch_loop, in the monitor, filters alerts by copies of the *)
(*    two files that it reads again when they are older than five seconds. *)
(*                                                                         *)
(* An operation loads a file, works out the content it will have, and      *)
(* replaces it; the other process may do anything in between.  The fields  *)
(* of a whitelist entry never change except rolled_back: they are kept     *)
(* once, in `entry'.                                                       *)
(***************************************************************************)
EXTENDS Integers, FiniteSets

CONSTANTS
  Ips,          \* addresses alerts come from
  Types,        \* alert types, in upper case
  Spellings,    \* ways to write a type: as it is, in lower case, ...
  Silenceable,  \* bound of the model: types anybody suppresses or restores
  Trusted,      \* alerts the configuration whitelists (whitelist, detector_whitelist)
  BannedTypes,  \* GuardrailLimits.banned_suppress_types
  MaxTtl,       \* GuardrailLimits.max_whitelist_ttl_hours, in clock units
  MaxHours,     \* GuardrailLimits.max_suppress_hours, in clock units
  CacheAge,     \* the five seconds, in clock units
  Retention,    \* retention_days, in clock units
  EntryIds,     \* the uuids the store can draw: bounds the entries ever created
  Horizon,      \* bounds the clock
  Portal,       \* the web service is deployed
  None

Alerts  == [src: Ips, type: Types]
Written == Types \X Spellings      \* an alert_type as the model wrote it

\* What an entry covers: every alert of an address (scope global), or one type of it.
Keys == [ip: Ips, type: Written \cup {None}]

ASSUME ConstantsAssumption ==
  /\ Trusted \subseteq Alerts /\ BannedTypes \subseteq Types /\ Silenceable \subseteq Types
  /\ {MaxTtl, MaxHours, CacheAge, Retention, Horizon} \subseteq Nat
  /\ Portal \in BOOLEAN
  /\ None \notin Written /\ None \notin EntryIds /\ None \notin Nat
  /\ EntryIds \cap Types = {}

Items   == EntryIds \cup Types   \* what can be in force
Entry   == [key: Keys, added: Nat, expires: Nat]
WlFile  == [held: SUBSET EntryIds, rolled: SUBSET EntryIds]
SupFile == [types: SUBSET Types, ttl: [Types -> Nat \cup {None}]]

\* What an operation is about to write: to which store, the whole content, and which
\* entries or types it will report as put in force or as lifted.
Write == [store: {"wl"}, to: WlFile, on: SUBSET EntryIds, off: SUBSET EntryIds]
           \cup [store: {"sup"}, to: SupFile, on: SUBSET Types, off: SUBSET Types]

VARIABLES
  now,       \* time.time()
  wl,        \* agent_whitelist.json
  sup,       \* suppressed.json
  op,        \* the write the monitor has in hand, or None
  req,       \* the write the portal has in hand, or None
  wlCache,   \* _get_agent_whitelist's cached entries ...
  wlAt,      \* ... and when they were read
  supCache,  \* _get_suppressed_types' cached types ...
  supAt,     \* ... and when they were read
  entry,     \* history: the fields of every whitelist entry ever created
  lastOn,    \* history: when each entry and type was last in force in its file ...
  lastOff,   \* ... and when it was last not
  settled    \* history: what the last request said of each entry and type

files  == <<wl, sup>>
caches == <<wlCache, wlAt, supCache, supAt>>
past   == <<lastOn, lastOff>>
vars   == <<now, files, op, req, caches, entry, past, settled>>

issued == DOMAIN entry

(***************************************************************************)
(* AgentWhitelistStore and SuppressedTypesStore                            *)
(***************************************************************************)

\* active_entries, on a copy f of the file.
active_entries(f) == {i \in f.held \ f.rolled : entry[i].expires > now}

\* Entries that AgentWhitelistStore.remove matches: the type is compared as it is written.
Removable(f, key) == {i \in f.held \ f.rolled : entry[i].key = key}

\* Faulty variant: whatever is old or settled is dropped.
CompactableEither(f) ==
  {i \in f.held : \/ i \in f.rolled \/ entry[i].expires <= now
                  \/ entry[i].added < now - Retention}

\* retention._compact_json_store: settled entries older than the retention window.
Compactable(f) ==
  {i \in f.held : /\ i \in f.rolled \/ entry[i].expires <= now
                  /\ entry[i].added < now - Retention}

roll_back(f, ids) == [f EXCEPT !.rolled = @ \cup ids]

(***************************************************************************)
(* The dispatcher's copies                                                 *)
(***************************************************************************)

Never == -(CacheAge + 1)   \* the copy that was never read: __cache_ts is 0.0

\* Faulty variant: the copy is used for one unit too long.
StaleLate(at) == at + CacheAge + 1 < now

Stale(at) == at + CacheAge < now

\* The copies the next alert is filtered by.
WlView  == IF Stale(wlAt) THEN active_entries(wl) ELSE wlCache
SupView == IF Stale(supAt) THEN sup.types ELSE supCache

\* Does entry i cover alert a?  The type is compared in upper case.
Matches(i, a) == /\ entry[i].key.ip = a.src
                 /\ \/ entry[i].key.type = None
                    \/ entry[i].key.type # None /\ entry[i].key.type[1] = a.type

WhitelistDrops(a) == \E i \in WlView : Matches(i, a)
SuppressDrops(a)  == a.type \in SupView

\* Faulty variant: the age of both copies is set, but only one is read.
DispatchStampsBoth(a) ==
  /\ op = None /\ a \notin Trusted
  /\ wlCache' = WlView /\ wlAt' = IF Stale(wlAt) THEN now ELSE wlAt
  /\ supAt' = IF Stale(supAt) THEN now ELSE supAt
  /\ supCache' = IF WhitelistDrops(a) THEN supCache ELSE SupView
  /\ UNCHANGED <<now, files, op, req, entry, past, settled>>

\* alert_dispatch_loop gets an alert that the configuration does not whitelist.  An alert
\* the agent's whitelist drops does not come to the suppressed types.
Dispatch(a) ==
  /\ op = None /\ a \notin Trusted
  /\ wlCache' = WlView /\ wlAt' = IF Stale(wlAt) THEN now ELSE wlAt
  /\ IF WhitelistDrops(a)
     THEN UNCHANGED <<supCache, supAt>>
     ELSE /\ supCache' = SupView
          /\ supAt' = IF Stale(supAt) THEN now ELSE supAt
  /\ UNCHANGED <<now, files, op, req, entry, past, settled>>

(***************************************************************************)
(* The monitor's operations: each loads a file and works out what to write *)
(***************************************************************************)

Hold(w) == /\ op' = w
           /\ UNCHANGED <<now, files, req, caches, past, settled>>

\* Faulty variant: the time to live is not capped.
AddWhitelistUncapped(key, ttl) ==
  /\ op = None /\ issued # EntryIds /\ ttl >= 1
  /\ \E i \in EntryIds \ issued :
       /\ entry' = [j \in issued \cup {i} |->
                      IF j = i THEN [key |-> key, added |-> now, expires |-> now + ttl]
                               ELSE entry[j]]
       /\ Hold([store |-> "wl", to |-> [wl EXCEPT !.held = @ \cup {i}], on |-> {i}, off |-> {}])

\* Executor._add_whitelist: check_add_whitelist lets it through.  (The refusals that keep
\* it from an address with a recent CRITICAL alert, or at the rate cap, are left open.)
AddWhitelist(key, ttl) ==
  /\ op = None
  /\ issued # EntryIds    \* bound of the model
  /\ ttl \in 1..MaxTtl
  /\ \E i \in EntryIds \ issued :
       /\ entry' = [j \in issued \cup {i} |->
                      IF j = i THEN [key |-> key, added |-> now, expires |-> now + ttl]
                               ELSE entry[j]]
       /\ Hold([store |-> "wl", to |-> [wl EXCEPT !.held = @ \cup {i}], on |-> {i}, off |-> {}])

\* Executor._remove_whitelist.
RemoveWhitelist(key) ==
  /\ op = None
  /\ Removable(wl, key) # {}
  /\ Hold([store |-> "wl", to |-> roll_back(wl, Removable(wl, key)),
           on |-> {}, off |-> Removable(wl, key)])
  /\ UNCHANGED entry

\* compact_whitelist_store in the retention sweep.
Compact ==
  /\ op = None
  /\ Compactable(wl) # {}
  /\ Hold([store |-> "wl", to |-> [held   |-> wl.held \ Compactable(wl),
                                   rolled |-> wl.rolled \ Compactable(wl)],
           on |-> {}, off |-> {}])
  /\ UNCHANGED entry

\* Executor._suppress_alert_type.
Suppress(t, hours) ==
  /\ op = None
  /\ t \notin BannedTypes /\ hours \in 1..MaxHours
  /\ Hold([store |-> "sup", to |-> [types |-> sup.types \cup {t},
                                    ttl   |-> [sup.ttl EXCEPT ![t] = now + hours]],
           on |-> {t}, off |-> {}])
  /\ UNCHANGED entry

\* Faulty variant: a type with a time to live loses only that.
UnsuppressTtlOnly(t) ==
  /\ op = None
  /\ t \in sup.types \/ sup.ttl[t] # None
  /\ Hold([store |-> "sup",
           to |-> [types |-> IF sup.ttl[t] # None THEN sup.types ELSE sup.types \ {t},
                   ttl   |-> [sup.ttl EXCEPT ![t] = None]],
           on |-> {}, off |-> {t}])
  /\ UNCHANGED entry

\* Executor._unsuppress_alert_type.
Unsuppress(t) ==
  /\ op = None
  /\ t \in sup.types \/ sup.ttl[t] # None
  /\ Hold([store |-> "sup", to |-> [types |-> sup.types \ {t},
                                    ttl   |-> [sup.ttl EXCEPT ![t] = None]],
           on |-> {}, off |-> {t}])
  /\ UNCHANGED entry

(***************************************************************************)
(* The portal's requests                                                   *)
(***************************************************************************)

Ask(w) == /\ Portal /\ req = None
          /\ req' = w
          /\ UNCHANGED <<now, files, op, caches, entry, past, settled>>

\* Faulty variant: the id is not looked up.
RollbackUnknown(i) ==
  /\ i \in issued
  /\ Ask([store |-> "wl", to |-> roll_back(wl, {i}), on |-> {}, off |-> {i}])

\* POST /api/agent/rollback/<id>; an id that is unknown or rolled back is answered 404.
Rollback(i) ==
  /\ i \in wl.held \ wl.rolled
  /\ Ask([store |-> "wl", to |-> roll_back(wl, {i}), on |-> {}, off |-> {i}])

\* POST /api/suppressed; whatever ttl the type has stays.
PortalSuppress(t) ==
  Ask([store |-> "sup", to |-> [sup EXCEPT !.types = @ \cup {t}], on |-> {t}, off |-> {}])

\* DELETE /api/suppressed.
PortalUnsuppress(t) ==
  Ask([store |-> "sup", to |-> [sup EXCEPT !.types = @ \ {t}], on |-> {}, off |-> {t}])

(***************************************************************************)
(* The end of an operation or a request: the file is replaced              *)
(***************************************************************************)

\* What is in force when the files hold f and s, at time t; and the record of that.
InForce(f, s, t) == {i \in f.held \ f.rolled : entry[i].expires > t} \cup s.types

Note(f, s, t) ==
  /\ lastOn'  = [x \in Items |-> IF x \in InForce(f, s, t) THEN t ELSE lastOn[x]]
  /\ lastOff' = [x \in Items |-> IF x \in InForce(f, s, t) THEN lastOff[x] ELSE t]

\* Write w is done while the other process has write other in hand.
Replace(w, other) ==
  /\ wl' = IF w.store = "wl" THEN w.to ELSE wl
  /\ sup' = IF w.store = "sup" THEN w.to ELSE sup
  /\ Note(wl', sup', now)
  /\ settled' = [x \in Items |->
       IF x \notin w.on \cup w.off THEN settled[x]
       ELSE IF other # None /\ other.store = w.store THEN "unsure"
       ELSE IF x \in w.on THEN "on" ELSE "off"]

Save ==
  /\ op # None
  /\ Replace(op, req) /\ op' = None
  /\ UNCHANGED <<now, req, caches, entry>>

PortalSave ==
  /\ req # None
  /\ Replace(req, op) /\ req' = None
  /\ UNCHANGED <<now, op, caches, entry>>

(***************************************************************************)
(* Time and restarts                                                       *)
(***************************************************************************)

Tick ==
  /\ now < Horizon
  /\ now' = now + 1
  /\ Note(wl, sup, now')
  /\ UNCHANGED <<files, op, req, caches, entry, settled>>

\* The monitor is killed, or stops, and is started again.
Restart ==
  /\ op' = None
  /\ wlCache' = {} /\ wlAt' = Never /\ supCache' = {} /\ supAt' = Never
  /\ UNCHANGED <<now, files, req, entry, past, settled>>

PortalCrash ==
  /\ req # None /\ req' = None
  /\ UNCHANGED <<now, files, op, caches, entry, past, settled>>

(***************************************************************************)
(* Specification                                                           *)
(***************************************************************************)

Init ==
  /\ now = 0
  /\ wl = [held |-> {}, rolled |-> {}]
  /\ sup = [types |-> {}, ttl |-> [t \in Types |-> None]]
  /\ op = None /\ req = None
  /\ wlCache = {} /\ wlAt = Never /\ supCache = {} /\ supAt = Never
  /\ entry = [i \in {} |-> None]
  /\ lastOn = [x \in Items |-> Never] /\ lastOff = [x \in Items |-> 0]
  /\ settled = [x \in Items |-> "off"]

Next ==
  \/ \E a \in Alerts : Dispatch(a)
  \/ \E k \in Keys, ttl \in 0..(MaxTtl + 1) : AddWhitelist(k, ttl)
  \/ \E k \in Keys : RemoveWhitelist(k)
  \/ Compact
  \/ \E t \in Silenceable, hours \in 0..(MaxHours + 1) : Suppress(t, hours)
  \/ \E t \in Silenceable : Unsuppress(t) \/ PortalSuppress(t) \/ PortalUnsuppress(t)
  \/ \E i \in EntryIds : Rollback(i)
  \/ Save \/ PortalSave \/ Tick \/ Restart \/ PortalCrash

Spec == Init /\ [][Next]_vars

(***************************************************************************)
(* Properties                                                              *)
(***************************************************************************)

TypeOK ==
  /\ now \in Nat
  /\ wl \in WlFile /\ wl.rolled \subseteq wl.held /\ sup \in SupFile
  /\ op \in Write \cup {None} /\ req \in Write \cup {None}
  /\ wlCache \in SUBSET issued /\ wlAt \in Int /\ wlAt <= now
  /\ supCache \in SUBSET Types /\ supAt \in Int /\ supAt <= now
  /\ issued \in SUBSET EntryIds /\ entry \in [issued -> Entry]
  /\ lastOn \in [Items -> Int] /\ lastOff \in [Items -> Int]
  /\ settled \in [Items -> {"on", "off", "unsure"}]

\* The copies alerts are filtered by are at most five seconds behind the files: what they
\* hold was in force, and what they do not hold was not, at some moment within that time.
\* So an addition takes effect, and a rollback or an expiry ends a filter, by then, whatever
\* the alerts, the agent, the portal and restarts do.
Fresh(view, items) ==
  \A x \in items : IF x \in view THEN lastOn[x] >= now - CacheAge
                                 ELSE lastOff[x] >= now - CacheAge
WhitelistIsFresh   == Fresh(WlView, EntryIds)
SuppressionIsFresh == Fresh(SupView, Types)

\* "Whitelist entries are TTL-bounded and auto-expire": an alert is dropped only while an
\* entry that covers it was created no longer ago than the cap on the time to live and the
\* age of the copy allow, even if the portal's save of an old copy brings it back.
WhitelistingEnds ==
  \A a \in Alerts : WhitelistDrops(a) =>
    \E i \in issued : Matches(i, a) /\ now < entry[i].added + MaxTtl + CacheAge

\* The two processes lose one another's updates only when they overlap.  What a request
\* reported while the other process had no copy of that file in hand stays true until a
\* later request changes it: a rolled-back entry is never in force again, an added one is
\* there until it is old and expired, a type is suppressed or it is not.
OnlyOverlapsLoseUpdates ==
  /\ \A i \in EntryIds :
       /\ settled[i] = "off" => i \notin wl.held \ wl.rolled
       /\ settled[i] = "on" => \/ i \in wl.held \ wl.rolled
                               \/ /\ entry[i].expires <= now
                                  /\ entry[i].added < now - Retention
  /\ \A t \in Types : /\ settled[t] = "off" => t \notin sup.types
                      /\ settled[t] = "on" => t \in sup.types

\* What SuppressedTypesStore says: "agent-added suppressions auto-expire", the agent "is
\* responsible for honouring its own TTLs and cleaning expired entries when it next runs".
\* No type whose time is over is left in what the agent writes back.
SuppressionsExpire ==
  [][op = None /\ op' # None /\ op'.store = "sup" =>
       \A t \in op'.to.types : op'.to.ttl[t] = None \/ op'.to.ttl[t] > now]_vars
===============================================================================
