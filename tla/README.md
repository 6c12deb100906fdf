# NetWatchM in TLA+

NetWatchM is a network monitor: a Python process captures packets, detects
threats, alerts, and (optionally) lets a local language model act on them under
guardrails; a separate web process serves reports and lets an operator undo what
the agent did. This directory holds TLA+ models of it, the TLC runs that check
them and TLAPS proofs about them. Paths are relative to the repository:
`pkg/` stands for `src/netwatchm/`.

Contents: [inventory](#inventory), [modules](#modules-and-the-code),
[runs](#runs), [proofs](#proofs), [limits](#what-is-only-model-checked-and-what-is-not-modelled),
[plan](#plan), [how to run](#how-to-run).

## Inventory

### Processes and how they interact

- **The monitor** (`pkg/__main__.py`, `run_monitor`): one asyncio event loop.
  Tasks: packet capture, detector loop, alert dispatch, scorer, UI, DNS resolver,
  inventory persistence, ARP scanner, agent loop, firewall reaper, retention sweep.
  A coroutine runs until it awaits, so most operations are atomic against the other
  tasks; threads appear where the code uses executors (handlers, the model, forensic
  collection) and in the detectors' list refreshers.
- **The portal** (`netwatchm_server.py`): a single-threaded HTTP server with
  background threads for its jobs.
- **Other programs**: `ufw`, `tshark`, `nmap`, the model's server, ntfy, SMTP.

The two processes share only files, without locks: `agent_blocks.json`,
`agent_whitelist.json`, `suppressed.json` (read, changed and replaced through a
temporary file), `agent_actions.db`, `events.db`, `forensics.db` (SQLite),
`inventory.json`.

### Components

| component | state | operations | what is hard | what makes it correct |
|---|---|---|---|---|
| firewall blocks (`pkg/agent/firewall.py`) | `agent_blocks.json`, ufw's rules | add, remove, reap, compact, unblock | two processes on one file, ufw that fails or times out, kills between two steps | a block stays until its time, and then goes |
| executor, guardrails (`executor.py`, `guardrails.py`) | none of their own | check, act, report | checks long before effects | ceilings, caps, protected addresses |
| agent loop (`agent_loop.py`, `llm_client.py`, `tools.py`) | the tick in progress | ask, dispatch, record, digest | a free model, minutes-long synchronous calls | bounded ticks, every action recorded |
| audit database (`audit.py`) | decisions and calls | record, count, prune | lost rows, pruning while a tick waits | the caps count what happened |
| retention (`pkg/retention.py`) | - | prune, compact | runs between any two awaits | only settled and old data goes |
| agent whitelist, suppressed types (`state.py`) | two JSON files | add, remove, roll back, suppress, clean up | lost updates, TTLs | what is suppressed is what is in force |
| alert dispatch (`__main__.py`), scorer, whitelist | two queues, two caches, active alerts | filter, score, send | stale caches, back-pressure, slow handlers | an alert is filtered or delivered, once |
| detectors (`pkg/detector/`) | windows, alerted sets, lists | process, flush, download | flush only when idle, resets, integer gaps, threads that replace a list | what calls for an alert is reported, and what is not new is not |
| handlers (`pkg/alerts/`) | cooldowns, `events.db` | send, insert, prune, page, count | cooldown stamped before a send that may fail, rows that come and go under a reader | silence only after an attempt; a reader misses nothing |
| forensics (`pkg/forensics/`, `forensic_handler.py`) | `forensics.db`, cooldowns | open, correlate, collect, triage, prune | concurrent collectors of one case, an operator in another process | one case per matter, decisions and evidence are not lost |
| inventory (`pkg/inventory/`) | records, `inventory.json` | update, resolve, scan, persist, load | write outside the lock, crash | nothing known is lost by a restart |
| capture (`capture.py`) | a tshark subprocess | read, restart | back-pressure | packets in order |
| portal (`netwatchm_server.py`) | job states, report lock, flow history, uploads | jobs, rollback, suppress, report, triage | double starts, threads that end late, restarts | a job that says running will end; what disappears is listed |
| deep-inspect service (`pkg/deep_inspect_web.py`) | two tables, capture files | capture, scan | ids made of the second of a request | captures do not share a file, a record is done no sooner than its tshark |
| reports (`pkg/reports/`) | `flows.db` | capture, store, query | a connection spread over several flows, limits, equal amounts | the pages add up to the packets |
| enrichment, risk (`pkg/enrich/`, `pkg/grc/`) | `verified.json` | fold, score | providers that fail, ports that are scan noise | nobody is scored for others |
| configuration, UI, service files, scripts | - | - | - | - |

`PROJECT.json` lists every part with its status and, under `hazards`, each thing in
this code that a test would hardly reach, at its line, with the properties aimed at
it or the reason there is none yet.

## Modules and the code

### `FirewallBlocks` (and `BlockLease`, `MCFirewallBlocks`, `FirewallBlocks_proofs`)

The temporary firewall blocks and everybody who changes them. The monitor's
operations on blocks never await, so the monitor has one program counter `pc`
with the arguments and copies of the operation it is in; the portal has its own
(`ppc`). Each load of the file, each replacement of it and each ufw call is one step,
and the portal's steps fall between the monitor's.

| in the model | in the code |
|---|---|
| `file.held`, `file.rolled`, `entry` | the entries of `agent_blocks.json`; which are marked `rolled_back`; their other fields, which never change |
| `rules` | the deny rules ufw has |
| `CheckBlock`, `UfwAdd`, `AddLoad`, `AddSave` | `Guardrails.check_block`, then `Executor._add_temporary_block`: ufw first, then `FirewallStore.add` |
| `RemoveBlock`, `RemoveList`, `RemoveNext`, `RemoveMark` | `Executor._remove_block`: ufw, then every covered active entry, each with its own load and save |
| `ReapList`, `ReapUfw`, `ReapLoad`, `ReapMark`, `ReapDone` | a pass of `_process_expired_once` |
| `SweepLoad`, `SweepSave` | `compact_blocks_store` |
| `UnblockLoad`, `UnblockMark`, `UnblockUfw` | the portal's `POST /api/agent/unblock/<id>` |
| `Stop`, `Start`, `PortalCrash` | `run_monitor` ends or is killed, starts in one of its configurations; the portal is killed in a request |
| `entry`, `asked` beyond the file | history: what was ever stored, and what somebody asked to remove |

Abstractions. Addresses, ports and uuids are model values; a refused call changes
nothing, so the guardrails that refuse for reasons the properties do not see (format,
missing CRITICAL event, hourly cap) are not guards: the model allows more. A
replacement of the file is atomic (it is a rename); two writers of the one temporary
file name, a torn or foreign file, and a failing write (disk full) are not modelled.
A ufw call that fails or times out may or may not have changed the rules. The clock's
unit is long against the reaper's 60 seconds; the model only lets the clock advance
after a pass of the reaper, which is what `LiftedOnTime` relies on and states.

`BlockLease` is what the component promises, without files or processes: a lease is
granted for a bounded term and only while its target is denied, or after a lift of the
target was called for; the denial ends only after a lease of it was recalled or ran
out, unless nobody ever had a lease on it. `FirewallBlocks` implements it with the
mapping at its end (`LeaseSpec`).

### `AgentTick` (and `MCAgentTick`, `AgentTick_proofs`)

The agent's decision cycle, the rate caps, the audit database, its pruning.

| in the model | in the code |
|---|---|
| `decisions`, `rows`, `chatter` | `agent_decisions`; the rows of `agent_tool_calls` with status `executed`; of the other rows only the decision they belong to, because nothing else reads them |
| `StartTick`, `LlmFails`, `LlmConcludes`, `LlmOverHops`, `LlmCalls` | `_run_one_tick`, the round-trips to the model |
| `ReadTool`, `Refuse`, `Begin`, `Act`, `Record` | the dispatch of one call: read-only, dry-run or blocked, or admitted, run and recorded |
| `PushDigest` | `_run_digest_tick` |
| `AuditFails` | a row that cannot be written: the exception ends the tick |
| `Prune` | `prune_audit_db`, one transaction between two awaits |
| `Admitted`, `Groups`, `Cap`, `Window` | `_count_recent_successful` and the limits of `GuardrailLimits`; a group is the set of tools that share a cap |
| `acts` | history: the actions that took effect, when, in which tick, and what was recorded of them |

The model (LLM) may call any tool any number of times. Time passes in every state.
`MaxTick` bounds the time one tick can take: the hops, the calls of an answer
(bounded by the answer's token limit) and the time-outs of the model, of scans and of
pushes add up to it. The named assumption `ConstantsAssumption` requires the retention
window to exceed every cap's window plus `MaxTick`; the defaults (15 days against one
day) satisfy it with room, and the code does not enforce it.

`RateCap` has two parts. `RecordedWithinCap`: no window of a cap holds more recorded successes
than the cap. `LossEndsTick`: an action whose row is not written escapes every cap, and it is the
last of its tick, because the exception of the failing write ends the tick.

### `AlertFilters` (and `MCAlertFilters`, `AlertFilters_proofs`)

What keeps an alert from being reported: the agent's whitelist, the suppressed types, and
the dispatcher's copies of both.

| in the model | in the code |
|---|---|
| `wl.held`, `wl.rolled`, `entry` | the entries of `agent_whitelist.json`; which are marked `rolled_back`; their other fields |
| `sup.types`, `sup.ttl` | the two parts of `suppressed.json`; the dispatcher reads the first only |
| `AddWhitelist`, `RemoveWhitelist`, `Suppress`, `Unsuppress` | the executor's four tools with their guardrails, up to the moment the new content is worked out |
| `Compact` | `compact_whitelist_store` |
| `Rollback`, `PortalSuppress`, `PortalUnsuppress` | the portal's `POST /api/agent/rollback/<id>`, `POST` and `DELETE /api/suppressed` |
| `op`, `req`; `Save`, `PortalSave` | the content the monitor, or the portal, is about to write; the rename that makes it the file |
| `wlCache`, `wlAt`, `supCache`, `supAt`; `Dispatch` | the copies in `alert_dispatch_loop` and their time stamps; one alert going through the filters |
| `Restart`, `PortalCrash` | the copies are gone, an operation in hand is lost |
| `lastOn`, `lastOff`, `settled` | history: when each entry and type was last in force, and last not; what the last request said about it |

The monitor's operations do not await, so it has at most one write in hand and dispatches no
alert meanwhile; the portal answers one request at a time. An operation that changes
nothing (an unknown id, nothing to remove or to compact) does not save and is no step.
Alert types the model (LLM) writes are pairs of a type and a spelling, because the store
compares them as written (`remove`) and the dispatcher in upper case. The refusals of
`check_add_whitelist` that depend on events and rates are left open: the model allows more.
A file that cannot be read is not modelled (see the limits below).

### `Detectors` (and `BurstAlarm`, `Detectors_proofs`)

The threshold detectors, each with a window of recent contacts per key.

| in the model | in the code |
|---|---|
| `windows` | `_windows`, `_suspicious`; a missing entry is the empty set |
| `alerted` | `_alerted` of `port_scan`, `brute_force`, `exfiltration` (the *rearming* detectors): keys whose burst has been reported |
| `alerted_at` | `_alerted` of `dns_tunneling`, `data_hog` and the remote lists (the *deduping* ones): dates; `Epoch` is the 0.0 of a missing one |
| `Process`, `Alerts` | `process` on a packet that counts; whether it returns an alert |
| `FlushExpired` | `flush_expired` of all detectors |
| `seen`, `raised` | history: every contact, and the times of the alerts |

A packet counts or not for a detector, under some key and with some mark; which, is free.
The port scan counts distinct marks (ports); detectors that count packets are the case in
which no mark occurs twice, and detectors that count bytes the case of packets of one
length. The remote lists have a threshold of 1; their lists are in `ContactDetectors`. The clock does
not go backwards (the code uses `time.time()`: a clock set back would leave old contacts
behind new ones), and a call sees one value of it. `dns_tunneling` forgets a date when it is
older than the alert window, the others when it is as old; a date exactly as old holds
nothing back, so that the model has one boundary for all.

`BurstAlarm` is what they promise: a detector that remembers every contact, trims nothing
and keeps no flags and dates, and raises an alert when the contacts of the window cross
the threshold (rearming), or reach it without an alert within the alert window
(deduping). `Alarms` says that `Detectors` implements it.

### `AlertPipeline` (and `MCAlertPipeline`, `AlertPipeline_proofs`)

`run_monitor`'s tasks around its two bounded queues: capture, detector loop, ARP scan,
alert dispatch; quitting by key, failing tasks, and the end. It extends `Detectors`, which
runs inside the detector loop.

| in the model | in the code |
|---|---|
| `packet_queue`, `alert_queue`, `stopping` | the queues and `stop_event` |
| `cap`, `det`, `disp`, `arp` | where each task is and what it has in hand |
| `holder` | the task that is between two awaits that do not suspend: asyncio runs no other |
| `Capture`, `DetectorLoop`, `Dispatch`, `Scan` | the steps of `capture_packets`, `detector_loop`, `alert_dispatch_loop`, `run_arp_scan_loop` |
| `known` | the devices in the `DeviceStore`, which the scan looks up and packets fill |
| `Quit`, `Fails`, `Close`, `CancelAll`, `Finish` | the key q; a task that raises; the `finally` clause; `gather` that returns by itself |
| `captured`, `produced`, `settled`, `tried`, `late` | history |

A `put` suspends only on a full queue, and the store's lock is never held across an await,
so a packet goes through all detectors in one stretch unless an alert must wait. Time-outs
and sleeps end at any time; the clock stands still. Whether the filters drop an alert is
free here (`AlertFilters` says when they do). A handler's outcome is free: `Send` does not
depend on it because the code catches it. The scorer, device threat levels and the dashboard
take part in no property and are left out; an exception of theirs is a `Fails`.

### `ContactDetectors`

The detectors that look at who is contacted: `beaconing` (contacts within a second are
one, the gaps between the others are even enough), `new_ip` (baseline, then one alert an
address), and the four detectors of a remote list with their downloads and the operator's
own names. `packets`, `beacons`, `announced`, `due`, `told` are histories, against which the
properties state what should have been reported. A tick is half a second, so that the
rounding of gaps is met; the jitter is computed in whole numbers as the code's comparison
of floats would come out.

### `EventLog`

What becomes of an alert behind the dispatcher: six channels with their levels, muted
types and cooldowns (`Takes`, `Stamp`: stamped before the send, whatever comes of it), the
rows of `events.db` with the pruning that follows each insertion, a client of the portal
that pages through them while rows come and go (`OpenPage`, `NextPage`), the clearing, and
the counts the agent's digest reads (`Digest`). Rows of one time stamp are taken in the order of
their ids, which is what SQLite does; `ORDER BY timestamp` alone does not promise it.

### `Incidents` (with `Reputation`)

| in the model | in the code |
|---|---|
| `cooled`, `cases`, `tasks` | `_cooldown`; the rows of `forensics.db`; the background tasks `_collect` |
| `SendForensic`, `SendFails` | `ForensicHandler.send`: cooldown, correlation or a new row with the pruning, a task |
| `CapturePackets`, `EnrichAndStore` | `capture_ip`; `enrich_ip` and `update_artifacts`, each of which may fail |
| `Triage` | the portal's requests on status, priority and assignee, each field a statement of its own |
| `MonitorRestart` | cooldowns and tasks are lost, rows are not |

`TriageKept` is about every step: only `Triage` changes what the operator decided (`DecisionsStay`),
and a row goes only when its life, counted from its creation, is over, and never comes back
(`RowsLive`), whatever evidence is still on its way to it.

`Reputation` is the arithmetic of `enrich/reputation.py`: what each provider's answer means
and how the answers are folded. Which answers come, and whether any does, is free.

### `Inventory`

`DeviceStore` with the coroutines that fill it. A row is when the device was seen, the level,
and whether a name and a MAC are known. `BeginPersist` prunes and truncates the file,
`EndPersist` completes it (or the disk is full); `Die` is possible between the two, which
leaves a file that `Load` takes for an empty inventory. The resolver's round (`listed`), its
negative cache and the `lru_cache` behind it are kept apart, because an answer that comes
after its time-out enters the second only.

### `Risk`

The register of the portal: `Services` (with the runs of ports dropped that a scan leaves),
`DeviceScore`, `Controls`, `Compliance`. Four sources change, the register is a function of
them; a device is in it from its first sighting (`Enlist`), before any port of it is known. The properties compare the register with that of the same sources in which one thing
differs.

### `FlowCapture` and `FlowStore`

`FlowCapture` is `capture_flows`: packets to flows, a flow for each protocol of a
connection, names given to all of them at the end. `FlowStore` extends it with `flows.db`:
`InsertReport` stores a report and drops what is too old, and the queries of the analytics
page and of the portal group and list the rows. A row is that of a report and a flow of it; two
reports never share one. A list with a limit is modelled as the set of the lists that the database
may answer. `reported` is history: for every report stored, the lines it captured and when.

### `PcapAnalysis`, `DeepInspectWeb`

`PcapAnalysis` is `_analyze_pcap`. The code runs tshark once for each question and goes through its
lines; the model takes the questions side by side, a frame at a time.

| in the model | in the code |
|---|---|
| `frames`, `heard` | the capture so far; how many of its frames a question has got to |
| `asking`; `TimesOut`, `BreaksOff` | questions tshark is still at; `_tshark` after 90 seconds, which gives nothing of the answer; tshark that gives up on a damaged file, whose output until then is used |
| `pending`, `results`; `Ask`, `Popped`, `Paired` | `dns_pending`, `tls_pending`, `dns_results`, `tls_results`; the assignment, the `pop`, the record appended |
| `Printed`, `DnsKey`, `TlsKey` | the columns `ip.src` and `ip.dst`, empty for IPv6; the keys of the dictionaries; `NoStream` is the empty `tcp.stream` of a handshake over UDP |
| `Heeds`, `plain` | lines that do not parse: several handshake messages in a frame print a list of types, `int` raises, and the line is skipped |
| `ip_pkt_count`, `ip_to_mac`, `open_ports`; `ResultDevices` | the same; the list of devices |

`LatenciesAreRight` speaks of talks (who asked whom, under which id), not of keys: where the lines
tell the talk, a pair is in the result exactly if it is an answer with the last query of its talk
before it and nothing readable of that talk in between; where they do not (IPv6, no stream), a
pair agrees in its id and in that no line tells its talk, and no more is claimed. Both are about the part of the
capture its question got to, which is none after a time-out.

`DeepInspectWeb` is the separate service.

| in the model | in the code |
|---|---|
| `infos`, `active_captures` | the `capture_info` records; the table of them |
| `tshark` of a record; `TsharkWrites`, `TsharkEnds` | `run_tshark_save`: the file may be written or never, and the success it reports depends on neither the file nor the exit status |
| `CaptureCompletes`, `CaptureResult` | the two assignments of `capture_thread` |
| `scans`, `scans_in_progress`; `StartNmapScan`, `ScanCompletes`, `ScanResult` | the same for scans, which are entered without a look at the table |
| `captures`; `Kept` | the files with the time of their last change; which of them `cleanup_old_captures` leaves |
| `WebRestart`, `restarts` | the service goes down and is started anew, in the same second at best; a tshark may outlive it |

`CapturesApart` is four statements: two captures come to one file only by a restart within the second
of both (`FilesAreApart`), a record says running while its tshark does and then what that came to
(`CapturesAreListed`), an id leads to the last scan of its target and second (`LastScanIsShown`),
and every file has its capture (`FilesHaveCaptures`). That a success has a file is not among them:
the code does not see to it.

### `PortalJobs`, `FlowHistory`, `Portal` (and `MCPortal`, `Portal_proofs`)

| in the model | in the code |
|---|---|
| `status`, `pending`, `active` | the state dictionaries; threads started that have not marked their job yet; threads at work |
| `Claim` | looking and marking under one lock (report, investigation, upload) |
| `StartLate`, `Mark` | a thread that marks its job some time after the request looked (port scan, deep inspection, analytics) |
| `End`, `Settle` | a thread writes its outcome, which may be another thread's job by now |
| `PostReport` ... `ReportReady` | the stages of the report's thread, with the archive |
| `Restart` | the portal is killed: states and threads are gone, files of uploads stay |
| `snapshot`, `history`, `captured` | `active_snapshot`, `flow_history`, what `flows.db` has |
| `UpdateFlowHistory` | one transaction: what is missing is listed, what is back is taken off, what nobody pinned expires |

`Portal` composes the two: the capture of a report stores flows (`CaptureFlows`), its last
step compares them (`FinishReport`), and every other step is one of one part.

### `MCServices` (and `Services_proofs`, `Analyses_proofs`)

The parts that share no state with one another (`Detectors`, `ContactDetectors`,
`Incidents`, `EventLog`, `Inventory`, `Risk`, `PcapAnalysis`, `FlowStore`, `DeepInspectWeb`),
each on its own instance. The part is chosen at the beginning and is the only one to take
steps. `Services_proofs` proves the properties of the parts that keep files and tables (`Inventory`,
`EventLog`, `DeepInspectWeb`, `Incidents`), `Analyses_proofs` those of the parts that compute
something from the traffic (`ContactDetectors`, `PcapAnalysis`, `Risk`, `FlowCapture` and
`FlowStore`), each from its own specification (`InventorySpec`, `StoreSpec`, ...), so that no theorem
depends on how they are put side by side.

## Runs

| run | question | result |
|---|---|---|
| `blocks_shared` | Is a block ever lifted, or given up in the file, before its time and without being asked for, with monitor and portal racing, ufw failing, processes killed? Does every step implement `BlockLease`? Does every block come to an end? | no; yes; yes, under the fairness below |
| `blocks_monitor` | For the monitor alone with a ufw that answers: ceiling of active blocks at the moment the entry is stored, rules gone within a reaper pass, no rule lifted early except under an overlapping block, no mark undone and nothing dropped too early. | hold |
| `blocks_expiry` | "no block survives past its expiry" | **violated** |
| `agent_tick` | Caps over every sliding window, no action after one whose row was lost, no call without its decision, every tick ends - with lost rows, kills, restarts, pruning. | hold |
| `agent_acts` | "10 scans/hr ...": do the caps bound the actions that take effect? | **violated** |
| `filters` | Is an alert ever filtered by a whitelist, or by suppressed types, older than five seconds? By an entry beyond the cap on its time to live? Is a rollback or an addition ever lost to anything but an overlapping write of the other process? | no |
| `filters_ttl` | Do suppressions of the agent end with their time to live? | **violated** |
| `services`: detectors | With packets and flushes in any order, are exactly those alerts raised that the whole history calls for (`Alarms`)? Can a flag outlive its window, and so silence a key for ever? | yes; no |
| `services`: contacts | Is every steady beacon, every listed name and address reported, through failing downloads, trimming and flushing, and no address announced twice? (`ContactsAreReported`) | yes |
| `services`: incidents | Are alerts of one matter in one case, is a verdict never milder than its score (`CasesAreSound`), are an operator's decisions kept from late collections, and rows until their life is over (`TriageKept`)? | yes |
| `services`: events | Is a channel silent only after an attempt of its own (`SilenceIsOwed`)? Does a reader that pages through changing rows miss none, and does the digest fall short by its limit only (`ReadersAreServed`)? | yes |
| `services`: inventory | Does the running monitor know what the file says of recent devices, through restarts, torn files, failing lookups and pruning (`SavedIsRemembered`)? | yes |
| `services`: risk | Is a device scored for others, is anything but a run of ports dropped, can verifying a device make something look worse (`RegisterIsSound`)? | no |
| `services`: captures | Are queries and answers paired as a reader of the capture would (`AnswersArePaired`), whatever tshark leaves out, do the pages add up to the packets (`FlowsAddUp`), do captures share a file only over a restart within their second, and do records say what their tshark does (`CapturesApart`)? | yes |
| `portal` | Does a job that says running have a thread that will change it (`JobsAreTracked`), does every job settle (`JobsSettle`), is every flow that leaves the reports listed (`LeavingIsListed`), do pinned rows stay (`PinnedStay`)? | yes, under the fairness below |
| `incident_evidence` | "the incident still records whatever did succeed" | **violated** |
| `pipeline` | Over full queues, two producers and handlers that raise: is any packet or alert lost, doubled or overtaken, does any detector or handler miss one, do the loops stop after at most one more item, does everything get through? | no; yes |
| `pipeline_stop` | "Quit": does `run_monitor` end once the stop event is set? | **violated** |

Five disagreements between code and documentation, each shown by a run:

1. `Executor._remove_block` without a port (`pkg/agent/executor.py:362`) deletes only
   the rule of all ports but marks entries of single ports rolled back too. Their rules
   then stay in ufw for ever, against "no block survives past its expiry"
   (`firewall.py:286`) and "no rule survives past its TTL" (`__main__.py:405`).
2. The caps count only calls with status `executed` (`guardrails.py:208`). A scan that
   hits its time-out or a push whose answer is lost took effect, is recorded as `error`
   and is not counted, against `README.md:202`.
3. `SuppressedTypesStore.cleanup_expired` (`pkg/agent/state.py:220`) has no caller but tests,
   so the agent writes expired types back and the dispatcher obeys them for ever, against
   "agent-added suppressions auto-expire" (`state.py:164-168`) and "Capped at 24h duration"
   (`tools.py:224`). The run needs one process and no failure.
4. `update_artifacts` (`pkg/forensics/store.py:182`) writes verdict, score and capture whatever
   they hold. An alert that recurs is correlated into the same case and starts a second
   collection; if that one captures nothing, the capture of the first is taken from the case,
   against "the incident still records whatever did succeed" (`forensic_handler.py:10-12`).
5. `packet_queue.put` (`pkg/capture.py:138`) and the two `alert_queue.put` look at no stop
   event, and the loops that make room end when it is set. Quit with a full queue, and the
   producer waits for ever; `gather` does not return, nothing is cancelled and the last
   inventory is not saved. A task that raises does not have this effect, because then the
   `finally` clause cancels the others.

Smaller divergences met while translating, which no run is spent on:

- the rearming detectors clear a key's flag at the first packet below the threshold
  (`pkg/detector/port_scan.py:53`), so that a source that hovers about it is reported more
  than once within a window, against `NetWatchM-guide.md:529`;
- `new_ip` remembers both new addresses of a packet and reports the first;
- a device the ARP scan finds is not announced when a packet has registered it first;
- the digest's counts (`pkg/agent/digest.py:40`) are those of the newest rows up to a limit, not
  "exact counts";
- the docstring of the flow history speaks of rows removed at once and kept 30 days; the code
  takes a row off with the second report that has the flow again and keeps rows 15 days;
- `flow_store.py` says "older than 72 hours" and keeps 360; the portal's last 24 hours compare
  a time stamp with a `T` to one with a blank, which takes the whole day of the boundary;
- `_drop_scan_runs` also drops genuine services on consecutive ports (20 to 23);
- a remote list whose first download fails has not even the operator's own names;
- `load_config` never reads the section of the Tor detector;
- the deep-inspect service says it cancels a running capture of the target and starts another
  beside it; the ids of two scans in one second overwrite one another; a capture is reported as a
  success whatever tshark's exit status was, also when there is no file, and analysing it then
  answers 404; the number of packets is looked for in a fourth column, which its table of tshark does not have;
- a pcap job whose tshark runs into its time-out is "ready" with an empty part; the ClientHello
  before a frame of several handshake messages stays open and is paired with a later ServerHello
  of its stream; DNS over IPv6 is paired by id alone, handshakes over UDP (QUIC) by nothing;
- the resolver's `lru_cache` keeps a failure past the end of the negative cache.

### Bounds

`Horizon` bounds the clock, `EntryIds` the blocks ever created, `MaxActs` and
`MaxDecisions` the actions and ticks; each is a guard and is commented as such.

- `blocks_shared`: one address, one port besides "all ports" (two targets that cover one
  another), two entries, two clock values after the start. Two entries are what it
  takes for two blocks to share a rule, for a stale copy to miss an entry, and for a
  portal save to undo a mark.
- `blocks_monitor`: a third entry, because the ceiling (2) needs one more to be broken,
  and a third clock value for a block that outlasts another and is compacted.
- `agent_tick`, `agent_acts`: two tools share a cap of 2, one has its own cap of 1,
  windows of one unit, three actions, two ticks: enough for a tick to fill a cap, another
  to find it filled, the window to slide past a row and the pruning to take a decision.
- `filters`: one address, one type in one spelling, one entry, time to live up to 2, copies of
  age 1, retention 0, clock up to 3: room for an entry to be created, copied, expire and still be
  filtered by; for one that is old but in force when the sweep compacts; for a stale save of
  either process; and for an alert that reads one copy and not the other.
- `filters_ttl`: two types, because it takes a later write to show what became of the first.
- `services`, each part for itself. Detectors: a rearming and a deduping one, threshold 2, window
  1, alert window 2, two marks (symmetric: nothing tells ports apart), clock up to 3. Contacts:
  a window of 10 half seconds, 3 contacts, intervals of 3 to 4, so that bursts, drift and a
  swallowed first contact happen; a name in two spellings and one of the operator's. Incidents:
  two cases, two collections, a cooldown and a window of 1, retention 2, clock up to 3: a
  recurrence inside, at the end of and after the window, a row pruned under its collection.
  Nobody is assigned but "": the assignee is written by the same statement as the priority.
  Events: three alerts of two devices and two levels, pages of one row, a digest of one.
  Inventory: a local and a trusted device, retention 0, a cache of one. Risk: a run of four
  ports and one service, one alert, one case. Frames: four, the questions that end early
  counted in, of fifteen kinds - IPv4 and IPv6, with and without stream, MAC and a line that can be
  read: a query, its repetition, its answer and another answer, or any of them unread. Flows: three
  packets, lists of one device, one destination, two ports, one flow, so that every list is
  cut; retention 1 hour, days of 2 hours, clock up to 3. Web: one address, two
  seconds, two captures, two scans between two starts, files kept for no second: a restart in the
  second of a capture, with its tshark alive, and one that removes its file.
- `portal`: a target and an upload with two threads at a time - what it takes for two threads of
  one job to overlap - with no flow captured; and two flows over a little more than two lives
  of a row with the report alone. The two sides only meet in the report's last step, so
  each is explored for itself.
- `incident_evidence`: the instance of the incidents alone.
- `pipeline`, `pipeline_stop`: queues of one place, a chain of two detectors of which one packet
  can set off both, two packets, one device, two handlers: with a place each a queue is
  full while its producer holds another item, and the chain waits in its middle.

In each of these the mutants that `PROJECT.json` lists (an off-by-one at expiry, a
dropped cap, a cap counted per tool, decisions deleted before their calls, ...) are
caught, which is how we know that the bounds are large enough for the cases named.

### Fairness

- `FirewallBlocks`: `WF(Continue)` - an operation that has begun runs to its end, since it
  is synchronous and its subprocess calls have time-outs. `SF(ReapList)` - the reaper's
  timer is served: asyncio runs ready callbacks in order, so it is not overtaken for ever,
  although other operations can hold the loop each time it becomes due; weak fairness
  would not express that. `WF(Tick)` - time passes. No fairness of `Start`, of the
  executor or the portal: nobody has to call them. `BlockEnds` therefore allows the
  monitor to be stopped or started without the agent.
- `AlertPipeline`: `SF` of each task and of the end of `run_monitor` - asyncio's ready queue and the
  waiters of a queue are first in, first out, so a task that can go on again and again
  does. For capture this includes that tshark goes on to deliver lines or ends, for handlers
  and the scan that they return (they have time-outs). No fairness of `Quit` and
  `Fails`. Inside a task nothing is fair, so that `Drains` does not depend on which
  time-out or drop is chosen.
- `Portal`: `WF` of each thread's own step (`PortalFairness`) - a thread that was started is
  scheduled, and `tshark`, `nmap` and the report's subprocess have time-outs. Nothing about
  requests or restarts is fair. For the jobs that are marked late, each marks anew while the
  earlier thread is at work, so `JobsSettle` needs that threads are finite in number at a time
  and that each ends; it does not need that nobody asks again.
- `AgentTick`: `WF(InTick)` - the call to the model and every subprocess and request have
  time-outs. Nothing else is fair.

## Proofs

TLAPS checks, for every value of the constants allowed by the module's named assumption:

| theorem | states | rests on |
|---|---|---|
| `FirewallBlocks_proofs!TypeCorrect` | `Spec => []TypeOK` | `SafeAlways` |
| `FirewallBlocks_proofs!BlocksStay` | `Spec => []BlockStays` | `SafeAlways` |
| `FirewallBlocks_proofs!MarksHaveAReason` | `Spec => []RolledBackForAReason` | `SafeAlways` |
| `FirewallBlocks_proofs!ImplementsLease` | `Spec => LeaseSpec` | `SafeAlways`, one lemma for each kind of step |
| `FirewallBlocks_proofs!CeilingHolds`, `OnlyOverlapsLift`, `StoreIsAppendOnly` | without a portal, `Spec => []ActiveCeiling`, `[]OnlyAnOverlapLiftsEarly`, `StoreNeverRegresses` | `Alone` |
| `FirewallBlocks_proofs!RulesLiftedOnTime` | `Spec => []LiftedOnTime` under `Orderly` | `Alone`, `RulesOK` |
| `AgentTick_proofs!TypeCorrect` | `Spec => []TypeOK`, with the hop bound | `SafeAlways` |
| `AgentTick_proofs!CallsHaveTheirDecision` | `Spec => []NoOrphans` | `SafeAlways` |
| `AgentTick_proofs!RateCapHolds` | `Spec => []RateCap`, if the database can be read | `SafeAlways`, `Room`, `LossesBounded` |
| `AlertFilters_proofs!TypeCorrect` | `Spec => []TypeOK` | `SafeAlways` |
| `AlertFilters_proofs!WhitelistCopyIsFresh`, `SuppressionCopyIsFresh` | `Spec => []WhitelistIsFresh`, `[]SuppressionIsFresh` | `SafeAlways` |
| `AlertFilters_proofs!WhitelistingIsBounded` | `Spec => []WhitelistingEnds` | `SafeAlways` |
| `AlertFilters_proofs!ReportsStand` | `Spec => []OnlyOverlapsLoseUpdates` | `SafeAlways` |
| `Detectors_proofs!DetectorsTypeCorrect` | `DetectorsSpec => []DetectorsTypeOK` | - |
| `Detectors_proofs!DetectorsImplementAlarm` | `DetectorsSpec => Alarms` | `InvHolds`, `AlertIsCrossing`, `AlertIsDue` |
| `Detectors_proofs!FlagsAreReached` | `DetectorsSpec => []FlagsHaveWindows` | `InvHolds` |
| `Detectors_proofs!DedupingIsKept` | `DetectorsSpec => []AlertsApart` | `InvHolds` |
| `AlertPipeline_proofs!PipelineTyped` | `Spec => []TypeOK` | `Placed`, one lemma for each action |
| `AlertPipeline_proofs!PipelineAlarms` | `Spec => Alarms`: the refinement holds inside the monitor | `DetectorsImplementAlarm` |
| `AlertPipeline_proofs!NoAlertLost` | `Spec => []AlertsKept` | `KeptInv` |
| `AlertPipeline_proofs!DetectorsSeeAll` | `Spec => []EveryDetectorSeesAll` | `SeenInv` |
| `AlertPipeline_proofs!EveryHandlerCalled` | `Spec => []HandlersAgree` | `AgreeInv` |
| `AlertPipeline_proofs!StoppingIsPrompt` | `Spec => []StopIsPrompt` | `StopInv` |
| `Services_proofs!CasesTyped` | `CaseSpec => []CaseTypeOK` | `CasesSafe` |
| `Services_proofs!CasesSound` | `CaseSpec => []CasesAreSound` | `CasesSafe`, `OpinionsSound` |
| `Services_proofs!DecisionsKept` | `CaseSpec => TriageKept` | `CasesSafe`, `CaseStep` |
| `Services_proofs!InventoryTyped` | `InventorySpec => []InventoryTypeOK` | `InventorySafe` |
| `Services_proofs!SavedRemembered` | `InventorySpec => []SavedIsRemembered` | `InventorySafe`, `KeepsRemembers` |
| `Services_proofs!LogTypesHold`, `SilenceExplained` | `LogSpec => []LogTypeOK`, `[]SilenceIsOwed` | `StampsAreSent` |
| `Services_proofs!ReadersServed` | `LogSpec => []ReadersAreServed` | `MadeInOrder`, `PlacesGrow` |
| `Services_proofs!CapturesStayApart` | `WebSpec => []CapturesApart` | `CapturesHold`, `LostBefore` |
| `Analyses_proofs!NewReportedOnce`, `ListedReported` | `ContactSpec => []NewIsReportedOnce`, `[]ListedIsReported` | `NewIpInv`; `ListsInv` |
| `Analyses_proofs!BeaconHolds`, `ContactsReported` | `ContactSpec => []BeaconInv`, `[]ContactsAreReported` | `BeatsAreContacts`, `ContactsAreBeats`, `BeatsAreSteady`; the two above |
| `Analyses_proofs!LatenciesArePaired` | `PcapSpec => []AnswersArePaired` | `PcapHolds`, `Tracks`, `KeysTell` |
| `Analyses_proofs!RegisterSound` | `RiskSpec => []RegisterIsSound` | `RiskInv`, `KeptIsShort`, laws of sums |
| `Analyses_proofs!StoreHolds`, `FlowsSound` | `StoreSpec => []StoreInv`, `[]FlowsAddUp` | `CaptureInv`, laws of sums, one lemma for each page |
| `Portal_proofs!JobsTyped`, `JobsTracked` | `JobsSpec => []JobsTypeOK`, `[]JobsAreTracked` | `JobsSafe` |
| `Portal_proofs!FlowTyped`, `LeavingListed`, `PinnedRowsStay` | `FlowSpec => []FlowTypeOK`, `LeavingIsListed`, `PinnedStay` | each other |
| `Portal_proofs!PortalHasItsParts`, `PortalIsSound` | `PortalSpec => JobsSpec /\ FlowSpec`, and so the properties of both | the above |

*Blocks.* `BlockStays` is not inductive: when the reaper deletes a rule it relies on
having listed only expired entries, and the executor on its rule being in force
(or released by then) between the ufw call and the save. `Safe` says what each program
counter means (what `cur`, `todo`, `target`, `ttl` hold), that every loaded copy in flight
contains only marks that have a reason, and that a listed entry still justifies the
lift when its turn comes - reasons are never withdrawn, because `asked` and `now`
only grow. The refinement needs it for the same reason: a lift is a step of
`BlockLease` only if a lease of the target was recalled or ran out.

*The monitor alone.* `ActiveCeiling`, `StoreNeverRegresses` and `LiftedOnTime` are false with the
portal on the same file: it saves copies that are stale by then. Without it no copy is (`OwnFile`),
so what `check_block` saw is still so when the entry is stored (`RoomOK`), and what a sweep or a
mark writes is the file with that one change. `OverlapOK` says where the rule of a block in force
may have gone: to another block of its target that expired while it lasted, and nowhere else.
These three theorems allow crashes, stops and ufw that fails. `LiftedOnTime` allows none of them
(`Orderly`): a rule whose lifting failed, or that a killed process had just added, is owned by
no entry, and the code has no second way to find it. It also needs that the sweep drops no entry
before its block can have expired (`MaxBlockTime <= Retention`: hours against 15 days; the code
takes both from the configuration and compares them nowhere) and that the monitor runs with its
reaper (`"dry"` leaves the reaper out).

*Caps.* `RateCap` speaks of windows over the history of actions, the code counts rows of
the database at one moment. `Safe` ties them together: actions are numbered, each
recorded success has its row (with the time it was recorded, never earlier than the
action) unless the row is older than any window in use, and a decision that is still
running is younger than the retention window, so its rows cannot be pruned under it.
From it `Room` follows: when a call is admitted, the successes of its group in any window
that the new one can fall into are fewer than the cap. This is where
`Window + MaxTick <= Retention` is needed. That a lost row ends its tick needs no more than that a
tick that is going on has lost none (`Losses`).

*Filters.* `Safe` says that the histories are current, that a copy holds exactly what was in
force at some moment since it was read, that no entry outlives its cap, and - for
`OnlyOverlapsLoseUpdates`, which is not inductive - that every write in hand agrees with
all that was reported except what it will itself report. A report that falls between
another process's load and save is "unsure", which is exactly the window in which the code
may lose it; the theorem says that there is no other.

*Detectors.* The refinement needs to know that what was trimmed, cleared and forgotten does not
matter. `Inv` says so in three parts: a window holds contacts of the history only, and all of
those that the clock can still count (`WindowsExact`); a flag that is set means that the last
contact found the threshold reached, and one that is missing although it did means that all
contacts have left the window since (`FlagsExact`); a date is that of the last alert, or
forgotten because that alert is an alert window ago (`DatesExact`). From them `AlertIsCrossing` and `AlertIsDue`: the
code returns an alert if and only if `BurstAlarm` raises one. That a rearming threshold is at
least 2 is needed: with 1, a flush between two lone packets would clear the flag, and the code
would alert where the promise does not.

*Pipeline.* `Placed` says what each task has in hand, by the place it has reached; the rest follows
an item from place to place. `KeptInv`: what a producer made is, in its order, what has been
settled of it, followed by what the dispatcher holds, what waits and what the producer itself
holds - an equation of sequences, so that nothing is lost, doubled or overtaken. `AgreeInv` counts
the rounds of every handler against those finished and the one under way, `StopInv` what each
loop took since the stop event against where it stands. `SeenInv`: packets bear their places,
taken and waiting ones together are what was captured, and a detector's history is that of the
packets taken whose turn at it has come; the packet in hand is the last one, and only the
detectors it is through with have seen it. `Only`, the part of a sequence that is one producer's,
is a recursive function: `OnlyAppends` and `OnlyOfNone`, its two equations, are proved first.

*Incidents.* A step that writes a known row leaves the operator's fields and its creation; evidence
is written to a row that is there or to none, and the row of a new case replaces none because ids
only grow. Rows go only in the pruning, which looks at their creation (`CaseStep`). That cases lie apart needs that none was opened in
the future: if a second case of the matter exists, the window of the first had closed before it
was opened, so the first cannot be correlated and its `lastSeen` cannot grow. That a verdict is
borne out by its score follows from the fold of the opinions (`FoldSound`), for any number of
answers of any providers.

*Inventory.* `SavedIsRemembered` compares the file with the records and is not inductive: a lookup
that fails takes the name away. `Unnamed` says that the round in hand holds only devices that have
no name in the records, which stays so because only the round's own step names a device, and it
takes the device out of the round. `Heard` says that no row is from the future, which pruning
relies on: a row that the file says is recent is recent in the records too. The steps that only
add knowledge go through one lemma (`RowsStep`), and one (`KeepsRemembers`) says that knowledge
kept is knowledge remembered.

*Events.* A channel that passes over an alert has a stamp under its key, and a stamp is the time of
an alert it tried to send (`StampsAreSent`). The reader's proof needs the order of the table:
alerts are handled in the order made (`MadeInOrder`), so pruning cuts off the oldest and a row that
stays only moves to later places of the list sorted newest first (`PlacesGrow`). A row that is
still owed therefore lies at the cursor or behind it.

*Deep-inspect service.* Ids carry their second, so two captures of one id were requested in one
second; the later was admitted because the table did not have the earlier, which is only lost in a
restart, and a restart in that second is remembered (`LostBefore`). The rest says that the table
leads to each record that is not lost and that a tshark that has ended does not run again
(`WebInv`), step by step in `CapturesHold`.

*Contacts.* What was announced is known, and nothing is before the baseline ends (`NewIpInv`); the
set in use is that of the last good download, and a date that holds an alert back was told at that
time (`ListsInv`). Of a beacon, the contacts remembered lie a second apart (`Apart`), and every packet
of the window is a contact or follows one, in the window or just before it, within a second
(`Explained`). When a steady burst begins, the contacts in the window are therefore exactly its
beats (`BeatsAreContacts`, `ContactsAreBeats`), so that every gap is the pace, the sum of squares is
that of a constant, and the test of the jitter passes for any bound (`BeatsAreSteady`). TLC had passed `ListedIsReported` with one alert window; the proof showed it
false for a window of 0, where the alert of the moment itself is "not within" it. The statement
now counts that alert, and so does that of `PeriodicIsFlagged`. The proof also showed that a beacon
needs no contact more than `MinContacts`, and the property now says so.

*Captures.* The table of open queries holds exactly those which no later readable frame of their key has
closed or repeated (`Tracks`), stated once for DNS and TLS with the places and keys as parameters
of the lemmas; a new frame then adds at most the one pair the definition calls for. A question that
ends early keeps its part of the capture or loses all of it, so its equation stays (`PairsKept`,
`TimeOutStep`). From keys to talks it is `KeysTell`: where a line tells its talk, equal keys are
equal talks, and a line that does not tell has no key in common with one that does, because no
address prints as nothing.

*Risk.* The register is a function of its sources, so `RiskInv` is its types; the work is in the
functions. `DropScanRuns` goes through the ports in order: by induction from the last port down,
what is kept from a port on is what lies in no block of four (`KeptIsShort`), because the search
goes on behind the end of a run (`BehindIsNext`), never inside. Of the
sum of weights it is enough that it is a number, and 0 for no ports, because `BlameIsFair` and
`VerifyingHelps` compare scores whose exposure is the same.

*Flows.* A flow is what the packets with its key add up to - bytes, number, first and last time -
and a name is the first one heard for its connection (`CaptureInv`). A report moves this into the
table: a row is what the packets of its report with its key add up to, and the rows are exactly
those of the packets within the retention of the last report (`StoreInv`; that a report older than
another is dropped first needs that the clock only advances). Every page then regroups these sums:
if the pages' groups are a function of the row and the row one of the packet, the sum over the
groups is the sum over the packets (`SumRegroups`, from which `GroupIsSent` and `BytesAreSent`). A
list with a limit holds groups none of which is smaller than one it leaves out, and all of them if
they are no more than the limit (`ListingsAreLargest`). The hours of the portal need the arithmetic
of days (`DaysApart`).

*Recursion.* The library's induction theorems take an operator as a parameter, which no
installed prover instantiates. Induction for *sets* of numbers needs none: `SetInduction` and
`NumbersInduct` follow from `WFMin` and `NatLessThanWellFounded`. With them a recursive function
`f[n] == ... f[n - 1] ...` is shown to exist and to satisfy its equation for every argument, which
is what the proofs about `Only`, `DropScanRuns` and sums rest on. For sums it gives induction over
finite sets (`FiniteInduct`), and with it the laws that the library does not have: a sum takes its
elements in any order (`SumTakes`), splits, grows with its set, and can be renamed and regrouped.

*Portal.* The jobs' invariant is inductive as it stands with its types. The composed portal is
shown to be a behaviour of each of its parts, so that what is proved of a part holds of the whole.

A database that cannot be read makes the count zero (`guardrails.py:213`), so
`RateCapHolds` has the condition `"read" \notin Faults`.

## What is only model-checked, and what is not modelled

Only by TLC:

- liveness (`BlockEnds`, `TickEnds`, `Drains`, `JobsSettle`), which is out of the prover's reach;
- with the portal on the same file, nothing of `ActiveCeiling`, `StoreNeverRegresses` and
  `LiftedOnTime`: there they are false, and so they are checked and proved for the monitor alone;
- the five violations, which are traces of instances.

Not modelled:

- the text of prompts, digests, reports and pages; the transport of mail, push and syslog; packet
  parsing; the read-only tools of the portal (ping, iperf, conntrack, chat);
- the configuration: it is read once, its values are the constants;
- the terminal UI, installers, service files, scripts and static pages: no state of their own;
- of a pcap job: the question for time stamps (its summary is two numbers), and a frame with two
  IP headers, whose list of addresses is a key of its own; a line that a time-out cuts (a timed-out
  answer is dropped whole) or that tshark breaks off in the middle;
- the audit rows the reaper adds (no cap counts `__reaper__`);
- failing reads and writes of the sidecar files, torn ones included, which empty a filter until
  the file is written again; two writers of one temporary file name;
- how long the event loop is held by a scan; a clock that is set back;
- the scorer's list of active alerts and the dashboard, which nothing else reads;
- `wait_for` losing an item that arrives with its time-out (the interpreter's affair).

## Plan

Done, in this order: `FirewallBlocks` with `BlockLease`; `AgentTick`; `AlertFilters`; `Detectors` with
`BurstAlarm`; `AlertPipeline`; `PortalJobs`, `FlowHistory` and `Portal`; `Incidents` with
`Reputation`; `EventLog`; `Inventory`; `Risk`; `ContactDetectors`; `PcapAnalysis`; `FlowCapture` and
`FlowStore`; `DeepInspectWeb`.

Left, in order of importance:

1. the sidecar files under failing and torn writes, and two writers of one temporary name;
2. `EventLog` composed with the guardrail that asks for a recent CRITICAL event;
3. the merge and the bounds of the configuration, the state machine of
   `scripts/notify-down.py`, the aliases and live tools of the portal.

## How to run

    tlc -workers 2 -config FirewallBlocks_shared.cfg MCFirewallBlocks
    tlc -workers 2 -config AgentTick.cfg MCAgentTick
    tlc -workers 2 -config AlertFilters.cfg MCAlertFilters
    tlc -workers 2 -config Services.cfg MCServices
    tlc -workers 2 -config Portal.cfg MCPortal
    tlc -workers 2 -config AlertPipeline.cfg MCAlertPipeline
    for m in AgentTick AlertFilters AlertPipeline Analyses Detectors FirewallBlocks Portal Services
    do tlapm ${m}_proofs.tla; done

`PROJECT.json` names every run with its module and configuration, and for every property
the mutant of the model that it must catch.
