------------------------------- MODULE AgentTick -------------------------------
(***************************************************************************)
(* The decision cycle of the agent (agent_loop), the rate caps that bound  *)
(* it (Guardrails) and the audit database both work on (AuditLog, pruned   *)
(* by the retention sweep).                                                *)
(*                                                                         *)
(* A tick asks the language model, dispatches the tool calls it answers    *)
(* with, and asks again, a bounded number of times.  The model is free:    *)
(* it may call any tool any number of times.  The event loop is free for   *)
(* other tasks only while the model is thinking (to_thread) and between    *)
(* ticks; from a guardrail's check to the row that records the outcome     *)
(* nothing else of the monitor runs, but time passes (a scan takes         *)
(* minutes) and the process can be killed.                                 *)
(*                                                                         *)
(* What an action does is the subject of other modules.  Here an action is *)
(* the moment it takes effect and the row that says so; the two can come   *)
(* apart.                                                                  *)
(***************************************************************************)
EXTENDS Integers, FiniteSets

CONSTANTS
  Tools,          \* tools the model may call
  Groups,         \* sets of action tools that share a rate cap
  Cap,            \* the cap of a group: GuardrailLimits.max_..._per_hour / _per_day
  Window,         \* the period it is counted over: 3600 or 86400 seconds, in clock units
  Retention,      \* retention_days, in clock units
  MaxHops,        \* AgentConfig.max_tool_hops
  MaxCalls,       \* calls in one answer: bounded by the model's max_tokens
  MaxTick,        \* a tick's longest duration: the time-outs of its calls add up to it
  MaxActs,        \* bound of the model: actions that take effect
  MaxDecisions,   \* bound of the model: ticks
  Horizon,        \* bound of the clock
  Modes,          \* configurations the monitor may be started in
  Faults,         \* what may fail: a write or a read of the audit database, the process
  None

ASSUME ConstantsAssumption ==
  /\ Groups \subseteq SUBSET Tools
  /\ Cap \in [Groups -> Nat] /\ Window \in [Groups -> Nat]
  /\ {Retention, MaxHops, MaxCalls, MaxTick, MaxActs, MaxDecisions, Horizon} \subseteq Nat
  /\ MaxTick <= Retention /\ \A g \in Groups : Window[g] + MaxTick <= Retention
  /\ Modes \subseteq {"live", "dry", "digest"}
  /\ Faults \subseteq {"write", "read", "kill"}
  /\ None \notin Nat /\ None \notin Tools

ActionTools == UNION Groups

\* A row of agent_tool_calls that a cap counts, of an action's n-th attempt; and the action
\* itself, which took effect at some moment and was recorded with a status, or lost.
Row == [n: Nat, decision: Nat, tool: Tools, ts: Nat]
Effect == [n: Nat, decision: Nat, tool: Tools, status: {"executed", "error", "lost"}, at: Nat]
Decision == [id: Nat, ts: Nat]

VARIABLES
  now,        \* time.time()
  mode,       \* configuration of the running monitor, or "down"
  pc,         \* what the agent task does next
  decision,   \* id of the tick's row in agent_decisions ...
  started,    \* ... and when it was written
  hop,        \* tool round-trips so far
  left,       \* calls of the answer not dispatched yet
  tool,       \* the action being run ...
  outcome,    \* ... what the executor returned for it ...
  acted,      \* ... and when it took effect, if it did
  decisions,  \* agent_decisions
  rows,       \* agent_tool_calls: the actions that succeeded (status executed) ...
  chatter,    \* ... and of all other calls, which no cap counts, only whose they are
  nDecisions, \* AUTOINCREMENT of agent_decisions
  nActs,      \* history: actions begun so far
  acts        \* history: actions that took effect; "lost" if no row says so

tickVars == <<pc, decision, started, hop, left, tool, outcome, acted>>
dbVars   == <<decisions, rows, chatter, nDecisions>>
vars     == <<now, mode, tickVars, dbVars, nActs, acts>>

(***************************************************************************)
(* Guardrails                                                              *)
(***************************************************************************)

\* _count_recent_successful, summed over the tools of a group.
recent_successful(g) ==
  Cardinality({r \in rows : r.tool \in g /\ r.ts >= now - Window[g]})

\* Faulty variants: one action too many; each tool counted for itself.
AdmittedOneTooMany(t) == \A g \in Groups : t \in g => recent_successful(g) <= Cap[g]
AdmittedByTool(t) ==
  \A g \in Groups : t \in g =>
    Cardinality({r \in rows : r.tool = t /\ r.ts >= now - Window[g]})
      < Cap[g]

\* The rate caps of check_block, check_add_whitelist, ...: below the cap of its group.
Admitted(t) == \A g \in Groups : t \in g => recent_successful(g) < Cap[g]

(***************************************************************************)
(* A tick                                                                  *)
(***************************************************************************)

Asleep == /\ pc' = "sleep" /\ decision' = 0 /\ started' = 0 /\ hop' = 0 /\ left' = 0
          /\ tool' = None /\ outcome' = None /\ acted' = None

\* AuditLog.record_tool_call, of a call that was refused, failed or only read.
record_other_call ==
  /\ chatter' = chatter \cup {decision}
  /\ UNCHANGED <<decisions, rows, nDecisions>>

\* AuditLog.record_decision, and the first question to the model.  A digest asks once and
\* offers no tools.
StartTick ==
  /\ mode # "down" /\ pc = "sleep"
  /\ nDecisions < MaxDecisions   \* bound of the model
  /\ nDecisions' = nDecisions + 1
  /\ decisions' = decisions \cup {[id |-> nDecisions + 1, ts |-> now]}
  /\ decision' = nDecisions + 1 /\ started' = now
  /\ pc' = IF mode = "digest" THEN "narrate" ELSE "think"
  /\ UNCHANGED <<now, mode, hop, left, tool, outcome, acted, rows, chatter, nActs, acts>>

\* The digest is pushed, whatever the model answered.
PushDigest ==
  /\ pc = "narrate" /\ Asleep
  /\ UNCHANGED <<now, mode, dbVars, nActs, acts>>

\* The call to the model raises or times out: the tick ends.
LlmFails ==
  /\ pc = "think"
  /\ record_other_call
  /\ Asleep
  /\ UNCHANGED <<now, mode, nActs, acts>>

\* No tool calls: the tick ends.
LlmConcludes ==
  /\ pc = "think" /\ Asleep
  /\ UNCHANGED <<now, mode, dbVars, nActs, acts>>

\* Tool calls after the last hop are not dispatched.
LlmOverHops ==
  /\ pc = "think" /\ hop >= MaxHops
  /\ record_other_call
  /\ Asleep
  /\ UNCHANGED <<now, mode, nActs, acts>>

\* Faulty variant: one round-trip too many.
LlmCallsOneMore ==
  /\ pc = "think" /\ hop <= MaxHops
  /\ left' \in 1..MaxCalls
  /\ pc' = "dispatch"
  /\ UNCHANGED <<now, mode, decision, started, hop, tool, outcome, acted, dbVars, nActs, acts>>

\* The model asks for tools: the calls are dispatched one by one.
LlmCalls ==
  /\ pc = "think" /\ hop < MaxHops
  /\ left' \in 1..MaxCalls
  /\ pc' = "dispatch"
  /\ UNCHANGED <<now, mode, decision, started, hop, tool, outcome, acted, dbVars, nActs, acts>>

\* Faulty variant: the round-trips are not counted.
NextCallUncounted ==
  /\ left' = left - 1
  /\ pc' = IF left = 1 THEN "think" ELSE "dispatch"
  /\ tool' = None /\ outcome' = None /\ acted' = None
  /\ UNCHANGED <<decision, started, hop>>

\* On to the next call of the answer, or back to the model.
NextCall ==
  /\ left' = left - 1
  /\ IF left = 1 THEN pc' = "think" /\ hop' = hop + 1
                 ELSE pc' = "dispatch" /\ UNCHANGED hop
  /\ tool' = None /\ outcome' = None /\ acted' = None
  /\ UNCHANGED <<decision, started>>

\* A read-only tool.
ReadTool(t) ==
  /\ pc = "dispatch" /\ t \notin ActionTools
  /\ record_other_call
  /\ NextCall
  /\ UNCHANGED <<now, mode, nActs, acts>>

\* An action tool in dry-run, or one a guardrail refuses: for its arguments or the state
\* (nothing is said about those here), or because its group is at the cap.
Refuse(t) ==
  /\ pc = "dispatch" /\ t \in ActionTools
  /\ record_other_call
  /\ NextCall
  /\ UNCHANGED <<now, mode, nActs, acts>>

\* Executor.dispatch: the guardrails let the call through ...
Begin(t) ==
  /\ pc = "dispatch" /\ t \in ActionTools
  /\ mode = "live"
  /\ Admitted(t) \/ "read" \in Faults   \* a count that cannot be read is taken as 0
  /\ nActs < MaxActs   \* bound of the model
  /\ nActs' = nActs + 1
  /\ tool' = t /\ pc' = "act"
  /\ UNCHANGED <<now, mode, decision, started, hop, left, outcome, acted, dbVars, acts>>

\* ... and it runs.  A call that is reported as an error may have taken effect: a scan
\* that ran into its time-out, a notification whose answer was lost.
Act ==
  /\ pc = "act"
  /\ \/ outcome' = "executed" /\ acted' = now
     \/ outcome' = "error" /\ acted' \in {now, None}
  /\ pc' = "record"
  /\ UNCHANGED <<now, mode, decision, started, hop, left, tool, dbVars, nActs, acts>>

Remember(status) ==
  acts' = IF acted = None THEN acts
          ELSE acts \cup {[n |-> nActs, decision |-> decision, tool |-> tool,
                            status |-> status, at |-> acted]}

\* The agent loop records what the executor returned.
Record ==
  /\ pc = "record"
  /\ \/ /\ outcome = "executed"
        /\ rows' = rows \cup {[n |-> nActs, decision |-> decision, tool |-> tool, ts |-> now]}
        /\ UNCHANGED <<decisions, chatter, nDecisions>>
     \/ outcome = "error" /\ record_other_call
  /\ Remember(outcome)
  /\ NextCall
  /\ UNCHANGED <<now, mode, nActs>>

\* The row cannot be written: the exception ends the tick.
AuditFails ==
  /\ "write" \in Faults /\ pc \in {"dispatch", "record"}
  /\ Remember("lost")
  /\ Asleep
  /\ UNCHANGED <<now, mode, dbVars, nActs>>

(***************************************************************************)
(* The rest of the monitor                                                 *)
(***************************************************************************)

\* Faulty variant: the decisions are deleted first, so that no row is found by them.
PruneDecisionsFirst ==
  /\ mode # "down" /\ pc \in {"sleep", "think", "narrate"}
  /\ \E d \in decisions : d.ts < now - Retention
  /\ decisions' = {d \in decisions : d.ts >= now - Retention}
  /\ UNCHANGED <<now, mode, tickVars, rows, chatter, nDecisions, nActs, acts>>

\* prune_audit_db: one transaction, on the event loop, between two awaits of the agent.
Prune ==
  /\ mode # "down" /\ pc \in {"sleep", "think", "narrate"}
  /\ LET old == {d \in decisions : d.ts < now - Retention} IN
       /\ old # {}
       /\ rows' = {r \in rows : \A d \in old : r.decision # d.id}
       /\ chatter' = {i \in chatter : \A d \in old : i # d.id}
       /\ decisions' = decisions \ old
  /\ UNCHANGED <<now, mode, tickVars, nDecisions, nActs, acts>>

Tick ==
  /\ now < Horizon
  /\ pc # "sleep" => now < started + MaxTick
  /\ now' = now + 1
  /\ UNCHANGED <<mode, tickVars, dbVars, nActs, acts>>

\* The monitor stops while the agent awaits, or is killed anywhere.
Stop ==
  /\ mode # "down"
  /\ pc \in {"sleep", "think", "narrate"} \/ "kill" \in Faults
  /\ mode' = "down"
  /\ Remember("lost")
  /\ Asleep
  /\ UNCHANGED <<now, dbVars, nActs>>

Start(m) ==
  /\ mode = "down" /\ m \in Modes
  /\ mode' = m
  /\ UNCHANGED <<now, tickVars, dbVars, nActs, acts>>

(***************************************************************************)
(* Specification                                                           *)
(***************************************************************************)

Init ==
  /\ now = 0 /\ mode \in Modes
  /\ pc = "sleep" /\ decision = 0 /\ started = 0 /\ hop = 0 /\ left = 0
  /\ tool = None /\ outcome = None /\ acted = None
  /\ decisions = {} /\ rows = {} /\ chatter = {} /\ nDecisions = 0
  /\ nActs = 0 /\ acts = {}

\* The steps of a tick that has begun.
InTick ==
  \/ PushDigest \/ LlmFails \/ LlmConcludes \/ LlmOverHops \/ LlmCalls
  \/ \E t \in Tools : ReadTool(t) \/ Refuse(t) \/ Begin(t)
  \/ Act \/ Record \/ AuditFails

Next == StartTick \/ InTick \/ Prune \/ Tick \/ Stop \/ \E m \in Modes : Start(m)

Spec == Init /\ [][Next]_vars

\* The model answers or the call times out, and so does every subprocess and request.
FairSpec == Spec /\ WF_vars(InTick)

(***************************************************************************)
(* Properties                                                              *)
(***************************************************************************)

TypeOK ==
  /\ now \in Nat /\ mode \in Modes \cup {"down"}
  /\ pc \in {"sleep", "think", "narrate", "dispatch", "act", "record"}
  /\ decision \in Nat /\ started \in Nat /\ hop \in Nat /\ left \in Nat
  /\ tool \in Tools \cup {None} /\ outcome \in {"executed", "error", None}
  /\ acted \in Nat \cup {None}
  /\ decisions \in SUBSET Decision /\ rows \in SUBSET Row /\ chatter \in SUBSET Nat
  /\ nDecisions \in Nat /\ nActs \in Nat /\ acts \in SUBSET Effect
  /\ pc \in {"act", "record"} => tool \in ActionTools
  /\ pc \in {"dispatch", "act", "record"} => left >= 1 /\ hop < MaxHops

\* The actions of group g that took effect in the closed period of its window from x on.
ActsIn(g, x, statuses) ==
  {a \in acts : a.tool \in g /\ a.status \in statuses /\ a.at \in x..(x + Window[g])}

\* In no period as long as its window do more actions of a group succeed, and get recorded,
\* than its cap, however the ticks, restarts and prunings of the database fall, as long as the
\* database can be read.
RecordedWithinCap ==
  \A g \in Groups, x \in 0..now : Cardinality(ActsIn(g, x, {"executed"})) <= Cap[g]

\* An action whose row is not written is the last of its tick: a failing write lets one action
\* of a tick escape the caps, never a second.
LossEndsTick ==
  \A a, b \in acts : a.status = "lost" /\ b.decision = a.decision => b.n <= a.n

\* The rate caps, and what a row that is missing can do to them.
RateCap == RecordedWithinCap /\ LossEndsTick

\* What the README says of the caps ("10 scans/hr, 20 notifications/day"): they bound the
\* actions that take effect.
ActionsWithinCap ==
  \A g \in Groups, x \in 0..now : Cardinality(ActsIn(g, x, {"executed", "error"})) <= Cap[g]

\* A tool call of a tick never outlives the decision it belongs to: the calls of a decision
\* are deleted with it, and the decision of a running tick is not deleted.  (The rows the
\* firewall reaper adds under the decision that set a block are not part of the model.)
NoOrphans == \A i \in {r.decision : r \in rows} \cup chatter : \E d \in decisions : d.id = i

\* A tick ends: however the model keeps calling tools, the loop comes back to its sleep.
TickEnds == pc # "sleep" ~> pc = "sleep"
===============================================================================
