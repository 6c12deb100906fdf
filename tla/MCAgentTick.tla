----------------------------- MODULE MCAgentTick -----------------------------
(***************************************************************************)
(* Small instances of AgentTick for TLC: two tools that share a cap, one   *)
(* with a smaller cap of its own, and a read-only tool.                    *)
(***************************************************************************)
EXTENDS AgentTick

CONSTANTS add_whitelist, remove_whitelist, notify, query

MCTools  == {add_whitelist, remove_whitelist, notify, query}
MCGroups == {{add_whitelist, remove_whitelist}, {notify}}
MCCap    == [g \in MCGroups |-> IF notify \in g THEN 1 ELSE 2]
MCWindow == [g \in MCGroups |-> 1]
===============================================================================
