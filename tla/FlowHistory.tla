------------------------------ MODULE FlowHistory ------------------------------
(***************************************************************************)
(* The disappeared-flows list of the portal (_update_flow_history and the   *)
(* requests on its rows).  After each report the flows seen lately are      *)
(* compared with those of the report before: what is missing is listed,     *)
(* what is back is taken off the list, and rows that nobody pinned expire.  *)
(* The update is one transaction.  Time is counted in units of the window.  *)
(***************************************************************************)
EXTENDS Naturals

CONSTANTS
    Flows,          \* destinations: pairs of an address and a DNS name
    ReportSpan,         \* a report looks back this far: its duration and 120 s
    RowLife,        \* _RETENTION_DAYS: life of a row nobody pinned
    FlowHorizon     \* bound: the last moment

ASSUME FlowAssumption == ReportSpan \in Nat /\ RowLife \in Nat /\ FlowHorizon \in Nat

VARIABLES
    clock,     \* the time
    captured,  \* flows.db: per flow, when it was last captured, if ever
    snapshot,  \* active_snapshot: the flows of the last update
    history    \* flow_history: the listed flows, one row each

flowVars == <<clock, captured, snapshot, history>>

Pinned == [pinned |-> TRUE, expires |-> 0]
Unpinned == [pinned |-> FALSE, expires |-> clock + RowLife]
Row == [pinned : BOOLEAN, expires : Nat]
Listed == DOMAIN history

FlowTypeOK ==
    /\ clock \in Nat
    /\ captured \subseteq Flows \X Nat
    /\ snapshot \subseteq Flows
    /\ Listed \subseteq Flows
    /\ \A f \in Listed : history[f] \in Row

FlowInit ==
    /\ clock = 0
    /\ captured = {}
    /\ snapshot = {}
    /\ history = [f \in {} |-> Pinned]

-----------------------------------------------------------------------------
\* netwatchm report stores the flows F it saw.
InsertFlows(F) ==
    /\ captured' = {c \in captured : c[1] \notin F} \cup (F \X {clock})
    /\ UNCHANGED <<clock, snapshot, history>>

Current == {f \in Flows : \E c \in captured : c[1] = f /\ c[2] + ReportSpan >= clock}

\* The list after an update: rows of flows in both reports go, flows of the
\* last report alone get a row unless they have one, expired rows go.  (The
\* new row's port and protocol are looked up among the current flows, where
\* this flow is not: both are NULL, and no row here has them.)
ExpiredPinned(row) == row.expires < clock       \* mutant: pinned rows run out too

Expired(row) == ~row.pinned /\ row.expires < clock

WentInactive == snapshot \ Current
WasActive    == snapshot       \* mutant: rows of flows that have left again go, too
Reactivated  == snapshot \cap Current

UpdatedHistory ==
    LET new  == WentInactive \ Listed
        gone == {f \in Listed : (f \in Reactivated /\ ~history[f].pinned) \/ Expired(history[f])}
    IN  [f \in new \cup (Listed \ gone) |-> IF f \in new THEN Unpinned ELSE history[f]]

UpdateFlowHistory ==
    /\ history' = UpdatedHistory
    /\ snapshot' = Current
    /\ UNCHANGED <<clock, captured>>

-----------------------------------------------------------------------------
(* The requests on a row.  A row that has gone in the meantime is not found *)
(* (its id is not given again) and nothing is changed.                      *)

Pin(f) ==
    /\ f \in Listed
    /\ history' = [history EXCEPT ![f] = Pinned]
    /\ UNCHANGED <<clock, captured, snapshot>>

Unpin(f) ==
    /\ f \in Listed
    /\ history' = [history EXCEPT ![f] = Unpinned]
    /\ UNCHANGED <<clock, captured, snapshot>>

DeleteRow(f) ==
    /\ f \in Listed
    /\ history' = [g \in Listed \ {f} |-> history[g]]
    /\ UNCHANGED <<clock, captured, snapshot>>

PassTime ==
    /\ clock < FlowHorizon
    /\ clock' = clock + 1
    /\ UNCHANGED <<captured, snapshot, history>>

RowRequest == \E f \in Flows : Pin(f) \/ Unpin(f) \/ DeleteRow(f)

FlowNext ==
    \/ \E F \in SUBSET Flows : InsertFlows(F)
    \/ UpdateFlowHistory
    \/ RowRequest
    \/ PassTime

FlowSpec == FlowInit /\ [][FlowNext]_flowVars

-----------------------------------------------------------------------------
(* Properties.                                                              *)

\* A flow that leaves the reports is listed in the same step, unless a row of
\* an earlier absence was still there and ran out at that very moment (a row
\* is taken off only by the second report that has the flow again, and is
\* not dated anew when the flow leaves before that).
LeavingIsListed ==
    [][\A f \in snapshot \ snapshot' :
           f \notin DOMAIN history' => f \in Listed /\ Expired(history[f])]_flowVars

\* What somebody pinned stays, through disappearing, coming back and expiry,
\* until somebody unpins or deletes it.
PinnedStay ==
    [][\A f \in Listed :
           history[f].pinned => \/ f \in DOMAIN history' /\ history'[f].pinned
                                \/ Unpin(f) \/ DeleteRow(f)]_flowVars
===============================================================================
