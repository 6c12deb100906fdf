------------------------------- MODULE MCPortal -------------------------------
(***************************************************************************)
(* Small instances of Portal for TLC.  Jobs of different kinds meet in the  *)
(* threads only, flows and rows in the report only: the two sides are        *)
(* explored one after the other, all the jobs with no flow captured, and     *)
(* the report alone with its flows.                                          *)
(***************************************************************************)
EXTENDS Portal

VARIABLE side

MCVars == <<portalVars, side>>

MCInit == PortalInit /\ side \in {"jobs", "flows"}

\* Jobs without flows, or the report without the other jobs.
OnItsSide ==
    IF side = "jobs" THEN flowVars' = flowVars
    ELSE uploads' = uploads /\ \A j \in Jobs \ {Report} :
             status'[j] = status[j] /\ pending'[j] = pending[j]

MCNext == PortalNext /\ OnItsSide /\ UNCHANGED side

MCSpec == MCInit /\ [][MCNext]_MCVars /\ PortalFairness
===============================================================================
