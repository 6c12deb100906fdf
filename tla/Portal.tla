-------------------------------- MODULE Portal --------------------------------
(***************************************************************************)
(* The portal's report job together with the flow history it maintains:     *)
(* the capture of a report stores flows, its last step compares them, and   *)
(* requests on the rows fall between any two steps of the job.              *)
(***************************************************************************)
EXTENDS PortalJobs, FlowHistory

portalVars == <<jobVars, flowVars>>

PortalInit == JobsInit /\ FlowInit

\* netwatchm report: the flows of the capture are stored before it exits.
CaptureFlows == ReportCaptured /\ \E F \in SUBSET Flows : InsertFlows(F)

\* A capture that times out may have stored its flows all the same.
CaptureFails == ReportFails /\ (UNCHANGED flowVars \/ \E F \in SUBSET Flows : InsertFlows(F))

\* The update is best effort: a database that cannot be read or written
\* leaves the history as it is, and the report is ready.
FinishReport == ReportReady /\ (UpdateFlowHistory \/ UNCHANGED flowVars)

JobsAlone ==
    /\ JobRequest \/ JobStep \/ PostReport \/ ArchiveReport \/ Restart
    /\ UNCHANGED flowVars

FlowsAlone == (RowRequest \/ PassTime) /\ UNCHANGED jobVars

PortalNext == CaptureFlows \/ CaptureFails \/ FinishReport \/ JobsAlone \/ FlowsAlone

\* A thread that has work goes on with it: each tool has a time-out.
PortalFairness ==
    /\ \A t \in Targets : /\ WF_portalVars(RunNmapScan(t) /\ UNCHANGED flowVars)
                          /\ WF_portalVars(RunDeepInspect(t) /\ UNCHANGED flowVars)
                          /\ WF_portalVars(RunInvestigate(t) /\ UNCHANGED flowVars)
    /\ \A u \in Uploads : WF_portalVars(AnalyzePcap(u) /\ UNCHANGED flowVars)
    /\ WF_portalVars(RunAnalytics /\ UNCHANGED flowVars)
    /\ WF_portalVars(CaptureFlows \/ CaptureFails)
    /\ WF_portalVars(ArchiveReport /\ UNCHANGED flowVars)
    /\ WF_portalVars(FinishReport)

PortalSpec == PortalInit /\ [][PortalNext]_portalVars /\ PortalFairness
===============================================================================
