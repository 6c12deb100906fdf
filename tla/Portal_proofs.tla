---------------------------- MODULE Portal_proofs ----------------------------
(***************************************************************************)
(* The portal, for all targets, uploads and destinations, any number of    *)
(* threads and of archived reports, and all lives of rows:                 *)
(*  - the background jobs keep JobsAreTracked.  It is inductive together   *)
(*    with the types: a request that claims a job finds it without a       *)
(*    thread, because its state does not say running, and an upload finds  *)
(*    no thread because its file is not there yet;                         *)
(*  - the flow history keeps its promises step by step;                    *)
(*  - the behaviours of the portal as a whole are behaviours of the jobs   *)
(*    and of the flow history, so that what holds of each holds of both.   *)
(***************************************************************************)
EXTENDS Portal, TLAPS

-------------------------------------------------------------------------------
(* The background jobs *)

\* Jobs of different kinds, and of different targets, are different; those
\* that are claimed under the lock are none of those that are marked late.
LEMMA JobsDiffer ==
    /\ Claimed \subseteq Jobs /\ Late \subseteq Jobs /\ Claimed \cap Late = {}
    /\ Report \in Claimed /\ Analytics \in Late
    /\ \A t \in Targets : Investigate(t) \in Claimed /\ Nmap(t) \in Late /\ Deep(t) \in Late
    /\ \A u \in Uploads : Pcap(u) \in Claimed
    /\ \A t \in Targets : Investigate(t) # Report
    /\ \A u \in Uploads : Pcap(u) # Report
    /\ \A t \in Targets, u \in Uploads : Investigate(t) # Pcap(u)
    /\ \A s, t \in Targets : Investigate(s) = Investigate(t) => s = t
    /\ \A u, v \in Uploads : Pcap(u) = Pcap(v) => u = v
  BY DEF Jobs, Claimed, Late, Report, Analytics, Investigate, Nmap, Deep, Pcap

JobsInv == JobsTypeOK /\ JobsAreTracked

\* Before the first request nothing runs.
LEMMA JobsInvInit == JobsInit => JobsInv
  BY JobsDiffer, JobsAssumption DEF JobsInit, JobsInv, JobsTypeOK, JobsAreTracked, Stages

\* A request for a job that its own thread will mark.
LEMMA StartLateKeeps ==
    ASSUME JobsInv, NEW j \in Late, StartLate(j)
    PROVE  JobsInv'
  <1>1. JobsTypeOK'
    BY JobsDiffer DEF JobsInv, JobsTypeOK, StartLate
  <1>2. JobsAreTracked'
    BY JobsDiffer DEF JobsInv, JobsTypeOK, JobsAreTracked, StartLate
  <1> QED  BY <1>1, <1>2 DEF JobsInv

\* A thread marks its job.
LEMMA MarkKeeps ==
    ASSUME JobsInv, NEW j \in Late, Mark(j)
    PROVE  JobsInv'
  <1>1. JobsTypeOK'
    BY JobsDiffer DEF JobsInv, JobsTypeOK, Mark
  <1>2. JobsAreTracked'
    BY JobsDiffer DEF JobsInv, JobsTypeOK, JobsAreTracked, Mark
  <1> QED  BY <1>1, <1>2 DEF JobsInv

\* A thread ends, whether it was marked late or claimed by the request of an
\* investigation.
LEMMA SettleKeeps ==
    ASSUME JobsInv, NEW j \in Late \cup {Investigate(t) : t \in Targets}, Settle(j)
    PROVE  JobsInv'
  <1>1. j \in Jobs /\ j # Report /\ (\A u \in Uploads : j # Pcap(u))
    BY JobsDiffer
  <1>2. PICK outcome \in {"ready", "error"} :
            /\ active[j] > 0
            /\ active' = [active EXCEPT ![j] = @ - 1]
            /\ status' = [status EXCEPT ![j] = outcome]
            /\ UNCHANGED <<pending, stage, archives, uploads>>
    BY DEF Settle, End
  <1>3. JobsTypeOK'
    BY <1>1, <1>2, JobsDiffer DEF JobsInv, JobsTypeOK
  <1>4. JobsAreTracked'
    BY <1>1, <1>2, JobsDiffer DEF JobsInv, JobsTypeOK, JobsAreTracked
  <1> QED  BY <1>3, <1>4 DEF JobsInv

\* An investigation is claimed by its request.
LEMMA InvestigateKeeps ==
    ASSUME JobsInv, NEW t \in Targets, PostInvestigate(t)
    PROVE  JobsInv'
  <1>1. JobsTypeOK'
    BY JobsDiffer DEF JobsInv, JobsTypeOK, PostInvestigate, Claim
  <1>2. active[Investigate(t)] = 0
    BY JobsDiffer DEF JobsInv, JobsTypeOK, JobsAreTracked, PostInvestigate, Claim
  <1>3. JobsAreTracked'
    BY <1>2, JobsDiffer DEF JobsInv, JobsTypeOK, JobsAreTracked, PostInvestigate, Claim
  <1> QED  BY <1>1, <1>3 DEF JobsInv

\* The steps of an upload.
LEMMA UploadKeeps ==
    ASSUME JobsInv, NEW u \in Uploads,
           PostUpload(u) \/ UploadFails(u) \/ AnalyzePcap(u) \/ RemoveUpload(u)
    PROVE  JobsInv'
  <1>1. CASE PostUpload(u)
    <2>1. JobsTypeOK'
      BY <1>1, JobsDiffer DEF JobsInv, JobsTypeOK, PostUpload, Claim
    <2>2. active[Pcap(u)] = 0
      BY <1>1, JobsDiffer DEF JobsInv, JobsTypeOK, JobsAreTracked, PostUpload
    <2>3. JobsAreTracked'
      BY <1>1, <2>2, JobsDiffer DEF JobsInv, JobsTypeOK, JobsAreTracked, PostUpload, Claim
    <2> QED  BY <2>1, <2>3 DEF JobsInv
  <1>2. CASE UploadFails(u)
    BY <1>2, JobsDiffer DEF JobsInv, JobsTypeOK, JobsAreTracked, UploadFails
  <1>3. CASE AnalyzePcap(u)
    <2>1. JobsTypeOK'
      BY <1>3, JobsDiffer DEF JobsInv, JobsTypeOK, AnalyzePcap
    <2>2. JobsAreTracked'
      BY <1>3, JobsDiffer DEF JobsInv, JobsTypeOK, JobsAreTracked, AnalyzePcap
    <2> QED  BY <2>1, <2>2 DEF JobsInv
  <1>4. CASE RemoveUpload(u)
    <2>1. JobsTypeOK'
      BY <1>4, JobsDiffer DEF JobsInv, JobsTypeOK, RemoveUpload, End
    <2>2. active'[Pcap(u)] = 0
      BY <1>4, JobsDiffer DEF JobsInv, JobsTypeOK, JobsAreTracked, RemoveUpload, End
    <2>3. JobsAreTracked'
      BY <1>4, <2>2, JobsDiffer DEF JobsInv, JobsTypeOK, JobsAreTracked, RemoveUpload, End
    <2> QED  BY <2>1, <2>3 DEF JobsInv
  <1> QED  BY <1>1, <1>2, <1>3, <1>4

\* The steps of a report.
LEMMA ReportKeeps ==
    ASSUME JobsInv, PostReport \/ ReportStep
    PROVE  JobsInv'
  <1>1. CASE PostReport
    <2>1. JobsTypeOK'
      BY <1>1, JobsDiffer DEF JobsInv, JobsTypeOK, PostReport, Claim, Stages
    <2>2. active[Report] = 0
      BY <1>1, JobsDiffer DEF JobsInv, JobsTypeOK, JobsAreTracked, PostReport, Claim
    <2>3. JobsAreTracked'
      BY <1>1, <2>2, JobsDiffer DEF JobsInv, JobsTypeOK, JobsAreTracked, PostReport, Claim
    <2> QED  BY <2>1, <2>3 DEF JobsInv
  <1>2. CASE ReportCaptured
    BY <1>2 DEF JobsInv, JobsTypeOK, JobsAreTracked, ReportCaptured, Stages
  <1>3. CASE ArchiveReport
    BY <1>3, JobsAssumption DEF JobsInv, JobsTypeOK, JobsAreTracked, ArchiveReport, Stages
  <1>4. CASE ReportFails \/ ReportReady
    <2>1. /\ active[Report] > 0
          /\ active' = [active EXCEPT ![Report] = @ - 1]
          /\ \E outcome \in {"ready", "error"} : status' = [status EXCEPT ![Report] = outcome]
          /\ stage' = "idle"
          /\ UNCHANGED <<pending, archives, uploads>>
      BY <1>4 DEF ReportFails, ReportReady, End
    <2>2. JobsTypeOK'
      BY <2>1, JobsDiffer DEF JobsInv, JobsTypeOK, Stages
    <2>3. active'[Report] = 0 /\ status'[Report] # "running"
      BY <2>1, JobsDiffer DEF JobsInv, JobsTypeOK, JobsAreTracked
    <2>4. JobsAreTracked'
      BY <2>1, <2>3, JobsDiffer DEF JobsInv, JobsTypeOK, JobsAreTracked
    <2> QED  BY <2>2, <2>4 DEF JobsInv
  <1> QED  BY <1>1, <1>2, <1>3, <1>4 DEF ReportStep

\* Every step of the portal keeps the invariant.
LEMMA JobsInvNext == JobsInv /\ [JobsNext]_jobVars => JobsInv'
  <1> SUFFICES ASSUME JobsInv, [JobsNext]_jobVars  PROVE JobsInv'
    OBVIOUS
  <1>1. CASE JobRequest
    <2>1. CASE \E t \in Targets : PostNmap(t) \/ PostNmapScan(t) \/ PostDeepStart(t) \/ PostDeep(t)
      <3>1. PICK j \in Late : StartLate(j)
        BY <2>1, JobsDiffer DEF PostNmap, PostNmapScan, PostDeepStart, PostDeep
      <3> QED  BY <3>1, StartLateKeeps
    <2>2. CASE \E t \in Targets : PostInvestigate(t)
      BY <2>2, InvestigateKeeps
    <2>3. CASE \E u \in Uploads : PostUpload(u) \/ UploadFails(u)
      BY <2>3, UploadKeeps
    <2>4. CASE PostAnalytics
      BY <2>4, StartLateKeeps, JobsDiffer DEF PostAnalytics
    <2> QED  BY <1>1, <2>1, <2>2, <2>3, <2>4 DEF JobRequest
  <1>2. CASE JobStep
    <2>1. CASE \E t \in Targets : RunNmapScan(t) \/ RunDeepInspect(t) \/ RunInvestigate(t)
      <3>1. PICK t \in Targets : RunNmapScan(t) \/ RunDeepInspect(t) \/ RunInvestigate(t)
        BY <2>1
      <3>2. \/ \E j \in Late : Mark(j)
            \/ \E j \in Late \cup {Investigate(s) : s \in Targets} : Settle(j)
        BY <3>1, JobsDiffer DEF RunNmapScan, RunDeepInspect, RunInvestigate
      <3> QED  BY <3>2, MarkKeeps, SettleKeeps
    <2>2. CASE \E u \in Uploads : AnalyzePcap(u) \/ RemoveUpload(u)
      BY <2>2, UploadKeeps
    <2>3. CASE RunAnalytics
      BY <2>3, MarkKeeps, SettleKeeps, JobsDiffer DEF RunAnalytics
    <2> QED  BY <1>2, <2>1, <2>2, <2>3 DEF JobStep
  <1>3. CASE PostReport \/ ReportStep
    BY <1>3, ReportKeeps
  <1>4. CASE Restart
    BY <1>4, JobsDiffer DEF JobsInv, JobsTypeOK, JobsAreTracked, Restart, Stages
  <1>5. CASE UNCHANGED jobVars
    BY <1>5 DEF JobsInv, JobsTypeOK, JobsAreTracked, jobVars
  <1> QED  BY <1>1, <1>2, <1>3, <1>4, <1>5 DEF JobsNext

\* The inductive invariant of the jobs.
THEOREM JobsSafe == JobsSpec => []JobsInv
  <1>1. JobsInit => JobsInv
    BY JobsInvInit
  <1>2. JobsInv /\ [JobsNext]_jobVars => JobsInv'
    BY JobsInvNext
  <1> QED  BY <1>1, <1>2, PTL DEF JobsSpec

\* Types are correct.
THEOREM JobsTyped == JobsSpec => []JobsTypeOK
  <1>1. JobsInv => JobsTypeOK
    BY DEF JobsInv
  <1> QED  BY <1>1, JobsSafe, PTL

\* A claimed job has at most one thread, and no state says running without a
\* thread that will change it (_run_report, _run_pcap_job and their likes).
THEOREM JobsTracked == JobsSpec => []JobsAreTracked
  <1>1. JobsInv => JobsAreTracked
    BY DEF JobsInv
  <1> QED  BY <1>1, JobsSafe, PTL

-------------------------------------------------------------------------------
(* The flow history, and the whole *)

\* A new report's rows are rows.
LEMMA UpdatedIsTyped ==
    ASSUME FlowTypeOK
    PROVE  /\ DOMAIN UpdatedHistory \subseteq Flows
           /\ \A f \in DOMAIN UpdatedHistory : UpdatedHistory[f] \in Row
  <1>1. Unpinned \in Row
    BY FlowAssumption DEF FlowTypeOK, Unpinned, Row
  <1>2. WentInactive \subseteq Flows
    BY DEF FlowTypeOK, WentInactive
  <1> QED  BY <1>1, <1>2 DEF UpdatedHistory, FlowTypeOK, Listed

\* Types of the flow history are kept by every step.
LEMMA FlowTypeNext == FlowTypeOK /\ [FlowNext]_flowVars => FlowTypeOK'
  <1> SUFFICES ASSUME FlowTypeOK, [FlowNext]_flowVars  PROVE FlowTypeOK'
    OBVIOUS
  <1>1. ASSUME NEW F \in SUBSET Flows, InsertFlows(F)  PROVE FlowTypeOK'
    BY <1>1 DEF InsertFlows, FlowTypeOK, Listed, Row
  <1>2. CASE UpdateFlowHistory
    <2>1. Current \subseteq Flows
      BY DEF Current
    <2>2. /\ history' = UpdatedHistory
          /\ snapshot' = Current
          /\ UNCHANGED <<clock, captured>>
      BY <1>2 DEF UpdateFlowHistory
    <2>3. (DOMAIN history)' \subseteq Flows /\ \A f \in (DOMAIN history)' : history'[f] \in Row
      BY <2>2, UpdatedIsTyped
    <2> QED  BY <2>1, <2>2, <2>3 DEF FlowTypeOK, Listed, Row
  <1>3. ASSUME NEW f \in Flows, Pin(f)  PROVE FlowTypeOK'
    <2>1. Pinned \in Row
      BY DEF Pinned, Row
    <2> QED  BY <1>3, <2>1 DEF Pin, FlowTypeOK, Listed, Row
  <1>4. ASSUME NEW f \in Flows, Unpin(f)  PROVE FlowTypeOK'
    <2>1. Unpinned \in Row
      BY FlowAssumption DEF FlowTypeOK, Unpinned, Row
    <2> QED  BY <1>4, <2>1 DEF Unpin, FlowTypeOK, Listed, Row
  <1>5. ASSUME NEW f \in Flows, DeleteRow(f)  PROVE FlowTypeOK'
    BY <1>5 DEF DeleteRow, FlowTypeOK, Listed, Row
  <1>6. CASE PassTime
    BY <1>6 DEF PassTime, FlowTypeOK, Listed, Row
  <1>7. CASE UNCHANGED flowVars
    BY <1>7 DEF flowVars, FlowTypeOK, Listed, Row
  <1> QED  BY <1>1, <1>2, <1>3, <1>4, <1>5, <1>6, <1>7 DEF FlowNext, RowRequest

\* Types are correct, and every listed flow has a row.
THEOREM FlowTyped == FlowSpec => []FlowTypeOK
  <1>1. FlowInit => FlowTypeOK
    BY DEF FlowInit, FlowTypeOK, Listed
  <1> QED  BY <1>1, FlowTypeNext, PTL DEF FlowSpec

\* What a single step does to flows that leave the reports.
LEMMA LeavingStep ==
    ASSUME [FlowNext]_flowVars, NEW f \in snapshot \ snapshot', f \notin DOMAIN history'
    PROVE  f \in Listed /\ Expired(history[f])
  <1>1. UpdateFlowHistory
    <2>1. snapshot' # snapshot
      OBVIOUS
    <2> QED  BY <2>1 DEF FlowNext, InsertFlows, RowRequest, Pin, Unpin, DeleteRow, PassTime, flowVars
  <1>2. f \in WentInactive /\ f \notin Reactivated
    BY <1>1 DEF UpdateFlowHistory, WentInactive, Reactivated
  <1>3. f \notin DOMAIN UpdatedHistory
    BY <1>1 DEF UpdateFlowHistory
  <1> QED  BY <1>2, <1>3 DEF UpdatedHistory, Listed

\* A flow that leaves the reports is listed in the same step, unless its old
\* row ran out at that moment (_update_flow_history).
THEOREM LeavingListed == FlowSpec => LeavingIsListed
  <1>1. [FlowNext]_flowVars =>
          [\A f \in snapshot \ snapshot' :
              f \notin DOMAIN history' => f \in Listed /\ Expired(history[f])]_flowVars
    BY LeavingStep
  <1> QED  BY <1>1, PTL DEF FlowSpec, LeavingIsListed

\* What a single step does to a pinned row.
LEMMA PinnedStep ==
    ASSUME [FlowNext]_flowVars, NEW f \in Listed, history[f].pinned
    PROVE  (f \in DOMAIN history' /\ history'[f].pinned) \/ Unpin(f) \/ DeleteRow(f)
  <1>1. CASE UpdateFlowHistory
    <2>1. f \in DOMAIN UpdatedHistory /\ UpdatedHistory[f] = history[f]
      BY DEF UpdatedHistory, Expired
    <2> QED  BY <1>1, <2>1 DEF UpdateFlowHistory
  <1>2. ASSUME NEW g \in Flows, Pin(g)
        PROVE  f \in DOMAIN history' /\ history'[f].pinned
    BY <1>2 DEF Pin, Pinned, Listed
  <1>3. ASSUME NEW g \in Flows, Unpin(g)
        PROVE  (f \in DOMAIN history' /\ history'[f].pinned) \/ Unpin(f)
    <2>1. CASE f = g
      BY <1>3, <2>1
    <2>2. CASE f # g
      BY <1>3, <2>2 DEF Unpin, Listed
    <2> QED  BY <2>1, <2>2
  <1>4. ASSUME NEW g \in Flows, DeleteRow(g)
        PROVE  (f \in DOMAIN history' /\ history'[f].pinned) \/ DeleteRow(f)
    <2>1. CASE f = g
      BY <1>4, <2>1
    <2>2. CASE f # g
      BY <1>4, <2>2 DEF DeleteRow, Listed
    <2> QED  BY <2>1, <2>2
  <1>5. CASE UNCHANGED history
    BY <1>5 DEF Listed
  <1> QED
    BY <1>1, <1>2, <1>3, <1>4, <1>5 DEF FlowNext, RowRequest, InsertFlows, PassTime, flowVars

\* A pinned row stays until somebody unpins or deletes it.
THEOREM PinnedRowsStay == FlowSpec => PinnedStay
  <1>1. [FlowNext]_flowVars =>
          [\A f \in Listed :
              history[f].pinned => \/ f \in DOMAIN history' /\ history'[f].pinned
                                   \/ Unpin(f) \/ DeleteRow(f)]_flowVars
    BY PinnedStep
  <1> QED  BY <1>1, PTL DEF FlowSpec, PinnedStay

-----------------------------------------------------------------------------
(* The portal as a whole.                                                   *)

\* A step of the portal is one of the jobs, or leaves them alone.
LEMMA PortalStepsJobs == [PortalNext]_portalVars => [JobsNext]_jobVars
  BY DEF PortalNext, CaptureFlows, CaptureFails, FinishReport, JobsAlone, FlowsAlone,
         JobsNext, ReportStep, portalVars

\* A step of the portal is one of the flow history, or leaves it alone.
LEMMA PortalStepsFlows == [PortalNext]_portalVars => [FlowNext]_flowVars
  BY DEF PortalNext, CaptureFlows, CaptureFails, FinishReport, JobsAlone, FlowsAlone,
         FlowNext, portalVars

\* The portal implements both its parts, whatever its scheduling: requests on
\* rows and steps of a report may come in any order.
THEOREM PortalHasItsParts == PortalSpec => JobsSpec /\ FlowSpec
  <1>1. PortalInit => JobsInit /\ FlowInit
    BY DEF PortalInit
  <1> QED  BY <1>1, PortalStepsJobs, PortalStepsFlows, PTL DEF PortalSpec, JobsSpec, FlowSpec

\* In the composed portal, too, no job says running without a thread, flows
\* that leave are listed and pinned rows stay.
THEOREM PortalIsSound == PortalSpec => []JobsAreTracked /\ LeavingIsListed /\ PinnedStay
  BY PortalHasItsParts, JobsTracked, LeavingListed, PinnedRowsStay, PTL
===============================================================================
