------------------------------ MODULE PortalJobs ------------------------------
(***************************************************************************)
(* The background jobs of the web portal (netwatchm_server.py).  Requests   *)
(* are served one at a time; each job runs in a thread of its own.  Two     *)
(* disciplines are in use: a report, an investigation and a pcap upload are *)
(* marked running by the request, under the lock under which it looked; a   *)
(* port scan, a deep inspection and the analytics page are marked by the    *)
(* thread, some time after the request has let go of the lock.              *)
(***************************************************************************)
EXTENDS Naturals, FiniteSets

CONSTANTS
    Targets,      \* addresses an operator may name
    Uploads,      \* the uuids drawn for uploaded captures
    ReportsMax,   \* REPORTS_MAX: archived reports that are kept
    MaxThreads    \* bound: threads alive at the same time

ASSUME JobsAssumption == ReportsMax \in Nat \ {0} /\ MaxThreads \in Nat

Kinds == {"nmap", "deep", "investigate", "pcap", "analytics", "report"}

Nmap(t)        == <<"nmap", t>>
Deep(t)        == <<"deep", t>>
Investigate(t) == <<"investigate", t>>
Pcap(u)        == <<"pcap", u>>
Analytics      == <<"analytics", "all">>
Report         == <<"report", "all">>

Claimed == {Investigate(t) : t \in Targets} \cup {Pcap(u) : u \in Uploads} \cup {Report}
Late    == {Nmap(t) : t \in Targets} \cup {Deep(t) : t \in Targets} \cup {Analytics}
Jobs    == Claimed \cup Late

VARIABLES
    status,    \* the state dictionaries: what a status request answers
    pending,   \* threads started that have not yet marked their job
    active,    \* threads at work on a job that is, or was, marked
    stage,     \* where the thread of the report is
    archives,  \* number of archived reports
    uploads    \* temporary files of uploaded captures

jobVars == <<status, pending, active, stage, archives, uploads>>

Stages == {"idle", "capture", "archive", "update"}

JobsTypeOK ==
    /\ status \in [Jobs -> {"unknown", "running", "ready", "error"}]
    /\ pending \in [Jobs -> Nat]
    /\ active \in [Jobs -> Nat]
    /\ stage \in Stages
    /\ archives \in 0 .. ReportsMax
    /\ uploads \subseteq Uploads

JobsInit ==
    /\ status = [j \in Jobs |-> "unknown"]
    /\ pending = [j \in Jobs |-> 0]
    /\ active = [j \in Jobs |-> 0]
    /\ stage = "idle"
    /\ archives = 0
    /\ uploads = {}

Threads == {j \in Jobs : pending[j] + active[j] > 0}
RoomForThread == Cardinality(Threads) < MaxThreads /\ \A j \in Threads : pending[j] + active[j] < MaxThreads

-----------------------------------------------------------------------------
(* The two ways to start a job, and the end of one.  A request for a job    *)
(* that is marked running starts nothing.                                   *)

\* mutant: the state is not looked at
ClaimUnlooked(j) ==
    /\ RoomForThread
    /\ status' = [status EXCEPT ![j] = "running"]
    /\ active' = [active EXCEPT ![j] = @ + 1]
    /\ UNCHANGED pending

Claim(j) ==
    /\ status[j] # "running"
    /\ RoomForThread
    /\ status' = [status EXCEPT ![j] = "running"]
    /\ active' = [active EXCEPT ![j] = @ + 1]
    /\ UNCHANGED pending

StartLate(j) ==
    /\ status[j] # "running"
    /\ RoomForThread
    /\ pending' = [pending EXCEPT ![j] = @ + 1]
    /\ UNCHANGED <<status, active, stage, archives, uploads>>

Mark(j) ==
    /\ pending[j] > 0
    /\ pending' = [pending EXCEPT ![j] = @ - 1]
    /\ active' = [active EXCEPT ![j] = @ + 1]
    /\ status' = [status EXCEPT ![j] = "running"]
    /\ UNCHANGED <<stage, archives, uploads>>

\* mutant: a tool that fails leaves the state as it is
EndSilently(j, outcome) ==
    /\ active[j] > 0
    /\ active' = [active EXCEPT ![j] = @ - 1]
    /\ status' = IF outcome = "error" THEN status ELSE [status EXCEPT ![j] = outcome]
    /\ UNCHANGED pending

End(j, outcome) ==
    /\ active[j] > 0
    /\ active' = [active EXCEPT ![j] = @ - 1]
    /\ status' = [status EXCEPT ![j] = outcome]
    /\ UNCHANGED pending

\* Every way a tool may end: its exit code, a time-out, an exception.
Settle(j) ==
    /\ \E outcome \in {"ready", "error"} : End(j, outcome)
    /\ UNCHANGED <<stage, archives, uploads>>

-----------------------------------------------------------------------------
(* Port scans, from two routes.                                             *)

PostNmap(t)     == StartLate(Nmap(t))
PostNmapScan(t) == StartLate(Nmap(t))
RunNmapScan(t)  == Mark(Nmap(t)) \/ Settle(Nmap(t))

(* Deep inspections, from two routes.                                       *)
PostDeepStart(t)  == StartLate(Deep(t))
PostDeep(t)       == StartLate(Deep(t))
RunDeepInspect(t) == Mark(Deep(t)) \/ Settle(Deep(t))

PostAnalytics == StartLate(Analytics)
RunAnalytics  == Mark(Analytics) \/ Settle(Analytics)

PostInvestigate(t) ==
    /\ Claim(Investigate(t))
    /\ UNCHANGED <<stage, archives, uploads>>
RunInvestigate(t) == Settle(Investigate(t))

-----------------------------------------------------------------------------
(* An upload: the bytes are written, then the job is entered.  A write that *)
(* fails is answered with an error and leaves what it wrote.                *)

PostUpload(u) ==
    /\ status[Pcap(u)] = "unknown" /\ u \notin uploads
    /\ uploads' = uploads \cup {u}
    /\ Claim(Pcap(u))
    /\ UNCHANGED <<stage, archives>>

UploadFails(u) ==
    /\ status[Pcap(u)] = "unknown"
    /\ uploads' = uploads \cup {u}
    /\ UNCHANGED <<status, pending, active, stage, archives>>

\* The result is stored first; the file goes in the finally clause, by the
\* same thread, which is still counted.
AnalyzePcap(u) ==
    /\ active[Pcap(u)] > 0 /\ status[Pcap(u)] = "running"
    /\ \E outcome \in {"ready", "error"} : status' = [status EXCEPT ![Pcap(u)] = outcome]
    /\ UNCHANGED <<pending, active, stage, archives, uploads>>

RemoveUpload(u) ==
    /\ status[Pcap(u)] # "running"
    /\ End(Pcap(u), status[Pcap(u)])
    /\ uploads' \in {uploads \ {u}, uploads}    \* an unlink that fails is passed over
    /\ UNCHANGED <<stage, archives>>

-----------------------------------------------------------------------------
(* The report: netwatchm report, then the archive copy, then the flow       *)
(* history, then the state.                                                 *)

PostReport ==
    /\ Claim(Report)
    /\ stage' = "capture"
    /\ UNCHANGED <<archives, uploads>>

ReportCaptured ==
    /\ stage = "capture"
    /\ stage' = "archive"
    /\ UNCHANGED <<status, pending, active, archives, uploads>>

\* A capture that fails or runs into its time-out.
ReportFails ==
    /\ stage = "capture"
    /\ End(Report, "error")
    /\ stage' = "idle"
    /\ UNCHANGED <<archives, uploads>>

\* Best effort: a copy that fails changes nothing and the report goes on.
ArchiveReport ==
    /\ stage = "archive"
    /\ archives' \in {archives, IF archives < ReportsMax THEN archives + 1 ELSE ReportsMax}
    /\ stage' = "update"
    /\ UNCHANGED <<status, pending, active, uploads>>

ReportReady ==
    /\ stage = "update"
    /\ End(Report, "ready")
    /\ stage' = "idle"
    /\ UNCHANGED <<archives, uploads>>

-----------------------------------------------------------------------------
\* The portal is stopped and started: its memory and its threads are gone,
\* its files stay.
Restart ==
    /\ Threads # {}
    /\ status' = [j \in Jobs |-> "unknown"]
    /\ pending' = [j \in Jobs |-> 0]
    /\ active' = [j \in Jobs |-> 0]
    /\ stage' = "idle"
    /\ UNCHANGED <<archives, uploads>>

JobRequest ==
    \/ \E t \in Targets : PostNmap(t) \/ PostNmapScan(t) \/ PostDeepStart(t) \/ PostDeep(t)
                          \/ PostInvestigate(t)
    \/ \E u \in Uploads : PostUpload(u) \/ UploadFails(u)
    \/ PostAnalytics

JobStep ==
    \/ \E t \in Targets : RunNmapScan(t) \/ RunDeepInspect(t) \/ RunInvestigate(t)
    \/ \E u \in Uploads : AnalyzePcap(u) \/ RemoveUpload(u)
    \/ RunAnalytics

ReportStep == ReportCaptured \/ ReportFails \/ ArchiveReport \/ ReportReady

JobsNext == JobRequest \/ JobStep \/ PostReport \/ ReportStep \/ Restart

JobsSpec == JobsInit /\ [][JobsNext]_jobVars

-----------------------------------------------------------------------------
(* Properties.                                                              *)

\* A job that is claimed under the lock has at most one thread, and its
\* state says running exactly while that thread works on it; whatever the
\* discipline, no state says running when no thread is left to change it,
\* so that a refused request is never refused for ever.  Only the files of
\* uploads that failed or were cut short by a restart outlive their job.
JobsAreTracked ==
    /\ \A j \in Claimed : active[j] <= 1 /\ pending[j] = 0
    /\ \A j \in Jobs : status[j] = "running" => active[j] > 0
    /\ \A t \in Targets : active[Investigate(t)] > 0 => status[Investigate(t)] = "running"
    /\ stage # "idle" <=> status[Report] = "running"
    /\ stage # "idle" <=> active[Report] > 0
    /\ \A u \in Uploads : active[Pcap(u)] > 0 => u \in uploads

\* A job that is marked running does not stay so: requests for it are not
\* refused for ever, however many threads run for it.
JobsSettle == \A j \in Jobs : status[j] = "running" ~> status[j] # "running"
===============================================================================
