---------------------------- MODULE DeepInspectWeb ----------------------------
(***************************************************************************)
(* The separate deep-inspect service (deep_inspect_web.py): captures and     *)
(* port scans, started by requests, run in threads and asked after by id.    *)
(* An id is the target with the second of the request; the tables are never  *)
(* cleared, the files of captures after 30 days, at a start of the service.  *)
(* The handlers do not await: a request is served at one stroke.  A tshark   *)
(* that is not stopped with the service goes on writing.                     *)
(***************************************************************************)
EXTENDS Naturals, Sequences

CONSTANTS
    Inspected,     \* addresses a request may name
    KeepCaptures,  \* age at which a start removes a capture
    WebHorizon,    \* bound: the last second
    MaxWebThreads  \* bound: captures ever, and scans between two starts

ASSUME WebAssumption == KeepCaptures \in Nat /\ WebHorizon \in Nat /\ MaxWebThreads \in Nat

VARIABLES
    second,
    restarts,            \* the seconds in which the service was started again
    infos,               \* the captures in the order of their requests: id, status
                         \* ("lost" when the service went down), result, tshark
    active_captures,     \* per id, the number of its capture_info
    captures,            \* CAPTURES_DIR: per file, when it was last written
    scans,               \* the scan_infos in the order of their requests
    scans_in_progress    \* per id, the number of its scan_info

webVars == <<second, restarts, infos, active_captures, captures, scans, scans_in_progress>>

Id == Inspected \X (0 .. WebHorizon)

Nothing == [i \in {} |-> 0]
Extend(f, x, y) == [z \in DOMAIN f \cup {x} |-> IF z = x THEN y ELSE f[z]]

WebInit ==
    /\ second = 0 /\ restarts = {}
    /\ infos = << >> /\ active_captures = Nothing /\ captures = Nothing
    /\ scans = << >> /\ scans_in_progress = Nothing

NewInfo(i) == [id |-> i, status |-> "running", result |-> "none", tshark |-> "runs"]

\* mutant: the table is not looked at
StartUnlooked(t) ==
    /\ Len(infos) < MaxWebThreads
    /\ infos' = Append(infos, NewInfo(<<t, second>>))
    /\ active_captures' = Extend(active_captures, <<t, second>>, Len(infos) + 1)
    /\ UNCHANGED <<second, restarts, captures, scans, scans_in_progress>>

\* A capture of this target in this very second is refused.
StartDeepInspect(t) ==
    /\ Len(infos) < MaxWebThreads
    /\ <<t, second>> \notin DOMAIN active_captures
    /\ infos' = Append(infos, NewInfo(<<t, second>>))
    /\ active_captures' = Extend(active_captures, <<t, second>>, Len(infos) + 1)
    /\ UNCHANGED <<second, restarts, captures, scans, scans_in_progress>>

\* It may do so many times, or never: without the right interface, rights or
\* filter there is no file.
TsharkWrites(n) ==
    /\ infos[n].tshark = "runs"
    /\ captures' = Extend(captures, infos[n].id, second)
    /\ UNCHANGED <<second, restarts, infos, active_captures, scans, scans_in_progress>>

\* By itself, in error, or killed at the time limit.  Its exit status is not
\* looked at: a success is an end in time, with or without a file.
TsharkEnds(n) ==
    /\ infos[n].tshark = "runs"
    /\ \E outcome \in {"success", "failure"} : infos' = [infos EXCEPT ![n].tshark = outcome]
    /\ UNCHANGED <<second, restarts, active_captures, captures, scans, scans_in_progress>>

\* The thread: first the status, then the result.
CaptureCompletes(n) ==
    /\ infos[n].status = "running" /\ infos[n].tshark # "runs"
    /\ infos' = [infos EXCEPT ![n].status = "completed"]
    /\ UNCHANGED <<second, restarts, active_captures, captures, scans, scans_in_progress>>

CaptureResult(n) ==
    /\ infos[n].status = "completed" /\ infos[n].result = "none"
    /\ infos' = [infos EXCEPT ![n].result = infos[n].tshark]
    /\ UNCHANGED <<second, restarts, active_captures, captures, scans, scans_in_progress>>

\* A scan is entered without looking: one of the same second is replaced, and
\* its thread completes a record nobody can ask for.
StartNmapScan(t) ==
    /\ Len(scans) < MaxWebThreads
    /\ scans' = Append(scans, [id |-> <<t, second>>, status |-> "running", result |-> "none"])
    /\ scans_in_progress' = Extend(scans_in_progress, <<t, second>>, Len(scans) + 1)
    /\ UNCHANGED <<second, restarts, infos, active_captures, captures>>

ScanCompletes(n) ==
    /\ scans[n].status = "running"
    /\ scans' = [scans EXCEPT ![n].status = "completed"]
    /\ UNCHANGED <<second, restarts, infos, active_captures, captures, scans_in_progress>>

\* run_nmap gives a result in every case, an error among them.
ScanResult(n) ==
    /\ scans[n].status = "completed" /\ scans[n].result = "none"
    /\ scans' = [scans EXCEPT ![n].result = "stored"]
    /\ UNCHANGED <<second, restarts, infos, active_captures, captures, scans_in_progress>>

\* The service goes down and is started anew, within a second at best: no tables,
\* no threads; old files are removed; a tshark is stopped with the service or lives
\* on, and writes no more if its file was removed.
Kept == {i \in DOMAIN captures : second <= captures[i] + KeepCaptures}

WebRestart ==
    /\ restarts' = restarts \cup {second}
    /\ \E stopped \in SUBSET DOMAIN infos :
         /\ {n \in DOMAIN infos : infos[n].id \in DOMAIN captures \ Kept} \subseteq stopped
         /\ infos' = [n \in DOMAIN infos |->
                        [infos[n] EXCEPT !.status = "lost",
                                         !.tshark = IF n \in stopped /\ @ = "runs" THEN "failure" ELSE @]]
    /\ captures' = [i \in Kept |-> captures[i]]
    /\ active_captures' = Nothing /\ scans' = << >> /\ scans_in_progress' = Nothing
    /\ UNCHANGED second

SecondPasses ==
    /\ second < WebHorizon
    /\ second' = second + 1
    /\ UNCHANGED <<restarts, infos, active_captures, captures, scans, scans_in_progress>>

WebNext ==
    \/ \E t \in Inspected : StartDeepInspect(t) \/ StartNmapScan(t)
    \/ \E n \in DOMAIN infos : TsharkWrites(n) \/ TsharkEnds(n) \/ CaptureCompletes(n) \/ CaptureResult(n)
    \/ \E n \in DOMAIN scans : ScanCompletes(n) \/ ScanResult(n)
    \/ WebRestart \/ SecondPasses

WebSpec == WebInit /\ [][WebNext]_webVars

-----------------------------------------------------------------------------
(* Properties.                                                              *)

\* Two captures share an id, and so a file, only if the service was started
\* again in the very second of both, and forgot the first.
FilesAreApart ==
    \A m, n \in DOMAIN infos :
        m < n /\ infos[m].id = infos[n].id => infos[m].status = "lost" /\ infos[m].id[2] \in restarts

\* A capture the service has not forgotten can be asked after by its id; it is
\* said to run as long as its tshark does, and the result, once there, is what
\* its own tshark came to.
CapturesAreListed ==
    \A n \in DOMAIN infos :
        infos[n].status # "lost" =>
            /\ infos[n].id \in DOMAIN active_captures /\ active_captures[infos[n].id] = n
            /\ infos[n].tshark = "runs" => infos[n].status = "running"
            /\ infos[n].result # "none" => infos[n].status = "completed" /\ infos[n].result = infos[n].tshark

\* An id leads to the last scan of this target and second: a scan is hidden only
\* by another of the same.
LastScanIsShown ==
    \A n \in DOMAIN scans :
        /\ scans[n].id \in DOMAIN scans_in_progress
        /\ LET shown == scans_in_progress[scans[n].id]
           IN  shown \in DOMAIN scans /\ shown >= n /\ scans[shown].id = scans[n].id
        /\ scans[n].result # "none" => scans[n].status = "completed"

\* Files are written by the captures of their ids, none of which is older.
FilesHaveCaptures ==
    \A i \in DOMAIN captures :
        /\ i[2] <= captures[i] /\ captures[i] <= second
        /\ \E n \in DOMAIN infos : infos[n].id = i

CapturesApart == FilesAreApart /\ CapturesAreListed /\ LastScanIsShown /\ FilesHaveCaptures
===============================================================================
