---------------------------- MODULE StandaloneApi ---------------------------
(***************************************************************************)
(* The API without a database (run_api.py): scan_state in memory, scans as *)
(* background tasks of one event loop, their results in a file that the    *)
(* next start of the process loads.                                        *)
(*                                                                         *)
(* A background task begins when the response of its request has been      *)
(* sent, and awaits the scanner only: from the scanner's return to the     *)
(* last assignment of scan_state it is one step, which only the end of the *)
(* process can cut short.                                                  *)
(***************************************************************************)
EXTENDS Integers, FiniteSets

CONSTANTS
    Runs,        \* requests for a scan that are accepted
    MaxCrashes   \* bound on ends of the process

ASSUME StandaloneAssumption == MaxCrashes \in Nat

VARIABLES
    server,       \* "up", "down", or "broken" when the start raised
    status,       \* scan_state["status"]
    result,       \* scan_state["result"]
    run,          \* run[r]: where the background task of request r is
    resultsFile,  \* what RESULTS_FILE holds
    reportFile,   \* the result that REPORT_FILE shows
    crashes,      \* ends of the process so far
    raced         \* a request was accepted while another's response was being sent

standaloneVars == <<server, status, result, run, resultsFile, reportFile, crashes, raced>>

Nothing   == [form |-> "nothing"]
Truncated == [form |-> "truncated"]

\* What a scan leaves behind: the dictionary of a full scan, that of one whose first
\* request failed, or the text of a quick scan's dataclass (json.dump with default=str).
Outcome(r, form) == [form |-> form, of |-> r]

Dictionaries == [form : {"report", "failed"}, of : Runs]
Texts        == [form : {"text"}, of : Runs]

ScanTypes == {"full", "quick"}

StandaloneInit ==
    /\ server = "up"
    /\ status = "idle"
    /\ result = Nothing
    /\ run = [r \in Runs |-> [at |-> "none"]]
    /\ resultsFile = Nothing
    /\ reportFile = Nothing
    /\ crashes = 0
    /\ raced = FALSE

Scanning == {r \in Runs : run[r].at = "scanning"}
Sending  == {r \in Runs : run[r].at = "sending"}

Scans(r, type) == run[r] = [at |-> "scanning", type |-> type]
End(r)         == run' = [run EXCEPT ![r] = [at |-> "ended"]]

-----------------------------------------------------------------------------
(* Requests and background tasks *)

StartScanUnchecked(r, type) ==
    /\ server = "up"
    /\ run[r].at = "none"
    /\ run' = [run EXCEPT ![r] = [at |-> "sending", type |-> type]]
    /\ raced' = (raced \/ Sending # {})
    /\ UNCHANGED <<server, status, result, resultsFile, reportFile, crashes>>

\* start_scan accepts a request unless a scan is running.
StartScan(r, type) ==
    /\ server = "up"
    /\ status # "running"
    /\ run[r].at = "none"
    /\ run' = [run EXCEPT ![r] = [at |-> "sending", type |-> type]]
    /\ raced' = (raced \/ Sending # {})
    /\ UNCHANGED <<server, status, result, resultsFile, reportFile, crashes>>

\* The response is out; run_scan_task starts and calls the scanner.
Begin(r) ==
    /\ run[r].at = "sending"
    /\ run' = [run EXCEPT ![r].at = "scanning"]
    /\ status' = "running"
    /\ UNCHANGED <<server, result, resultsFile, reportFile, crashes, raced>>

\* The full scanner returns, if only to say that its first request failed: the results are
\* saved, the report is generated, and the state is complete.
Complete(r, form) ==
    /\ Scans(r, "full")
    /\ resultsFile' = Outcome(r, form)
    /\ reportFile' = Outcome(r, form)
    /\ result' = Outcome(r, form)
    /\ status' = "complete"
    /\ End(r)
    /\ UNCHANGED <<server, crashes, raced>>

ReportFailureIgnored(r, form) ==
    /\ Scans(r, "full")
    /\ resultsFile' = Outcome(r, form)
    /\ reportFile' \in {reportFile, Truncated}
    /\ status' = "complete"
    /\ End(r)
    /\ UNCHANGED <<server, result, crashes, raced>>

\* The results are saved and the report cannot be generated, or cannot be written.
ReportFails(r, form) ==
    /\ Scans(r, "full")
    /\ resultsFile' = Outcome(r, form)
    /\ reportFile' \in {reportFile, Truncated}
    /\ status' = "failed"
    /\ End(r)
    /\ UNCHANGED <<server, result, crashes, raced>>

\* The quick scanner returns a ScanResult: it is saved as text, and the report generator
\* raises, as it asks a dictionary of it.
QuickScanReturns(r) ==
    /\ Scans(r, "quick")
    /\ resultsFile' = Outcome(r, "text")
    /\ status' = "failed"
    /\ End(r)
    /\ UNCHANGED <<server, result, reportFile, crashes, raced>>

\* The file is opened, and with that emptied, and cannot be written.
SaveFails(r) ==
    /\ r \in Scanning
    /\ resultsFile' = Truncated
    /\ status' = "failed"
    /\ End(r)
    /\ UNCHANGED <<server, result, reportFile, crashes, raced>>

ScannerRaisesUnseen(r) ==
    /\ r \in Scanning
    /\ End(r)
    /\ UNCHANGED <<server, status, result, resultsFile, reportFile, crashes, raced>>

\* The scanner, or its import, raises.
ScannerRaises(r) ==
    /\ r \in Scanning
    /\ status' = "failed"
    /\ End(r)
    /\ UNCHANGED <<server, result, resultsFile, reportFile, crashes, raced>>

-----------------------------------------------------------------------------
(* The end of the process, and its start *)

\* What a process that ends leaves in the results file and in the report: what was there
\* or, if a scan had just returned, a part or all of what it was about to write.
LeftBehind ==
    {<<resultsFile, reportFile>>}
    \cup {<<Truncated, reportFile>> : r \in Scanning}
    \cup {<<Outcome(r, "text"), reportFile>> : r \in {q \in Runs : Scans(q, "quick")}}
    \cup {<<Outcome(r, form), report>> :
            r \in {q \in Runs : Scans(q, "full")}, form \in {"report", "failed"},
            report \in {reportFile, Truncated}}
    \cup {<<Outcome(r, form), Outcome(r, form)>> :
            r \in {q \in Runs : Scans(q, "full")}, form \in {"report", "failed"}}

\* The process is stopped, reloaded or killed.
ProcessEnds ==
    /\ server = "up"
    /\ crashes < MaxCrashes
    /\ crashes' = crashes + 1
    /\ server' = "down"
    /\ status' = "idle"
    /\ result' = Nothing
    /\ \E left \in LeftBehind : resultsFile' = left[1] /\ reportFile' = left[2]
    /\ run' = [r \in Runs |-> IF run[r].at = "none" THEN run[r] ELSE [at |-> "ended"]]
    /\ UNCHANGED raced

\* The module is imported: existing results are loaded, and asked for their target and
\* completion time, which a text has not.
Start ==
    /\ server = "down"
    /\ \/ /\ resultsFile = Nothing
          /\ server' = "up"
          /\ UNCHANGED <<status, result>>
       \/ /\ resultsFile \in Dictionaries
          /\ server' = "up"
          /\ status' = "complete"
          /\ result' = resultsFile
       \/ /\ resultsFile \in Texts \cup {Truncated}
          /\ server' = "broken"
          /\ UNCHANGED <<status, result>>
    /\ UNCHANGED <<run, resultsFile, reportFile, crashes, raced>>

TaskStep(r) ==
    \/ Begin(r)
    \/ \E form \in {"report", "failed"} : Complete(r, form) \/ ReportFails(r, form)
    \/ QuickScanReturns(r) \/ SaveFails(r) \/ ScannerRaises(r)

StandaloneNext ==
    \/ \E r \in Runs :
          \/ \E type \in ScanTypes : StartScan(r, type)
          \/ Begin(r)
          \/ \E form \in {"report", "failed"} : Complete(r, form) \/ ReportFails(r, form)
          \/ QuickScanReturns(r) \/ SaveFails(r) \/ ScannerRaises(r)
    \/ ProcessEnds
    \/ Start

\* The event loop sends responses and runs the tasks it has; a scanner, whose requests
\* have timeouts, returns or raises.
StandaloneFairness == \A r \in Runs : WF_standaloneVars(TaskStep(r))

StandaloneSpec == StandaloneInit /\ [][StandaloneNext]_standaloneVars /\ StandaloneFairness

-----------------------------------------------------------------------------
(* Properties *)

\* What the API shows as the complete result is what a restart would load: saving and
\* publishing a result are never seen apart, whatever scans overlap or fail; and as long as
\* the process has not ended, the report is the report of that result.
CompleteMatchesFiles ==
    server = "up" /\ status = "complete" =>
        /\ result = resultsFile
        /\ crashes = 0 => reportFile = result

\* Scans do not overlap, and a scan in progress is shown as running, unless a request was
\* accepted while another's response was being sent: the check of start_scan and the
\* assignment it relies on are in different steps (run_api.py:235, 93).
OneScanUnlessRaced ==
    ~ raced =>
        /\ Cardinality(Scanning) <= 1
        /\ Scanning # {} <=> status = "running"

\* A scan that is shown as running comes to an end, also when it raises.
RunningEnds == status = "running" ~> status # "running"

\* "Load existing results if available" (run_api.py:56): the API comes up again after the
\* scans it has accepted, whatever they left behind.
ComesUpAgain == server # "broken"
=============================================================================
