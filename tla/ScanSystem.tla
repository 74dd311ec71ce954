----------------------------- MODULE ScanSystem -----------------------------
(***************************************************************************)
(* The API and the Celery worker together: ScanService hands the workflow  *)
(* of a scan to ScanPipeline (ScanOrchestrator.start) and revokes its task *)
(* (celery_app.control.revoke).  A revocation is a broadcast that nobody   *)
(* waits for: it arrives later, or never, if no worker listens or the      *)
(* connection is lost.  Nothing flows back: no task of workers/tasks/      *)
(* reads or writes the database.                                           *)
(***************************************************************************)
EXTENDS ScanService

CONSTANTS
    Workers, Deployments, MaxFaults,
    MaxBroadcasts   \* bound on the revocations of a scan that are on their way at a time

VARIABLES deploy, submitted, queue, job, done, recorded, failed, dropped, faults,
          remembered,  \* the revoked ids in the worker's memory
          broadcast,   \* broadcast[s]: revocations of s on their way to the worker
          missed       \* scans of which the worker did not get, or forgot, a revocation

Pipeline == INSTANCE ScanPipeline WITH revoked <- remembered

ASSUME SystemAssumption ==
    /\ IsFiniteSet(Workers)
    /\ MaxFaults \in Nat
    /\ MaxBroadcasts \in Nat \ {0}
    /\ Deployments \subseteq [raises : SUBSET Pipeline!Tasks, consumed : SUBSET Pipeline!AllQueues]

pipelineVars == <<deploy, submitted, queue, job, done, recorded, failed, remembered,
                  dropped, faults>>
controlVars  == <<broadcast, missed>>
systemVars   == <<vars, pipelineVars, controlVars>>

SystemInit ==
    /\ Init
    /\ Pipeline!Init
    /\ broadcast = [s \in Scans |-> 0]
    /\ missed = {}

StartScanLost(r) ==
    /\ CreateScanQueue(r)
    /\ UNCHANGED <<pipelineVars, controlVars>>

\* create_scan hands the workflow over, before its row is committed.
StartScan(r) ==
    /\ CreateScanQueue(r)
    /\ Pipeline!Submit(request[r].scan)
    /\ UNCHANGED controlVars

\* cancel_scan sends the revocation of the task whose id start() returned, and goes on.
RevokeScan(r) ==
    LET s == request[r].scan
    IN  /\ CancelScanRevoke(r)
        /\ broadcast[s] < MaxBroadcasts
        /\ broadcast' = [broadcast EXCEPT ![s] = @ + 1]
        /\ UNCHANGED <<pipelineVars, missed>>

\* The worker gets a revocation ...
ReceiveRevoke(s) ==
    /\ broadcast[s] > 0
    /\ broadcast' = [broadcast EXCEPT ![s] = @ - 1]
    /\ Pipeline!Revoke(s)
    /\ UNCHANGED <<vars, missed>>

\* ... or never does.
LoseRevoke(s) ==
    /\ broadcast[s] > 0
    /\ broadcast' = [broadcast EXCEPT ![s] = @ - 1]
    /\ missed' = missed \cup {s}
    /\ UNCHANGED <<vars, pipelineVars>>

\* A worker that restarts has forgotten what was revoked.
Restart ==
    /\ Pipeline!RestartWorker
    /\ missed' = missed \cup remembered
    /\ UNCHANGED <<vars, broadcast>>

WorkerStep ==
    \/ \E w \in Workers, m \in Pipeline!Messages :
          \/ Pipeline!Deliver(w, m) \/ Pipeline!Succeed(w, m)
          \/ Pipeline!RaiseAndRetry(w, m) \/ Pipeline!RaiseAndFail(w, m)
    \/ \E m \in Pipeline!Messages : Pipeline!Discard(m)
    \/ \E w \in Workers : Pipeline!Ack(w) \/ Pipeline!LoseProcess(w) \/ Pipeline!Redeliver(w)

SystemNext ==
    \/ \E r \in Requests : StartScan(r) \/ RevokeScan(r)
    \/ /\ \/ \E u \in Users, x \in Scopes : CreateScope(u, x)
          \/ \E r \in Requests : DatabaseStep(r)
       /\ UNCHANGED <<pipelineVars, controlVars>>
    \/ WorkerStep /\ UNCHANGED <<vars, controlVars>>
    \/ \E s \in Scans : ReceiveRevoke(s) \/ LoseRevoke(s)
    \/ Restart

SystemSpec == SystemInit /\ [][SystemNext]_systemVars

-----------------------------------------------------------------------------
(* Properties *)

\* A scan the API shows as RUNNING has work in flight, whatever the worker goes through:
\* unless its chain was aborted or its report is done or was discarded, some message of it
\* is waiting or being run.
RunningScanIsWorkedOn ==
    \A s \in Scans : scan[s].status = "running" =>
        \/ Pipeline!Settled(s)
        \/ \E m \in Pipeline!Messages : m.scan = s /\ Pipeline!InFlight(m)

\* A scan that the API shows as CANCELLED may still be producing its report, but only while
\* its revocation has yet to arrive, or because it never did, or because the worker has
\* forgotten it: not because the report was waiting, was running or had not been sent when
\* the revocation came, nor because a process was lost or a message delivered again.
CancelledReportExplained ==
    \A s \in Scans : scan[s].status = "cancelled" =>
        \/ broadcast[s] > 0
        \/ s \in missed
        \/ \A w \in Workers : ~ Pipeline!Reports(w, s)

\* A workflow that runs for no scan of the database was started by a request that then
\* failed, or lost its scan with its scope: its row is gone for good, or still to be
\* committed by the request that started it.
OrphanWorkflowExplained ==
    \A s \in submitted : ~ Present(scan[s]) =>
        \/ scan[s] = Gone
        \/ \E r \in Requests : At(r, "create_scan", "queued") /\ request[r].scan = s
=============================================================================
