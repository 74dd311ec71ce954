---------------------------- MODULE ScanPipeline ----------------------------
(***************************************************************************)
(* The Celery workflow of a scan: ScanOrchestrator.build_workflow chains   *)
(* eleven tasks, two of them in a group, and the workers run them with     *)
(* late acknowledgement (workers/celery_app.py:33-34).                     *)
(*                                                                         *)
(* The broker and the worker processes are Celery's; they are modelled     *)
(* from the options the code sets and the calls it makes.  A delivery goes *)
(* through "body" (the task function runs) and "ack" (its effects on the   *)
(* workflow are out, the message is not acknowledged yet), so that a lost  *)
(* process between the two repeats work, as acks_late implies.             *)
(***************************************************************************)
EXTENDS Integers, FiniteSets

CONSTANTS
    Scans,        \* scan identifiers
    Workers,      \* the pool processes of the worker (--concurrency)
    Deployments,  \* [raises, consumed]: tasks whose body raises, queues a worker reads
    MaxFaults     \* bound on lost processes, redeliveries and worker restarts

ASSUME PipelineAssumption ==
    /\ IsFiniteSet(Workers)
    /\ MaxFaults \in Nat

VARIABLES
    deploy,     \* the deployment, fixed by the build and docker-compose.yml
    submitted,  \* scans whose workflow was sent to the broker
    queue,      \* queue[m]: copies of message m waiting in the broker
    job,        \* job[w]: what pool process w is doing
    done,       \* done[s]: tasks of scan s whose body returned at least once
    recorded,   \* recorded[s]: finished tasks counted for the running stage (chord counter)
    failed,     \* scans whose chain was aborted by a task that raised for good
    revoked,    \* scans whose report task id is in the worker's memory of revoked ids
    dropped,    \* scans whose report message was discarded because it was revoked
    faults      \* faults so far

vars == <<deploy, submitted, queue, job, done, recorded, failed, revoked, dropped, faults>>

-----------------------------------------------------------------------------
(* The workflow *)

Tasks == {"reconnaissance", "crawling", "fingerprinting", "api_discovery",
          "security_testing", "verification", "evidence_collection",
          "correlation", "ai_analysis", "risk_scoring", "report_generation"}

FirstTask == "reconnaissance"
LastTask  == "report_generation"

\* The position of each task in the chain; the group shares a position.
StageOf == [t \in Tasks |->
    CASE t = "reconnaissance"      -> 1
      [] t = "crawling"            -> 2
      [] t = "fingerprinting"      -> 3
      [] t = "api_discovery"       -> 3
      [] t = "security_testing"    -> 4
      [] t = "verification"        -> 5
      [] t = "evidence_collection" -> 6
      [] t = "correlation"         -> 7
      [] t = "ai_analysis"         -> 8
      [] t = "risk_scoring"        -> 9
      [] t = "report_generation"   -> 10]

StageTasks(k) == {t \in Tasks : StageOf[t] = k}

QueueOfMisrouted(t) ==
    CASE t = "reconnaissance"      -> "recon_queue"
      [] t = "evidence_collection" -> "evidence_queue"
      [] t = "ai_analysis"         -> "ai_queue"
      [] t = "report_generation"   -> "reports_queue"
      [] OTHER                     -> "scan_queue"

\* The queue each task is routed to.
QueueOf(t) ==
    CASE t = "reconnaissance"      -> "recon_queue"
      [] t = "evidence_collection" -> "evidence_queue"
      [] t = "ai_analysis"         -> "ai_queue"
      [] t = "report_generation"   -> "report_queue"
      [] OTHER                     -> "scan_queue"

AllQueues == {"recon_queue", "scan_queue", "evidence_queue", "ai_queue", "report_queue"}

ASSUME DeploymentAssumption ==
    Deployments \subseteq [raises : SUBSET Tasks, consumed : SUBSET AllQueues]

\* Only run_reconnaissance catches its exceptions and calls self.retry.
SelfRetrying == {"reconnaissance"}
MaxRetries   == 3

Messages == {m \in [scan : Scans, task : Tasks, retries : 0 .. MaxRetries] :
                m.retries > 0 => m.task \in SelfRetrying}

Message(s, t) == [scan |-> s, task |-> t, retries |-> 0]

Idle == [at |-> "idle"]
Jobs == {Idle} \cup [at : {"body", "ack"}, msg : Messages]

Running(w, m) == job[w] = [at |-> "body", msg |-> m]
Send(ms)      == [m \in Messages |-> IF m \in ms THEN queue[m] + 1 ELSE queue[m]]

TypeOK ==
    /\ deploy \in Deployments
    /\ submitted \in SUBSET Scans
    /\ queue \in [Messages -> Nat]
    /\ job \in [Workers -> Jobs]
    /\ done \in [Scans -> SUBSET Tasks]
    /\ recorded \in [Scans -> SUBSET Tasks]
    /\ failed \in SUBSET Scans
    /\ revoked \in SUBSET Scans
    /\ dropped \in SUBSET Scans
    /\ faults \in 0 .. MaxFaults

Init ==
    /\ deploy \in Deployments
    /\ submitted = {}
    /\ queue = [m \in Messages |-> 0]
    /\ job = [w \in Workers |-> Idle]
    /\ done = [s \in Scans |-> {}]
    /\ recorded = [s \in Scans |-> {}]
    /\ failed = {}
    /\ revoked = {}
    /\ dropped = {}
    /\ faults = 0

-----------------------------------------------------------------------------
(* The API process *)

\* ScanOrchestrator.start: apply_async puts the first task of the chain in its queue.
Submit(s) ==
    /\ s \notin submitted
    /\ submitted' = submitted \cup {s}
    /\ queue' = Send({Message(s, FirstTask)})
    /\ UNCHANGED <<deploy, job, done, recorded, failed, revoked, dropped, faults>>

Reports(w, s) == job[w].at = "body" /\ job[w].msg = Message(s, LastTask)

RevokeWithoutTerminate(s) ==
    /\ s \in submitted
    /\ revoked' = revoked \cup {s}
    /\ UNCHANGED <<deploy, submitted, queue, job, done, recorded, failed, dropped, faults>>

\* The broadcast of control.revoke(celery_task_id, terminate=True) arrives at the worker.  The
\* id start() returned is that of the last task of the chain: a process running it is killed
\* and its message is acknowledged; any later delivery of it is discarded while the worker
\* remembers the id.
Revoke(s) ==
    /\ s \in submitted
    /\ revoked' = revoked \cup {s}
    /\ job' = [w \in Workers |-> IF Reports(w, s) THEN Idle ELSE job[w]]
    /\ dropped' = IF \E w \in Workers : Reports(w, s) THEN dropped \cup {s} ELSE dropped
    /\ UNCHANGED <<deploy, submitted, queue, done, recorded, failed, faults>>

-----------------------------------------------------------------------------
(* The worker *)

IsRevoked(m) == m.task = LastTask /\ m.scan \in revoked

DeliverKeepingCopy(w, m) ==
    /\ job[w] = Idle
    /\ queue[m] = 1
    /\ QueueOf(m.task) \in deploy.consumed
    /\ ~ IsRevoked(m)
    /\ job' = [job EXCEPT ![w] = [at |-> "body", msg |-> m]]
    /\ UNCHANGED <<deploy, submitted, queue, done, recorded, failed, revoked, dropped, faults>>

\* A free process takes a message of a queue the worker consumes.
Deliver(w, m) ==
    /\ job[w] = Idle
    /\ queue[m] > 0
    /\ QueueOf(m.task) \in deploy.consumed
    /\ ~ IsRevoked(m)
    /\ queue' = [queue EXCEPT ![m] = @ - 1]
    /\ job' = [job EXCEPT ![w] = [at |-> "body", msg |-> m]]
    /\ UNCHANGED <<deploy, submitted, done, recorded, failed, revoked, dropped, faults>>

DiscardUnseen(m) ==
    /\ queue[m] <= 1
    /\ IsRevoked(m)
    /\ queue' = [queue EXCEPT ![m] = @ - 1]
    /\ dropped' = dropped \cup {m.scan}
    /\ UNCHANGED <<deploy, submitted, job, done, recorded, failed, revoked, faults>>

\* A revoked report message is acknowledged without being run.
Discard(m) ==
    /\ queue[m] > 0
    /\ QueueOf(m.task) \in deploy.consumed
    /\ IsRevoked(m)
    /\ queue' = [queue EXCEPT ![m] = @ - 1]
    /\ dropped' = dropped \cup {m.scan}
    /\ UNCHANGED <<deploy, submitted, job, done, recorded, failed, revoked, faults>>

SucceedWithoutBarrier(w, m) ==
    LET s == m.scan
        k == StageOf[m.task]
    IN  /\ Running(w, m)
        /\ m.task \notin deploy.raises
        /\ done' = [done EXCEPT ![s] = @ \cup {m.task}]
        /\ queue' = Send({Message(s, t) : t \in StageTasks(k + 1)})
        /\ job' = [job EXCEPT ![w] = [at |-> "ack", msg |-> m]]
        /\ UNCHANGED <<deploy, submitted, recorded, failed, revoked, dropped, faults>>

\* The body returns its result.  A task of the group is counted, and the one that
\* completes the group starts the next stage and resets the counter; a task on its own
\* starts the next stage at once.
Succeed(w, m) ==
    LET s     == m.scan
        stage == StageTasks(StageOf[m.task])
        next  == StageTasks(StageOf[m.task] + 1)
        count == recorded[s] \cup {m.task}
    IN  /\ Running(w, m)
        /\ m.task \notin deploy.raises
        /\ done' = [done EXCEPT ![s] = @ \cup {m.task}]
        /\ IF stage \subseteq count
              THEN /\ recorded' = [recorded EXCEPT ![s] = count \ stage]
                   /\ queue' = Send({Message(s, t) : t \in next})
              ELSE /\ recorded' = [recorded EXCEPT ![s] = count]
                   /\ UNCHANGED queue
        /\ job' = [job EXCEPT ![w] = [at |-> "ack", msg |-> m]]
        /\ UNCHANGED <<deploy, submitted, failed, revoked, dropped, faults>>

\* The body raises and run_reconnaissance asks for another attempt.
RaiseAndRetry(w, m) ==
    /\ Running(w, m)
    /\ m.task \in deploy.raises \cap SelfRetrying
    /\ m.retries < MaxRetries
    /\ queue' = Send({[m EXCEPT !.retries = @ + 1]})
    /\ job' = [job EXCEPT ![w] = [at |-> "ack", msg |-> m]]
    /\ UNCHANGED <<deploy, submitted, done, recorded, failed, revoked, dropped, faults>>

RaiseAndContinue(w, m) ==
    /\ Running(w, m)
    /\ m.task \in deploy.raises
    /\ m.task \in SelfRetrying => m.retries = MaxRetries
    /\ queue' = Send({Message(m.scan, t) : t \in StageTasks(StageOf[m.task] + 1)})
    /\ job' = [job EXCEPT ![w] = [at |-> "ack", msg |-> m]]
    /\ UNCHANGED <<deploy, submitted, done, recorded, failed, revoked, dropped, faults>>

\* The body raises with no attempt left: the task fails and the chain stops there.
RaiseAndFail(w, m) ==
    /\ Running(w, m)
    /\ m.task \in deploy.raises
    /\ m.task \in SelfRetrying => m.retries = MaxRetries
    /\ failed' = failed \cup {m.scan}
    /\ job' = [job EXCEPT ![w] = [at |-> "ack", msg |-> m]]
    /\ UNCHANGED <<deploy, submitted, queue, done, recorded, revoked, dropped, faults>>

\* task_acks_late: the message is acknowledged after the task has run.
Ack(w) ==
    /\ job[w].at = "ack"
    /\ job' = [job EXCEPT ![w] = Idle]
    /\ UNCHANGED <<deploy, submitted, queue, done, recorded, failed, revoked, dropped, faults>>

LoseProcessEarlyAck(w) ==
    /\ faults < MaxFaults
    /\ job[w].at # "idle"
    /\ job' = [job EXCEPT ![w] = Idle]
    /\ faults' = faults + 1
    /\ UNCHANGED <<deploy, submitted, queue, done, recorded, failed, revoked, dropped>>

\* task_reject_on_worker_lost: the message of a process that dies goes back to its queue.
LoseProcess(w) ==
    /\ faults < MaxFaults
    /\ job[w].at # "idle"
    /\ queue' = Send({job[w].msg})
    /\ job' = [job EXCEPT ![w] = Idle]
    /\ faults' = faults + 1
    /\ UNCHANGED <<deploy, submitted, done, recorded, failed, revoked, dropped>>

\* The Redis broker delivers again a message that stays unacknowledged for longer than its
\* visibility timeout; the task that holds it goes on running.
Redeliver(w) ==
    /\ faults < MaxFaults
    /\ job[w].at # "idle"
    /\ queue' = Send({job[w].msg})
    /\ faults' = faults + 1
    /\ UNCHANGED <<deploy, submitted, job, done, recorded, failed, revoked, dropped>>

Holders(m) == {w \in Workers : job[w].at # "idle" /\ job[w].msg = m}

\* The worker container restarts: every unacknowledged message is redelivered, and the
\* revoked ids, kept in memory only, are forgotten.
RestartWorker ==
    /\ faults < MaxFaults
    /\ queue' = [m \in Messages |-> queue[m] + Cardinality(Holders(m))]
    /\ job' = [w \in Workers |-> Idle]
    /\ revoked' = {}
    /\ faults' = faults + 1
    /\ UNCHANGED <<deploy, submitted, done, recorded, failed, dropped>>

-----------------------------------------------------------------------------

Process(w) ==
    \E m \in Messages :
        Deliver(w, m) \/ Succeed(w, m) \/ RaiseAndRetry(w, m) \/ RaiseAndFail(w, m)

Next ==
    \/ \E s \in Scans : Submit(s) \/ Revoke(s)
    \/ \E w \in Workers, m \in Messages :
          \/ Deliver(w, m) \/ Succeed(w, m)
          \/ RaiseAndRetry(w, m) \/ RaiseAndFail(w, m)
    \/ \E m \in Messages : Discard(m)
    \/ \E w \in Workers : Ack(w) \/ LoseProcess(w) \/ Redeliver(w)
    \/ RestartWorker

Spec == Init /\ [][Next]_vars

\* The pool processes and the consumer keep running; nobody owes a new scan, a
\* cancellation or a fault.
Fairness ==
    /\ \A w \in Workers : WF_vars(Process(w)) /\ WF_vars(Ack(w))
    /\ WF_vars(\E m \in Messages : Discard(m))

FairSpec == Spec /\ Fairness

-----------------------------------------------------------------------------
(* Properties *)

\* A message is in flight while it waits in a queue or its task has not taken effect.
InFlight(m) == queue[m] > 0 \/ \E w \in Workers : Running(w, m)

StageDone(s, k) == StageTasks(k) \subseteq done[s]

\* "executes each scan phase in order" (orchestrator.py:58-59): whatever is redelivered
\* or repeated, a task is queued, run or finished only when every task of the stage
\* before it has finished; in particular security testing waits for both members of
\* the group.
PhaseOrder ==
    \A s \in Scans :
        /\ \A m \in Messages : m.scan = s /\ InFlight(m) => StageDone(s, StageOf[m.task] - 1)
        /\ \A t \in done[s] : StageDone(s, StageOf[t] - 1)

\* acks_late and reject_on_worker_lost (celery_app.py:33-34): faults repeat work and
\* never lose it.  A task whose turn has come and that has not finished is in flight,
\* unless its chain was aborted or its scan was cancelled.
NothingLost ==
    \A s \in submitted \ failed, t \in Tasks :
        /\ t \notin done[s]
        /\ StageDone(s, StageOf[t] - 1)
        /\ ~ (t = LastTask /\ s \in dropped)
        => \E m \in Messages : m.scan = s /\ m.task = t /\ InFlight(m)

Copies(s, t) ==
    {w \in Workers : job[w].at = "body" /\ job[w].msg.scan = s /\ job[w].msg.task = t}

\* Without faults no task runs twice: at most one process runs it, none while a copy of
\* its message still waits, and none once it has finished.
ExactlyOnceWithoutFaults ==
    faults = 0 =>
        \A s \in Scans, t \in Tasks :
            LET waiting == {m \in Messages : m.scan = s /\ m.task = t /\ queue[m] > 0}
            IN  /\ Cardinality(waiting) + Cardinality(Copies(s, t)) <= 1
                /\ \A m \in waiting : queue[m] = 1
                /\ t \in done[s] => waiting = {} /\ Copies(s, t) = {}

\* Cancelling a scan (scan_service.py:245-247) keeps its report from being generated for
\* as long as the worker remembers the revoked id, even if the task was running.
RevokedReportNotRunning ==
    \A s \in revoked, w \in Workers : ~ Reports(w, s)

\* The chain stops at a task that raised for good: nothing later than the stage of a
\* raising task is ever started (run_reconnaissance gives up after MaxRetries).
RaisingTaskStopsChain ==
    \A s \in Scans, t \in deploy.raises :
        \A u \in Tasks : StageOf[u] > StageOf[t] =>
            /\ u \notin done[s]
            /\ Copies(s, u) = {}

Settled(s) == LastTask \in done[s] \/ s \in failed \/ s \in dropped

\* Where every queue has a consumer, a submitted workflow ends: its report is generated,
\* its chain is aborted by an exception, or its report is discarded as revoked.
WorkflowSettles ==
    \A s \in Scans :
        s \in submitted /\ AllQueues \subseteq deploy.consumed ~> Settled(s)

\* The workflow implements the orchestrator's promise.
Workflow == INSTANCE PhasedWorkflow
ImplementsPhasedWorkflow == Workflow!Spec

\* "drives the end-to-end scan pipeline" (orchestrator.py:4): the workflow of a scan that
\* nobody cancels reaches its last phase.
ReachesReport ==
    \A s \in Scans : (s \in submitted) ~> (LastTask \in done[s] \/ s \in revoked \/ s \in dropped)
=============================================================================
