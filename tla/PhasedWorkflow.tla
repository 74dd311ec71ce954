--------------------------- MODULE PhasedWorkflow ---------------------------
(***************************************************************************)
(* What the scan orchestrator promises (workers/orchestrator.py:55-61):    *)
(* the phases of a scan are executed in order, and phases that share a     *)
(* stage may run in parallel.  Nothing is said of queues, workers,         *)
(* redelivery or retries: ScanPipeline implements this specification.      *)
(***************************************************************************)
EXTENDS Integers

CONSTANTS
    Scans,      \* the scans whose workflows are considered
    Tasks,      \* the phases that have a Celery task
    StageOf     \* StageOf[t]: the position of task t in the workflow

VARIABLE
    done        \* done[s]: the tasks of scan s that have run to completion

StageTasks(k) == {t \in Tasks : StageOf[t] = k}

Init == done = [s \in Scans |-> {}]

\* A task completes once every task of the stage before its own has.
Complete(s, t) ==
    /\ StageTasks(StageOf[t] - 1) \subseteq done[s]
    /\ done' = [done EXCEPT ![s] = @ \cup {t}]

Next == \E s \in Scans, t \in Tasks : Complete(s, t)

Spec == Init /\ [][Next]_done
=============================================================================
