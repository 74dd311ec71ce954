--------------------------- MODULE MC_ScanPipeline ---------------------------
(***************************************************************************)
(* Deployments for the model checker.  The first is the shipped one: the   *)
(* body of run_reconnaissance always raises (recon_tasks.py:51 passes      *)
(* scan_id twice to logger.info) and docker-compose.yml:58 starts a worker *)
(* without ai_queue.  Repaired has neither defect; in TestsRaise the body  *)
(* of a task with no retry of its own raises.                              *)
(***************************************************************************)
EXTENDS ScanPipeline

ComposeQueues == {"recon_queue", "scan_queue", "evidence_queue", "report_queue"}

ShippedOnly == {[raises |-> {"reconnaissance"}, consumed |-> ComposeQueues]}

Repaired    == [raises |-> {}, consumed |-> AllQueues]
TestsRaise  == [raises |-> {"security_testing"}, consumed |-> AllQueues]

AllDeployments == ShippedOnly \cup {Repaired, TestsRaise}
=============================================================================
