---------------------------- MODULE MC_ScanSystem ----------------------------
(***************************************************************************)
(* Deployments for the model checker: one in which every task succeeds and *)
(* every queue is consumed, and one in which reconnaissance raises.        *)
(***************************************************************************)
EXTENDS ScanSystem

EveryQueue == {"recon_queue", "scan_queue", "evidence_queue", "ai_queue", "report_queue"}

SystemDeployments ==
    {[raises |-> r, consumed |-> EveryQueue] : r \in {{}, {"reconnaissance"}}}
=============================================================================
