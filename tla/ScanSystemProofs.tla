-------------------------- MODULE ScanSystemProofs --------------------------
(***************************************************************************)
(* Theorems about ScanService, then about ScanSystem.                      *)
(*                                                                         *)
(* The service: the rows that other requests rely on do not change under   *)
(* them.  What a request has read stays true enough (ReadsHold), and what  *)
(* it has inserted locks its target and its scope until it commits         *)
(* (LocksHold); every property of the rows follows.                        *)
(*                                                                         *)
(* The system: the properties that relate the database to Celery, by       *)
(* composition: a behaviour of the system is one of ScanService and one of *)
(* ScanPipeline, so that the theorems about each hold of it, and what the  *)
(* handlers have sent is what the worker has received (HandOver).          *)
(***************************************************************************)
EXTENDS ScanSystem, FiniteSetTheorems, SequenceTheorems, TLAPS

-----------------------------------------------------------------------------
(* Types *)

\* The fields of a request, by what it does.
LEMMA RequestFields ==
    ASSUME NEW q \in RequestStates
    PROVE  /\ q.op \in {"idle", "initiate_validation", "delete_scope", "verify_validation",
                        "create_target", "create_scan", "cancel_scan"}
           /\ q.op \in {"initiate_validation", "delete_scope", "verify_validation",
                        "create_target", "create_scan"} => q.scope \in Scopes
           /\ q.op = "verify_validation" => q.at \in {"scope", "latest"}
           /\ q.op = "verify_validation" /\ q.at = "latest" => q.latest \in 1 .. MaxValidations
           /\ q.op = "create_target" => q.user \in Users
           /\ q.op = "create_scan" =>
                /\ q.at \in {"target", "scope", "unblocked", "inserted", "queued"}
                /\ q.target \in Targets
           /\ q.op = "create_scan" /\ q.at = "target" => q.user \in Users
           /\ q.op = "create_scan" /\ q.at \in {"inserted", "queued"} => q.scan \in Scans
           /\ q.op = "cancel_scan" => q.at \in {"loaded", "revoked"} /\ q.scan \in Scans
<1>1. CASE q = IdleRequest
  BY <1>1 DEF IdleRequest
<1>2. CASE q \in [op : {"initiate_validation", "delete_scope"}, scope : Scopes]
  BY <1>2
<1>3. CASE q \in [op : {"verify_validation"}, at : {"scope"}, scope : Scopes]
  BY <1>3
<1>4. CASE q \in [op : {"verify_validation"}, at : {"latest"}, scope : Scopes,
                  latest : 1 .. MaxValidations]
  BY <1>4
<1>5. CASE q \in [op : {"create_target"}, user : Users, scope : Scopes]
  BY <1>5
<1>6. CASE q \in [op : {"create_scan"}, at : {"target"}, user : Users, target : Targets,
                  scope : Scopes]
  BY <1>6
<1>7. CASE q \in [op : {"create_scan"}, at : {"scope", "unblocked"}, target : Targets,
                  scope : Scopes]
  BY <1>7
<1>8. CASE q \in [op : {"create_scan"}, at : {"inserted", "queued"}, target : Targets,
                  scope : Scopes, scan : Scans]
  BY <1>8
<1>9. CASE q \in [op : {"cancel_scan"}, at : {"loaded", "revoked"}, scan : Scans]
  BY <1>9
<1>10. QED
  BY <1>1, <1>2, <1>3, <1>4, <1>5, <1>6, <1>7, <1>8, <1>9 DEF RequestStates

\* A row that is present has the fields of its table.
LEMMA PresentRows ==
    ASSUME TypeOK
    PROVE  /\ \A x \in Scopes : Present(scope[x]) =>
                scope[x] \in [status : {"pending", "active"}, owner : Users]
           /\ \A t \in Targets : Present(target[t]) =>
                target[t] \in [status : {"present"}, owner : Users, scope : Scopes]
           /\ \A s \in Scans : Present(scan[s]) =>
                scan[s] \in [status : {"pending", "running", "cancelled"}, target : Targets]
BY DEF TypeOK, ScopeRows, TargetRows, ScanRows, NoRow, Gone, Present

LEMMA TypeInit == Init => TypeOK
BY ServiceAssumption DEF Init, TypeOK, ScopeRows, TargetRows, ScanRows, RequestStates

\* A request that goes on, with the rows as they are, stays a request.
LEMMA KeepType ==
    ASSUME TypeOK, NEW r \in Requests, NEW state \in RequestStates, Keep(r, state)
    PROVE  request' \in [Requests -> RequestStates]
BY DEF TypeOK, Keep

LEMMA FinishType ==
    ASSUME TypeOK, NEW r \in Requests, Finish(r)
    PROVE  request' \in [Requests -> RequestStates]
BY DEF TypeOK, Keep, Finish, RequestStates

\* Accepting a validation leaves the number of validations.
LEMMA AcceptedType ==
    ASSUME NEW v \in Seq(BOOLEAN), NEW i
    PROVE  [v EXCEPT ![i] = TRUE] \in Seq(BOOLEAN) /\ Len([v EXCEPT ![i] = TRUE]) = Len(v)
<1>1. CASE i \in 1 .. Len(v)
  BY <1>1, ExceptSeq
<1>2. CASE i \notin 1 .. Len(v)
  <2>1. [v EXCEPT ![i] = TRUE] = v
    BY <1>2
  <2>2. QED
    BY <2>1
<1>3. QED
  BY <1>1, <1>2

LEMMA TypeStep == TypeOK /\ [Next]_vars => TypeOK'
<1> SUFFICES ASSUME TypeOK, [Next]_vars
             PROVE  TypeOK'
  OBVIOUS
<1>1. ASSUME NEW u \in Users, NEW x \in Scopes, CreateScope(u, x)
      PROVE  TypeOK'
  BY <1>1 DEF TypeOK, CreateScope, ScopeRows
<1>2. ASSUME NEW r \in Requests, NEW u \in Users, NEW x \in Scopes, InitiateValidationLoad(r, u, x)
      PROVE  TypeOK'
  <2>1. [op |-> "initiate_validation", scope |-> x] \in RequestStates
    BY DEF RequestStates
  <2>2. QED
    BY <1>2, <2>1, KeepType DEF TypeOK, InitiateValidationLoad
<1>3. ASSUME NEW r \in Requests, NEW u \in Users, NEW x \in Scopes, VerifyValidationLoad(r, u, x)
      PROVE  TypeOK'
  <2>1. [op |-> "verify_validation", at |-> "scope", scope |-> x] \in RequestStates
    BY DEF RequestStates
  <2>2. QED
    BY <1>3, <2>1, KeepType DEF TypeOK, VerifyValidationLoad
<1>4. ASSUME NEW r \in Requests, NEW u \in Users, NEW x \in Scopes, DeleteScopeLoad(r, u, x)
      PROVE  TypeOK'
  <2>1. [op |-> "delete_scope", scope |-> x] \in RequestStates
    BY DEF RequestStates
  <2>2. QED
    BY <1>4, <2>1, KeepType DEF TypeOK, DeleteScopeLoad
<1>5. ASSUME NEW r \in Requests, NEW u \in Users, NEW x \in Scopes, CreateTargetLoad(r, u, x)
      PROVE  TypeOK'
  <2>1. [op |-> "create_target", user |-> u, scope |-> x] \in RequestStates
    BY DEF RequestStates
  <2>2. QED
    BY <1>5, <2>1, KeepType DEF TypeOK, CreateTargetLoad
<1>6. ASSUME NEW r \in Requests, InitiateValidationCommit(r)
      PROVE  TypeOK'
  <2>1. request[r].scope \in Scopes
    BY <1>6, RequestFields DEF TypeOK, InitiateValidationCommit, Handling
  <2>2. validations' \in [Scopes -> Seq(BOOLEAN)] /\ \A x \in Scopes : Len(validations'[x]) <= MaxValidations
    BY <1>6, <2>1, ServiceAssumption DEF TypeOK, InitiateValidationCommit
  <2>3. QED
    BY <1>6, <2>2, FinishType DEF TypeOK, InitiateValidationCommit
<1>7. ASSUME NEW r \in Requests, VerifyValidationLatest(r)
      PROVE  TypeOK'
  <2> DEFINE x == request[r].scope
  <2>1. x \in Scopes
    BY <1>7, RequestFields DEF TypeOK, VerifyValidationLatest, At
  <2>2. Len(validations[x]) \in 1 .. MaxValidations
    BY <1>7, <2>1, ServiceAssumption DEF TypeOK, VerifyValidationLatest
  <2>3. [op |-> "verify_validation", at |-> "latest", scope |-> x,
         latest |-> Len(validations[x])] \in RequestStates
    BY <2>1, <2>2 DEF RequestStates
  <2>4. QED
    BY <1>7, <2>3, KeepType DEF TypeOK, VerifyValidationLatest
<1>8. ASSUME NEW r \in Requests, VerifyValidationCommit(r)
      PROVE  TypeOK'
  <2> DEFINE x == request[r].scope
  <2>1. x \in Scopes /\ Present(scope[x])
    BY <1>8, RequestFields DEF TypeOK, VerifyValidationCommit, At
  <2>2. [scope[x] EXCEPT !.status = "active"] \in ScopeRows
    BY <2>1, PresentRows DEF ScopeRows
  <2>3. scope' \in [Scopes -> ScopeRows]
    BY <1>8, <2>1, <2>2 DEF TypeOK, VerifyValidationCommit
  <2>4. [validations[x] EXCEPT ![request[r].latest] = TRUE] \in Seq(BOOLEAN)
        /\ Len([validations[x] EXCEPT ![request[r].latest] = TRUE]) = Len(validations[x])
    BY <2>1, AcceptedType DEF TypeOK
  <2>5. validations' \in [Scopes -> Seq(BOOLEAN)]
        /\ \A y \in Scopes : Len(validations'[y]) <= MaxValidations
    BY <1>8, <2>1, <2>4 DEF TypeOK, VerifyValidationCommit
  <2>6. QED
    BY <1>8, <2>3, <2>5, FinishType DEF TypeOK, VerifyValidationCommit
<1>9. ASSUME NEW r \in Requests, DeleteScopeCommit(r)
      PROVE  TypeOK'
  <2>1. request[r].scope \in Scopes
    BY <1>9, RequestFields DEF TypeOK, DeleteScopeCommit, Handling
  <2>2. /\ scope' \in [Scopes -> ScopeRows]
        /\ target' \in [Targets -> TargetRows]
        /\ scan' \in [Scans -> ScanRows]
    BY <1>9, <2>1 DEF TypeOK, DeleteScopeCommit, ScopeRows, TargetRows, ScanRows
  <2>3. validations' \in [Scopes -> Seq(BOOLEAN)]
        /\ \A x \in Scopes : Len(validations'[x]) <= MaxValidations
    BY <1>9, <2>1, ServiceAssumption DEF TypeOK, DeleteScopeCommit
  <2>4. QED
    BY <1>9, <2>2, <2>3, FinishType DEF TypeOK, DeleteScopeCommit
<1>10. ASSUME NEW r \in Requests, NEW t \in Targets, CreateTargetCommit(r, t)
      PROVE  TypeOK'
  <2>1. request[r].scope \in Scopes /\ request[r].user \in Users
    BY <1>10, RequestFields DEF TypeOK, CreateTargetCommit, Handling
  <2>2. target' \in [Targets -> TargetRows]
    BY <1>10, <2>1 DEF TypeOK, CreateTargetCommit, TargetRows
  <2>3. QED
    BY <1>10, <2>2, FinishType DEF TypeOK, CreateTargetCommit
<1>11. ASSUME NEW r \in Requests, NEW u \in Users, NEW t \in Targets, CreateScanTarget(r, u, t)
      PROVE  TypeOK'
  <2>1. target[t].scope \in Scopes
    BY <1>11, PresentRows DEF CreateScanTarget, Owns
  <2>2. [op |-> "create_scan", at |-> "target", user |-> u, target |-> t,
         scope |-> target[t].scope] \in RequestStates
    BY <2>1 DEF RequestStates
  <2>3. QED
    BY <1>11, <2>2, KeepType DEF TypeOK, CreateScanTarget
<1>12. ASSUME NEW r \in Requests, CreateScanScope(r)
      PROVE  TypeOK'
  <2>1. request[r].target \in Targets /\ request[r].scope \in Scopes
    BY <1>12, RequestFields DEF TypeOK, CreateScanScope, At
  <2>2. [op |-> "create_scan", at |-> "scope", target |-> request[r].target,
         scope |-> request[r].scope] \in RequestStates
    BY <2>1 DEF RequestStates
  <2>3. QED
    BY <1>12, <2>2, KeepType DEF TypeOK, CreateScanScope
<1>13. ASSUME NEW r \in Requests, CreateScanCheck(r)
      PROVE  TypeOK'
  <2>1. request[r] \in [op : {"create_scan"}, at : {"scope"}, target : Targets, scope : Scopes]
    BY <1>13 DEF TypeOK, CreateScanCheck, At, RequestStates, IdleRequest
  <2>2. [request[r] EXCEPT !.at = "unblocked"] \in RequestStates
    BY <2>1 DEF RequestStates
  <2>3. QED
    BY <1>13, <2>2, KeepType DEF TypeOK, CreateScanCheck
<1>14. ASSUME NEW r \in Requests, NEW s \in Scans, CreateScanInsert(r, s)
      PROVE  TypeOK'
  <2>1. request[r].target \in Targets /\ request[r].scope \in Scopes
    BY <1>14, RequestFields DEF TypeOK, CreateScanInsert, At
  <2>2. [op |-> "create_scan", at |-> "inserted", target |-> request[r].target,
         scope |-> request[r].scope, scan |-> s] \in RequestStates
    BY <2>1 DEF RequestStates
  <2>3. QED
    BY <1>14, <2>2, KeepType DEF TypeOK, CreateScanInsert
<1>15. ASSUME NEW r \in Requests, CreateScanQueue(r)
      PROVE  TypeOK'
  <2>1. request[r] \in [op : {"create_scan"}, at : {"inserted"}, target : Targets,
                        scope : Scopes, scan : Scans]
    BY <1>15 DEF TypeOK, CreateScanQueue, At, RequestStates, IdleRequest
  <2>2. [request[r] EXCEPT !.at = "queued"] \in RequestStates
    BY <2>1 DEF RequestStates
  <2>3. QED
    BY <1>15, <2>1, <2>2, KeepType DEF TypeOK, CreateScanQueue
<1>16. ASSUME NEW r \in Requests, CreateScanCommit(r)
      PROVE  TypeOK'
  <2>1. request[r].target \in Targets
    BY <1>16, RequestFields DEF TypeOK, CreateScanCommit, At
  <2>2. scan' \in [Scans -> ScanRows]
    BY <1>16, <2>1 DEF TypeOK, CreateScanCommit, ScanRows
  <2>3. QED
    BY <1>16, <2>2, FinishType DEF TypeOK, CreateScanCommit
<1>17. ASSUME NEW r \in Requests, NEW u \in Users, NEW s \in Scans, CancelScanLoad(r, u, s)
      PROVE  TypeOK'
  <2>1. [op |-> "cancel_scan", at |-> "loaded", scan |-> s] \in RequestStates
    BY DEF RequestStates
  <2>2. QED
    BY <1>17, <2>1, KeepType DEF TypeOK, CancelScanLoad
<1>18. ASSUME NEW r \in Requests, CancelScanRevoke(r)
      PROVE  TypeOK'
  <2>1. request[r] \in [op : {"cancel_scan"}, at : {"loaded"}, scan : Scans]
    BY <1>18 DEF TypeOK, CancelScanRevoke, At, RequestStates, IdleRequest
  <2>2. [request[r] EXCEPT !.at = "revoked"] \in RequestStates
    BY <2>1 DEF RequestStates
  <2>3. QED
    BY <1>18, <2>1, <2>2, KeepType DEF TypeOK, CancelScanRevoke
<1>19. ASSUME NEW r \in Requests, CancelScanCommit(r)
      PROVE  TypeOK'
  <2> DEFINE s == request[r].scan
  <2>1. s \in Scans /\ Present(scan[s])
    BY <1>19, RequestFields DEF TypeOK, CancelScanCommit, At
  <2>2. [scan[s] EXCEPT !.status = "cancelled"] \in ScanRows
    BY <2>1, PresentRows DEF ScanRows
  <2>3. scan' \in [Scans -> ScanRows]
    BY <1>19, <2>1, <2>2 DEF TypeOK, CancelScanCommit
  <2>4. QED
    BY <1>19, <2>3, FinishType DEF TypeOK, CancelScanCommit
<1>20. ASSUME NEW r \in Requests, Rollback(r)
      PROVE  TypeOK'
  <2>1. scan' \in [Scans -> ScanRows]
    BY <1>20 DEF TypeOK, Rollback, ScanRows
  <2>2. QED
    BY <1>20, <2>1, FinishType DEF TypeOK, Rollback
<1>21. CASE UNCHANGED vars
  BY <1>21 DEF vars, TypeOK
<1>22. QED
  BY <1>1, <1>2, <1>3, <1>4, <1>5, <1>6, <1>7, <1>8, <1>9, <1>10, <1>11, <1>12, <1>13, <1>14, <1>15, <1>16, <1>17, <1>18, <1>19, <1>20, <1>21 DEF Next, DatabaseStep

\* The rows and the requests in progress are well typed: what a handler keeps across its
\* awaits fits the await it is at.
THEOREM ServiceTypeCorrect == Spec => []TypeOK
BY TypeInit, TypeStep, PTL DEF Spec

-----------------------------------------------------------------------------
(* What a request has read *)

\* The read rows may go, but neither do they change their meaning nor do they come back: a
\* validated scope stays one, a target its scope's, and what was done in Celery is done.
Held(r) ==
    LET q == request[r]
    IN  /\ Handling(r, "verify_validation") => scope[q.scope].status # "none"
        /\ At(r, "verify_validation", "latest") =>
              scope[q.scope].status = "gone" \/ q.latest \in DOMAIN validations[q.scope]
        /\ Handling(r, "create_scan") =>
              \/ target[q.target].status = "gone"
              \/ Present(target[q.target]) /\ target[q.target].scope = q.scope
        /\ Handling(r, "create_scan") /\ q.at # "target" =>
              scope[q.scope].status \in {"active", "gone"}
        /\ At(r, "create_scan", "queued") => q.scan \in queued
        /\ At(r, "cancel_scan", "revoked") => q.scan \in revoked

ReadsHold == \A r \in Requests : Held(r)

\* What no step undoes.
LEMMA RowsEvolve ==
    ASSUME TypeOK, [Next]_vars
    PROVE  /\ \A x \in Scopes :
                /\ scope[x].status # "none" => scope'[x].status # "none"
                /\ scope[x].status = "gone" => scope'[x].status = "gone"
                /\ scope[x].status = "active" => scope'[x].status \in {"active", "gone"}
                /\ \A i \in DOMAIN validations[x] :
                      i \in DOMAIN validations'[x] \/ scope'[x].status = "gone"
           /\ \A t \in Targets :
                /\ target[t].status = "gone" => target'[t].status = "gone"
                /\ Present(target[t]) => target'[t] = target[t] \/ target'[t].status = "gone"
           /\ queued \subseteq queued'
           /\ revoked \subseteq revoked'
<1> DEFINE Kept == UNCHANGED <<scope, validations, target>> /\ queued \subseteq queued' /\ revoked \subseteq revoked'
<1>1. ASSUME NEW u \in Users, NEW x \in Scopes, CreateScope(u, x)
      PROVE  scope' = [scope EXCEPT ![x] = [status |-> "pending", owner |-> u]] /\ scope[x].status = "none"
             /\ UNCHANGED <<validations, target, queued, revoked>>
  BY <1>1 DEF CreateScope, Unused, NoRow
<1>2. ASSUME NEW r \in Requests, InitiateValidationCommit(r)
      PROVE  /\ UNCHANGED <<scope, target, queued, revoked>>
             /\ \A x \in Scopes : DOMAIN validations[x] \subseteq DOMAIN validations'[x]
  <2>1. \A v \in Seq(BOOLEAN) : DOMAIN v \subseteq DOMAIN Append(v, FALSE)
    OBVIOUS
  <2>2. QED
    BY <1>2, <2>1 DEF InitiateValidationCommit, TypeOK
<1>3. ASSUME NEW r \in Requests, VerifyValidationCommit(r)
      PROVE  /\ UNCHANGED <<target, queued, revoked>>
             /\ \A x \in Scopes : DOMAIN validations[x] = DOMAIN validations'[x]
             /\ \A x \in Scopes : scope'[x] = scope[x] \/ (scope'[x].status = "active" /\ Present(scope[x]))
  <2>1. request[r].scope \in Scopes /\ Present(scope[request[r].scope])
    BY <1>3, RequestFields DEF VerifyValidationCommit, At, TypeOK
  <2>2. scope[request[r].scope] \in [status : {"pending", "active"}, owner : Users]
    BY <2>1, PresentRows
  <2>3. QED
    BY <1>3, <2>1, <2>2 DEF VerifyValidationCommit, TypeOK
<1>4. ASSUME NEW r \in Requests, DeleteScopeCommit(r)
      PROVE  /\ UNCHANGED <<queued, revoked>>
             /\ \A x \in Scopes : \/ scope'[x] = Gone
                                  \/ scope'[x] = scope[x] /\ validations'[x] = validations[x]
             /\ \A t \in Targets : target'[t] = target[t] \/ target'[t] = Gone
  BY <1>4 DEF DeleteScopeCommit, TypeOK
<1>5. ASSUME NEW r \in Requests, NEW t \in Targets, CreateTargetCommit(r, t)
      PROVE  /\ UNCHANGED <<scope, validations, queued, revoked>>
             /\ \A s \in Targets : target'[s] = target[s] \/ target[s] = NoRow
  BY <1>5 DEF CreateTargetCommit, TypeOK, Unused
<1>6. ASSUME NEW r \in Requests,
             \/ CreateScanQueue(r) \/ CancelScanRevoke(r)
             \/ \E u \in Users, x \in Scopes :
                  \/ InitiateValidationLoad(r, u, x) \/ VerifyValidationLoad(r, u, x)
                  \/ DeleteScopeLoad(r, u, x) \/ CreateTargetLoad(r, u, x)
             \/ VerifyValidationLatest(r)
             \/ \E u \in Users, t \in Targets : CreateScanTarget(r, u, t)
             \/ CreateScanScope(r) \/ CreateScanCheck(r)
             \/ \E s \in Scans : CreateScanInsert(r, s)
             \/ CreateScanCommit(r)
             \/ \E u \in Users, s \in Scans : CancelScanLoad(r, u, s)
             \/ CancelScanCommit(r) \/ Rollback(r)
      PROVE  Kept
  BY <1>6 DEF CreateScanQueue, CancelScanRevoke, InitiateValidationLoad, VerifyValidationLoad,
     DeleteScopeLoad, CreateTargetLoad, VerifyValidationLatest, CreateScanTarget, CreateScanScope,
     CreateScanCheck, CreateScanInsert, CreateScanCommit, CancelScanLoad, CancelScanCommit, Rollback
<1>7. ASSUME UNCHANGED vars
      PROVE  Kept
  BY <1>7 DEF vars
<1>8. QED
  <2>1. CASE Kept
    BY <2>1
  <2>2. CASE \E u \in Users, x \in Scopes : CreateScope(u, x)
    BY <2>2, <1>1 DEF TypeOK
  <2>3. CASE \E r \in Requests : InitiateValidationCommit(r)
    BY <2>3, <1>2
  <2>4. CASE \E r \in Requests : VerifyValidationCommit(r)
    BY <2>4, <1>3 DEF Present
  <2>5. CASE \E r \in Requests : DeleteScopeCommit(r)
    BY <2>5, <1>4 DEF Gone
  <2>6. CASE \E r \in Requests, t \in Targets : CreateTargetCommit(r, t)
    BY <2>6, <1>5 DEF NoRow, Present
  <2>7. QED
    BY <1>6, <1>7, <2>1, <2>2, <2>3, <2>4, <2>5, <2>6 DEF Next, DatabaseStep

\* What a request has read holds after the step of any other.
LEMMA HeldStable ==
    ASSUME TypeOK, [Next]_vars, NEW r \in Requests, Held(r), request'[r] = request[r]
    PROVE  Held(r)'
<1> DEFINE q == request[r]
<1>1. /\ q.op \in {"verify_validation", "create_scan"} => q.scope \in Scopes
      /\ q.op = "create_scan" => q.target \in Targets
  BY RequestFields DEF TypeOK
<1>2. /\ Handling(r, "verify_validation")' => scope'[q.scope].status # "none"
      /\ At(r, "verify_validation", "latest")' =>
            scope'[q.scope].status = "gone" \/ q.latest \in DOMAIN validations'[q.scope]
  BY <1>1, RowsEvolve DEF Held, Handling, At
<1>3. /\ Handling(r, "create_scan")' =>
            \/ target'[q.target].status = "gone"
            \/ Present(target'[q.target]) /\ target'[q.target].scope = q.scope
      /\ Handling(r, "create_scan")' /\ q.at # "target" =>
            scope'[q.scope].status \in {"active", "gone"}
  BY <1>1, RowsEvolve DEF Held, Handling
<1>4. /\ At(r, "create_scan", "queued")' => q.scan \in queued'
      /\ At(r, "cancel_scan", "revoked")' => q.scan \in revoked'
  BY RowsEvolve DEF Held, At
<1>5. QED
  BY <1>2, <1>3, <1>4 DEF Held, Present

\* The step of a request changes no other.
LEMMA StepOf ==
    ASSUME TypeOK, NEW r \in Requests,
           DatabaseStep(r) \/ CreateScanQueue(r) \/ CancelScanRevoke(r)
    PROVE  \A q \in Requests : q # r => request'[q] = request[q]
BY DEF TypeOK, DatabaseStep, CreateScanQueue, CancelScanRevoke, InitiateValidationLoad,
   InitiateValidationCommit, VerifyValidationLoad, VerifyValidationLatest, VerifyValidationCommit,
   DeleteScopeLoad, DeleteScopeCommit, CreateTargetLoad, CreateTargetCommit, CreateScanTarget,
   CreateScanScope, CreateScanCheck, CreateScanInsert, CreateScanCommit, CancelScanLoad,
   CancelScanCommit, Rollback, Keep, Finish

\* One case for each action that leaves its request with something it has read.
LEMMA HeldOwn ==
    ASSUME TypeOK, NEW r \in Requests, Held(r),
           DatabaseStep(r) \/ CreateScanQueue(r) \/ CancelScanRevoke(r)
    PROVE  Held(r)'
<1> DEFINE q == request[r]
<1> USE DEF Held, Handling, At
<1>1. ASSUME NEW u \in Users, NEW x \in Scopes, VerifyValidationLoad(r, u, x)
      PROVE  Held(r)'
  <2>1. request'[r] = [op |-> "verify_validation", at |-> "scope", scope |-> x] /\ scope' = scope
    BY <1>1 DEF VerifyValidationLoad, Keep, TypeOK
  <2>2. scope[x].status # "none"
    BY <1>1 DEF VerifyValidationLoad, Owns, Present
  <2>3. QED
    BY <2>1, <2>2
<1>2. ASSUME VerifyValidationLatest(r)
      PROVE  Held(r)'
  <2>1. /\ request'[r] = [op |-> "verify_validation", at |-> "latest", scope |-> q.scope,
                          latest |-> Len(validations[q.scope])]
        /\ UNCHANGED <<scope, validations>>
    BY <1>2 DEF VerifyValidationLatest, Keep, TypeOK
  <2>2. q.scope \in Scopes
    BY <1>2, RequestFields DEF VerifyValidationLatest, TypeOK
  <2>3. Len(validations[q.scope]) \in DOMAIN validations[q.scope]
    BY <1>2, <2>2 DEF VerifyValidationLatest, TypeOK
  <2>4. QED
    BY <1>2, <2>1, <2>3 DEF VerifyValidationLatest
<1>3. ASSUME NEW u \in Users, NEW t \in Targets, CreateScanTarget(r, u, t)
      PROVE  Held(r)'
  <2>1. /\ request'[r] = [op |-> "create_scan", at |-> "target", user |-> u, target |-> t,
                          scope |-> target[t].scope]
        /\ target' = target
    BY <1>3 DEF CreateScanTarget, Keep, TypeOK
  <2>2. QED
    BY <1>3, <2>1 DEF CreateScanTarget, Owns, Present
<1>4. ASSUME CreateScanScope(r)
      PROVE  Held(r)'
  <2>1. /\ request'[r] = [op |-> "create_scan", at |-> "scope", target |-> q.target, scope |-> q.scope]
        /\ UNCHANGED <<scope, target>>
    BY <1>4 DEF CreateScanScope, Keep, TypeOK
  <2>2. QED
    BY <1>4, <2>1 DEF CreateScanScope, UsableScope, Present
<1>5. ASSUME CreateScanCheck(r)
      PROVE  Held(r)'
  <2>1. /\ request'[r] = [q EXCEPT !.at = "unblocked"]
        /\ UNCHANGED <<scope, target>>
    BY <1>5 DEF CreateScanCheck, Keep, TypeOK
  <2>2. q \in [op : {"create_scan"}, at : {"scope"}, target : Targets, scope : Scopes]
    BY <1>5 DEF TypeOK, CreateScanCheck, RequestStates, IdleRequest
  <2>3. request'[r].op = "create_scan" /\ request'[r].at = "unblocked"
        /\ request'[r].target = q.target /\ request'[r].scope = q.scope
    BY <2>1, <2>2
  <2>4. QED
    BY <1>5, <2>1, <2>3 DEF CreateScanCheck, Present
<1>6. ASSUME NEW s \in Scans, CreateScanInsert(r, s)
      PROVE  Held(r)'
  <2>1. /\ request'[r] = [op |-> "create_scan", at |-> "inserted", target |-> q.target,
                          scope |-> q.scope, scan |-> s]
        /\ UNCHANGED <<scope, target>>
    BY <1>6 DEF CreateScanInsert, Keep, TypeOK
  <2>2. QED
    BY <1>6, <2>1 DEF CreateScanInsert, Present
<1>7. ASSUME CreateScanQueue(r)
      PROVE  Held(r)'
  <2>1. /\ request'[r] = [q EXCEPT !.at = "queued"]
        /\ queued' = queued \cup {q.scan}
        /\ UNCHANGED <<scope, target>>
    BY <1>7 DEF CreateScanQueue, Keep, TypeOK
  <2>2. q \in [op : {"create_scan"}, at : {"inserted"}, target : Targets, scope : Scopes,
                scan : Scans]
    BY <1>7 DEF TypeOK, CreateScanQueue, RequestStates, IdleRequest
  <2>3. request'[r].op = "create_scan" /\ request'[r].at = "queued" /\ request'[r].scan = q.scan
        /\ request'[r].target = q.target /\ request'[r].scope = q.scope
    BY <2>1, <2>2
  <2>4. QED
    BY <1>7, <2>1, <2>3 DEF CreateScanQueue, Present
<1>8. ASSUME CancelScanRevoke(r)
      PROVE  Held(r)'
  <2>1. /\ request'[r] = [q EXCEPT !.at = "revoked"]
        /\ revoked' = revoked \cup {q.scan}
    BY <1>8 DEF CancelScanRevoke, Keep, TypeOK
  <2>2. q \in [op : {"cancel_scan"}, at : {"loaded"}, scan : Scans]
    BY <1>8 DEF TypeOK, CancelScanRevoke, RequestStates, IdleRequest
  <2>3. request'[r].op = "cancel_scan" /\ request'[r].scan = q.scan
    BY <2>1, <2>2
  <2>4. QED
    BY <2>1, <2>3
<1>9. ASSUME \/ \E u \in Users, x \in Scopes :
                  \/ InitiateValidationLoad(r, u, x) \/ DeleteScopeLoad(r, u, x)
                  \/ CreateTargetLoad(r, u, x)
             \/ \E u \in Users, s \in Scans : CancelScanLoad(r, u, s)
      PROVE  Held(r)'
  <2>1. \/ request'[r].op \in {"initiate_validation", "delete_scope", "create_target"}
        \/ request'[r].op = "cancel_scan" /\ request'[r].at = "loaded"
    BY <1>9 DEF InitiateValidationLoad, DeleteScopeLoad, CreateTargetLoad, CancelScanLoad, Keep, TypeOK
  <2>2. QED
    BY <2>1
<1>10. ASSUME \/ InitiateValidationCommit(r) \/ VerifyValidationCommit(r) \/ DeleteScopeCommit(r)
              \/ \E t \in Targets : CreateTargetCommit(r, t)
              \/ CreateScanCommit(r) \/ CancelScanCommit(r) \/ Rollback(r)
      PROVE  Held(r)'
  <2>1. Finish(r)
    BY <1>10 DEF InitiateValidationCommit, VerifyValidationCommit, DeleteScopeCommit,
       CreateTargetCommit, CreateScanCommit, CancelScanCommit, Rollback
  <2>2. request'[r].op = "idle"
    BY <2>1 DEF Finish, Keep, IdleRequest, TypeOK
  <2>3. QED
    BY <2>2
<1>11. QED
  BY <1>1, <1>2, <1>3, <1>4, <1>5, <1>6, <1>7, <1>8, <1>9, <1>10 DEF DatabaseStep

LEMMA ReadsHoldStep ==
    ASSUME TypeOK, ReadsHold, [Next]_vars
    PROVE  ReadsHold'
<1>1. CASE request' = request
  BY <1>1, HeldStable DEF ReadsHold
<1>2. ASSUME NEW r \in Requests, DatabaseStep(r) \/ CreateScanQueue(r) \/ CancelScanRevoke(r)
      PROVE  ReadsHold'
  <2>1. Held(r)'
    BY <1>2, HeldOwn DEF ReadsHold
  <2>2. ASSUME NEW q \in Requests, q # r
        PROVE  Held(q)'
    <3>1. Held(q) /\ request'[q] = request[q]
      BY <1>2, <2>2, StepOf DEF ReadsHold
    <3>2. QED
      BY <3>1, HeldStable
  <2>3. QED
    BY <2>1, <2>2 DEF ReadsHold
<1>3. QED
  BY <1>1, <1>2 DEF Next, vars, CreateScope

-----------------------------------------------------------------------------
(* What a request has inserted *)

\* From the insert to the commit, the rows that the new scan refers to cannot go, and no
\* other request has its id.
Locked(r) ==
    LET q == request[r]
    IN  Inserting(r) =>
          /\ Present(target[q.target])
          /\ scope[q.scope].status = "active"
          /\ scan[q.scan].status = "none"

LocksHold ==
    /\ \A r \in Requests : Locked(r)
    /\ \A q, r \in Requests : Inserting(q) /\ Inserting(r) /\ request[q].scan = request[r].scan => q = r

\* A request is inserting after a step of its own if it just has inserted, or handed over.
LEMMA OwnInsert ==
    ASSUME TypeOK, NEW r \in Requests, Inserting(r)',
           DatabaseStep(r) \/ CreateScanQueue(r) \/ CancelScanRevoke(r)
    PROVE  \/ /\ CreateScanQueue(r) /\ Inserting(r)
              /\ request'[r].target = request[r].target
              /\ request'[r].scope = request[r].scope
              /\ request'[r].scan = request[r].scan
           \/ \E s \in Scans : /\ CreateScanInsert(r, s)
                               /\ request'[r].target = request[r].target
                               /\ request'[r].scope = request[r].scope
                               /\ request'[r].scan = s
<1>1. CASE CreateScanQueue(r)
  <2>1. request[r] \in [op : {"create_scan"}, at : {"inserted"}, target : Targets, scope : Scopes,
                        scan : Scans]
    BY <1>1 DEF TypeOK, CreateScanQueue, At, RequestStates, IdleRequest
  <2>2. request'[r] = [request[r] EXCEPT !.at = "queued"]
    BY <1>1 DEF CreateScanQueue, Keep, TypeOK
  <2>3. QED
    BY <1>1, <2>1, <2>2 DEF Inserting, Handling
<1>2. ASSUME NEW s \in Scans, CreateScanInsert(r, s)
      PROVE  /\ request'[r].target = request[r].target
             /\ request'[r].scope = request[r].scope
             /\ request'[r].scan = s
  BY <1>2 DEF CreateScanInsert, Keep, TypeOK
<1>3. CASE \/ CancelScanRevoke(r) \/ CancelScanCommit(r)
           \/ \E u \in Users, s \in Scans : CancelScanLoad(r, u, s)
  <2>1. CASE CancelScanRevoke(r)
    <3>1. request[r] \in [op : {"cancel_scan"}, at : {"loaded"}, scan : Scans]
      BY <2>1 DEF TypeOK, CancelScanRevoke, At, RequestStates, IdleRequest
    <3>2. request'[r].op = "cancel_scan"
      BY <2>1, <3>1 DEF CancelScanRevoke, Keep, TypeOK
    <3>3. QED
      BY <3>2 DEF Inserting, Handling
  <2>2. CASE CancelScanCommit(r)
    BY <2>2 DEF CancelScanCommit, Finish, Keep, IdleRequest, Inserting, Handling, TypeOK
  <2>3. CASE \E u \in Users, s \in Scans : CancelScanLoad(r, u, s)
    BY <2>3 DEF CancelScanLoad, Keep, Inserting, Handling, TypeOK
  <2>4. QED
    BY <1>3, <2>1, <2>2, <2>3
<1>4. CASE CreateScanCheck(r)
  <2>1. request[r] \in [op : {"create_scan"}, at : {"scope"}, target : Targets, scope : Scopes]
    BY <1>4 DEF TypeOK, CreateScanCheck, At, RequestStates, IdleRequest
  <2>2. request'[r].at = "unblocked"
    BY <1>4, <2>1 DEF CreateScanCheck, Keep, TypeOK
  <2>3. QED
    BY <2>2 DEF Inserting
<1>5. CASE \/ \E u \in Users, t \in Targets : CreateScanTarget(r, u, t)
           \/ CreateScanScope(r)
  BY <1>5 DEF CreateScanTarget, CreateScanScope, Keep, Inserting, TypeOK
<1>6. CASE \/ \E u \in Users, x \in Scopes :
                  \/ InitiateValidationLoad(r, u, x) \/ VerifyValidationLoad(r, u, x)
                  \/ DeleteScopeLoad(r, u, x) \/ CreateTargetLoad(r, u, x)
           \/ VerifyValidationLatest(r)
  BY <1>6 DEF InitiateValidationLoad, VerifyValidationLoad, DeleteScopeLoad, CreateTargetLoad,
     VerifyValidationLatest, Keep, Inserting, Handling, TypeOK
<1>7. CASE \/ InitiateValidationCommit(r) \/ VerifyValidationCommit(r) \/ DeleteScopeCommit(r)
           \/ \E t \in Targets : CreateTargetCommit(r, t)
           \/ CreateScanCommit(r) \/ Rollback(r)
  <2>1. Finish(r)
    BY <1>7 DEF InitiateValidationCommit, VerifyValidationCommit, DeleteScopeCommit,
       CreateTargetCommit, CreateScanCommit, Rollback
  <2>2. QED
    BY <2>1 DEF Finish, Keep, IdleRequest, Inserting, Handling, TypeOK
<1>8. QED
  BY <1>1, <1>2, <1>3, <1>4, <1>5, <1>6, <1>7 DEF DatabaseStep

\* The step of another request leaves the rows of an insert alone.
LEMMA LockedStable ==
    ASSUME TypeOK, ReadsHold, LocksHold,
           NEW r \in Requests, Inserting(r), NEW p \in Requests, p # r,
           DatabaseStep(p) \/ CreateScanQueue(p) \/ CancelScanRevoke(p)
    PROVE  /\ Present(target'[request[r].target])
           /\ scope'[request[r].scope].status = "active"
           /\ scan'[request[r].scan].status = "none"
<1> DEFINE q == request[r]
<1>1. /\ q.target \in Targets /\ q.scope \in Scopes /\ q.scan \in Scans
      /\ Present(target[q.target]) /\ target[q.target].scope = q.scope
      /\ scope[q.scope].status = "active"
      /\ scan[q.scan].status = "none"
  BY RequestFields DEF Inserting, Handling, TypeOK, LocksHold, Locked, ReadsHold, Held, Present
<1>2. CASE VerifyValidationCommit(p)
  <2>1. request[p].scope \in Scopes /\ Present(scope[request[p].scope])
    BY <1>2, RequestFields DEF VerifyValidationCommit, At, TypeOK
  <2>2. scope[request[p].scope] \in [status : {"pending", "active"}, owner : Users]
    BY <2>1, PresentRows
  <2>3. QED
    BY <1>1, <1>2, <2>1, <2>2 DEF VerifyValidationCommit, TypeOK
<1>3. CASE DeleteScopeCommit(p)
  <2>1. q.scope # request[p].scope
    BY <1>3 DEF DeleteScopeCommit, Blocked
  <2>2. q.target \notin TargetsIn(request[p].scope)
    BY <1>1, <2>1 DEF TargetsIn
  <2>3. q.scan \notin ScansOf(TargetsIn(request[p].scope))
    BY <1>1 DEF ScansOf, Present
  <2>4. QED
    BY <1>1, <1>3, <2>1, <2>2, <2>3 DEF DeleteScopeCommit, TypeOK
<1>4. CASE \E t \in Targets : CreateTargetCommit(p, t)
  BY <1>1, <1>4 DEF CreateTargetCommit, TypeOK, Unused, NoRow, Present
<1>5. CASE CreateScanCommit(p)
  <2>1. Inserting(p)
    BY <1>5 DEF CreateScanCommit, At, Inserting, Handling
  <2>2. request[p].scan # q.scan
    BY <2>1 DEF LocksHold
  <2>3. QED
    BY <1>1, <1>5, <2>2 DEF CreateScanCommit, TypeOK
<1>6. CASE Rollback(p)
  <2>1. ~ (Inserting(p) /\ q.scan = request[p].scan)
    BY DEF LocksHold
  <2>2. QED
    BY <1>1, <1>6, <2>1 DEF Rollback, TypeOK
<1>7. CASE CancelScanCommit(p)
  <2>1. request[p].scan # q.scan
    BY <1>1, <1>7 DEF CancelScanCommit, Present
  <2>2. QED
    BY <1>1, <1>7, <2>1 DEF CancelScanCommit, TypeOK
<1>8. CASE \/ CreateScanQueue(p) \/ CancelScanRevoke(p)
           \/ \E u \in Users, x \in Scopes :
                \/ InitiateValidationLoad(p, u, x) \/ VerifyValidationLoad(p, u, x)
                \/ DeleteScopeLoad(p, u, x) \/ CreateTargetLoad(p, u, x)
           \/ InitiateValidationCommit(p) \/ VerifyValidationLatest(p)
           \/ \E u \in Users, t \in Targets : CreateScanTarget(p, u, t)
           \/ CreateScanScope(p) \/ CreateScanCheck(p)
           \/ \E s \in Scans : CreateScanInsert(p, s)
           \/ \E u \in Users, s \in Scans : CancelScanLoad(p, u, s)
  <2>1. UNCHANGED <<scope, target, scan>>
    BY <1>8 DEF CreateScanQueue, CancelScanRevoke, InitiateValidationLoad, VerifyValidationLoad,
       DeleteScopeLoad, CreateTargetLoad, InitiateValidationCommit, VerifyValidationLatest,
       CreateScanTarget, CreateScanScope, CreateScanCheck, CreateScanInsert, CancelScanLoad
  <2>2. QED
    BY <1>1, <2>1
<1>9. QED
  BY <1>2, <1>3, <1>4, <1>5, <1>6, <1>7, <1>8 DEF DatabaseStep

LEMMA LocksHoldStep ==
    ASSUME TypeOK, ReadsHold, LocksHold, [Next]_vars
    PROVE  LocksHold'
<1>1. CASE \E u \in Users, x \in Scopes : CreateScope(u, x)
  <2>1. PICK u \in Users, x \in Scopes : CreateScope(u, x)
    BY <1>1
  <2>2. /\ scope[x].status = "none" /\ UNCHANGED <<target, scan, request>>
        /\ \A y \in Scopes : y # x => scope'[y] = scope[y]
    BY <2>1 DEF CreateScope, Unused, NoRow, TypeOK
  <2>3. ASSUME NEW r \in Requests, Inserting(r)
        PROVE  request[r].scope \in Scopes /\ request[r].scope # x
    BY <2>2, <2>3, RequestFields DEF Inserting, Handling, TypeOK, LocksHold, Locked
  <2>4. QED
    BY <2>2, <2>3 DEF LocksHold, Locked, Inserting, Handling
<1>2. CASE UNCHANGED vars
  BY <1>2 DEF vars, LocksHold, Locked, Inserting, Handling
<1>3. ASSUME NEW p \in Requests, DatabaseStep(p) \/ CreateScanQueue(p) \/ CancelScanRevoke(p)
      PROVE  LocksHold'
  <2>1. \A q \in Requests : q # p => request'[q] = request[q]
    BY <1>3, StepOf
  <2>2. ASSUME NEW r \in Requests, r # p, Inserting(r)'
        PROVE  Inserting(r) /\ Locked(r)'
    <3>1. Inserting(r) /\ request'[r] = request[r]
      BY <2>1, <2>2 DEF Inserting, Handling
    <3>2. QED
      BY <1>3, <2>2, <3>1, LockedStable DEF Locked
  <2>3. CASE ~ Inserting(p)'
    BY <2>1, <2>2, <2>3 DEF LocksHold, Locked
  <2>4. CASE CreateScanQueue(p) /\ Inserting(p)
             /\ request'[p].target = request[p].target
             /\ request'[p].scope = request[p].scope
             /\ request'[p].scan = request[p].scan
    <3>1. UNCHANGED <<scope, target, scan>>
      BY <2>4 DEF CreateScanQueue
    <3>2. Locked(p)'
      BY <2>4, <3>1 DEF LocksHold, Locked, Present
    <3>3. ASSUME NEW r \in Requests, Inserting(r)', r # p
          PROVE  request'[r].scan # request'[p].scan
      BY <2>1, <2>2, <2>4, <3>3 DEF LocksHold
    <3>4. QED
      BY <2>1, <2>2, <3>2, <3>3 DEF LocksHold, Locked
  <2>5. ASSUME NEW s \in Scans, CreateScanInsert(p, s),
               request'[p].target = request[p].target,
               request'[p].scope = request[p].scope,
               request'[p].scan = s
        PROVE  LocksHold'
    <3>1. /\ Present(target[request[p].target])
          /\ Present(scope[request[p].scope])
          /\ scan[s] = NoRow /\ s \notin Reserved
          /\ UNCHANGED <<scope, target, scan>>
      BY <2>5 DEF CreateScanInsert, Unused
    <3>2. scope[request[p].scope].status = "active"
      BY <2>5, <3>1 DEF CreateScanInsert, At, Handling, ReadsHold, Held, Present
    <3>3. Locked(p)'
      BY <2>5, <3>1, <3>2 DEF Locked, Present, NoRow
    <3>4. ASSUME NEW r \in Requests, Inserting(r)', r # p
          PROVE  request'[r].scan # request'[p].scan
      BY <2>1, <2>2, <2>5, <3>1, <3>4 DEF Reserved
    <3>5. QED
      BY <2>1, <2>2, <3>3, <3>4 DEF LocksHold, Locked
  <2>6. QED
    BY <1>3, <2>3, <2>4, <2>5, OwnInsert
<1>4. QED
  BY <1>1, <1>2, <1>3 DEF Next

ServiceInv == TypeOK /\ ReadsHold /\ LocksHold

LEMMA ServiceInvHolds == Spec => []ServiceInv
<1>1. Init => ServiceInv
  <2>1. Init => \A r \in Requests : request[r].op = "idle"
    BY DEF Init, IdleRequest
  <2>2. QED
    BY <2>1, TypeInit DEF ServiceInv, ReadsHold, Held, LocksHold, Locked, Inserting, Handling, At
<1>2. ServiceInv /\ [Next]_vars => ServiceInv'
  BY TypeStep, ReadsHoldStep, LocksHoldStep DEF ServiceInv
<1>3. QED
  BY <1>1, <1>2, PTL DEF Spec

-----------------------------------------------------------------------------
(* The rows *)

\* The row of a scan changes when it goes, is committed or is cancelled.
LEMMA ScanRowsEvolve ==
    ASSUME TypeOK, [Next]_vars, NEW s \in Scans
    PROVE  \/ scan'[s] = scan[s]
           \/ scan'[s].status = "gone"
           \/ \E r \in Requests :
                /\ CreateScanCommit(r) /\ At(r, "create_scan", "queued") /\ request[r].scan = s
                /\ scan'[s].status = "running" /\ scan'[s].target = request[r].target
                /\ UNCHANGED <<scope, target>>
           \/ \E r \in Requests :
                /\ At(r, "cancel_scan", "revoked") /\ request[r].scan = s
                /\ Present(scan[s])
                /\ scan'[s].status = "cancelled" /\ scan'[s].target = scan[s].target
                /\ UNCHANGED <<scope, target>>
<1>1. ASSUME NEW r \in Requests, CancelScanCommit(r), request[r].scan = s
      PROVE  scan'[s].status = "cancelled" /\ scan'[s].target = scan[s].target
  <2>1. scan[s] \in [status : {"pending", "running", "cancelled"}, target : Targets]
    BY <1>1, PresentRows DEF CancelScanCommit
  <2>2. scan'[s] = [scan[s] EXCEPT !.status = "cancelled"]
    BY <1>1 DEF CancelScanCommit, TypeOK
  <2>3. QED
    BY <2>1, <2>2
<1>2. CASE \E r \in Requests : CancelScanCommit(r)
  BY <1>1, <1>2 DEF CancelScanCommit, TypeOK
<1>3. CASE \E r \in Requests : CreateScanCommit(r)
  <2>1. PICK r \in Requests : CreateScanCommit(r)
    BY <1>3
  <2>2. /\ At(r, "create_scan", "queued")
        /\ UNCHANGED <<scope, target>>
        /\ scan' = [scan EXCEPT ![request[r].scan] = [status |-> "running", target |-> request[r].target]]
    BY <2>1 DEF CreateScanCommit
  <2>3. CASE request[r].scan = s
    <3>1. scan'[s].status = "running" /\ scan'[s].target = request[r].target
      BY <2>2, <2>3 DEF TypeOK
    <3>2. QED
      BY <2>1, <2>2, <2>3, <3>1
  <2>4. CASE request[r].scan # s
    BY <2>2, <2>4 DEF TypeOK
  <2>5. QED
    BY <2>3, <2>4
<1>4. CASE \E r \in Requests : DeleteScopeCommit(r) \/ Rollback(r)
  BY <1>4 DEF DeleteScopeCommit, Rollback, Gone, TypeOK
<1>5. CASE \/ UNCHANGED vars
           \/ \E u \in Users, x \in Scopes : CreateScope(u, x)
           \/ \E r \in Requests :
                \/ CreateScanQueue(r) \/ CancelScanRevoke(r)
                \/ \E u \in Users, x \in Scopes :
                     \/ InitiateValidationLoad(r, u, x) \/ VerifyValidationLoad(r, u, x)
                     \/ DeleteScopeLoad(r, u, x) \/ CreateTargetLoad(r, u, x)
                \/ InitiateValidationCommit(r) \/ VerifyValidationLatest(r)
                \/ VerifyValidationCommit(r)
                \/ \E t \in Targets : CreateTargetCommit(r, t)
                \/ \E u \in Users, t \in Targets : CreateScanTarget(r, u, t)
                \/ CreateScanScope(r) \/ CreateScanCheck(r)
                \/ \E z \in Scans : CreateScanInsert(r, z)
                \/ \E u \in Users, z \in Scans : CancelScanLoad(r, u, z)
  <2>1. scan' = scan
    BY <1>5 DEF vars, CreateScope, CreateScanQueue, CancelScanRevoke, InitiateValidationLoad,
       VerifyValidationLoad, DeleteScopeLoad, CreateTargetLoad, InitiateValidationCommit,
       VerifyValidationLatest, VerifyValidationCommit, CreateTargetCommit, CreateScanTarget,
       CreateScanScope, CreateScanCheck, CreateScanInsert, CancelScanLoad
  <2>2. QED
    BY <2>1
<1>6. QED
  BY <1>2, <1>3, <1>4, <1>5 DEF Next, DatabaseStep

\* Only the deletion of a scope removes scopes and targets.
LEMMA OnlyDeletionRemoves ==
    ASSUME TypeOK, [Next]_vars, \A r \in Requests : ~ DeleteScopeCommit(r)
    PROVE  /\ \A x \in Scopes : scope'[x].status = "gone" => scope[x].status = "gone"
           /\ \A t \in Targets : target'[t].status = "gone" => target[t].status = "gone"
<1>1. CASE \E u \in Users, x \in Scopes : CreateScope(u, x)
  BY <1>1 DEF CreateScope, TypeOK
<1>2. ASSUME NEW r \in Requests, VerifyValidationCommit(r)
      PROVE  /\ \A x \in Scopes : scope'[x].status = "gone" => scope[x].status = "gone"
             /\ target' = target
  <2>1. request[r].scope \in Scopes /\ Present(scope[request[r].scope])
    BY <1>2, RequestFields DEF VerifyValidationCommit, At, TypeOK
  <2>2. scope[request[r].scope] \in [status : {"pending", "active"}, owner : Users]
    BY <2>1, PresentRows
  <2>3. QED
    BY <1>2, <2>1, <2>2 DEF VerifyValidationCommit, TypeOK
<1>3. CASE \E r \in Requests, t \in Targets : CreateTargetCommit(r, t)
  BY <1>3 DEF CreateTargetCommit, TypeOK
<1>4. CASE \/ UNCHANGED vars
           \/ \E r \in Requests :
                \/ CreateScanQueue(r) \/ CancelScanRevoke(r)
                \/ \E u \in Users, x \in Scopes :
                     \/ InitiateValidationLoad(r, u, x) \/ VerifyValidationLoad(r, u, x)
                     \/ DeleteScopeLoad(r, u, x) \/ CreateTargetLoad(r, u, x)
                \/ InitiateValidationCommit(r) \/ VerifyValidationLatest(r)
                \/ \E u \in Users, t \in Targets : CreateScanTarget(r, u, t)
                \/ CreateScanScope(r) \/ CreateScanCheck(r)
                \/ \E s \in Scans : CreateScanInsert(r, s)
                \/ CreateScanCommit(r)
                \/ \E u \in Users, s \in Scans : CancelScanLoad(r, u, s)
                \/ CancelScanCommit(r) \/ Rollback(r)
  <2>1. UNCHANGED <<scope, target>>
    BY <1>4, ZenonT(40) DEF vars, CreateScanQueue, CancelScanRevoke, InitiateValidationLoad,
       VerifyValidationLoad, DeleteScopeLoad, CreateTargetLoad, InitiateValidationCommit,
       VerifyValidationLatest, CreateScanTarget, CreateScanScope, CreateScanCheck,
       CreateScanInsert, CreateScanCommit, CancelScanLoad, CancelScanCommit, Rollback
  <2>2. QED
    BY <2>1
<1>5. QED
  BY <1>1, <1>2, <1>3, <1>4 DEF Next, DatabaseStep

\* The target and the scope of a scan stay, unless the scan goes with them.
LEMMA ScanKeepsScope ==
    ASSUME ServiceInv, [Next]_vars, NEW s \in Scans,
           Present(scan[s]), scan'[s].status # "gone",
           Present(target[scan[s].target]),
           scope[target[scan[s].target].scope].status = "active"
    PROVE  /\ target'[scan[s].target] = target[scan[s].target]
           /\ scope'[target[scan[s].target].scope].status = "active"
<1> DEFINE t == scan[s].target
           x == target[t].scope
<1>1. TypeOK /\ t \in Targets /\ x \in Scopes
  BY PresentRows DEF ServiceInv
<1>2. CASE \A r \in Requests : ~ DeleteScopeCommit(r)
  <2>1. target'[t].status # "gone" /\ scope'[x].status # "gone"
    BY <1>1, <1>2, OnlyDeletionRemoves DEF Present
  <2>2. QED
    BY <1>1, <2>1, RowsEvolve
<1>3. ASSUME NEW r \in Requests, DeleteScopeCommit(r)
      PROVE  target'[t] = target[t] /\ scope'[x].status = "active"
  <2>1. s \notin ScansOf(TargetsIn(request[r].scope))
    BY <1>1, <1>3 DEF DeleteScopeCommit, Gone, TypeOK
  <2>2. t \notin TargetsIn(request[r].scope)
    BY <1>1, <2>1 DEF ScansOf
  <2>3. x # request[r].scope
    BY <1>1, <2>2 DEF TargetsIn
  <2>4. QED
    BY <1>1, <1>3, <2>2, <2>3 DEF DeleteScopeCommit, TypeOK
<1>4. QED
  BY <1>2, <1>3

\* What create_scan commits lies under the target and the scope it has locked.
LEMMA ScansUnderActiveScopeStep ==
    ASSUME ServiceInv, ScansUnderActiveScope, [Next]_vars
    PROVE  ScansUnderActiveScope'
<1> SUFFICES ASSUME NEW s \in Scans, Present(scan[s])'
             PROVE  /\ Present(target'[scan'[s].target])
                    /\ scope'[target'[scan'[s].target].scope].status = "active"
  BY DEF ScansUnderActiveScope, Present
<1>1. TypeOK /\ ReadsHold /\ LocksHold
  BY DEF ServiceInv
<1>2. CASE scan'[s] = scan[s]
  <2>1. /\ Present(scan[s]) /\ scan'[s].status # "gone"
        /\ Present(target[scan[s].target])
        /\ scope[target[scan[s].target].scope].status = "active"
    BY <1>2 DEF ScansUnderActiveScope, Present
  <2>2. QED
    BY <1>2, <2>1, ScanKeepsScope DEF Present
<1>3. ASSUME NEW r \in Requests, At(r, "create_scan", "queued"),
             scan'[s].target = request[r].target,
             UNCHANGED <<scope, target>>
      PROVE  /\ Present(target'[scan'[s].target])
             /\ scope'[target'[scan'[s].target].scope].status = "active"
  <2>1. Inserting(r)
    BY <1>3 DEF At, Inserting, Handling
  <2>2. /\ Present(target[request[r].target])
        /\ scope[request[r].scope].status = "active"
        /\ target[request[r].target].scope = request[r].scope
    BY <1>1, <2>1 DEF LocksHold, Locked, ReadsHold, Held, Inserting, Present
  <2>3. QED
    BY <1>3, <2>2 DEF Present
<1>4. ASSUME Present(scan[s]), scan'[s].target = scan[s].target,
             UNCHANGED <<scope, target>>
      PROVE  /\ Present(target'[scan'[s].target])
             /\ scope'[target'[scan'[s].target].scope].status = "active"
  BY <1>4 DEF ScansUnderActiveScope, Present
<1>5. QED
  BY <1>1, <1>2, <1>3, <1>4, ScanRowsEvolve DEF Present

\* "nothing is scanned unless it falls within a validated, active scope": for any number of
\* requests, scopes, targets and scans, however creations and deletions interleave.
THEOREM ScansStayUnderActiveScope == Spec => []ScansUnderActiveScope
<1>1. Init => ScansUnderActiveScope
  BY DEF Init, ScansUnderActiveScope, Present, NoRow
<1>2. ServiceInv /\ ScansUnderActiveScope /\ [Next]_vars => ScansUnderActiveScope'
  BY ScansUnderActiveScopeStep
<1>3. QED
  BY <1>1, <1>2, ServiceInvHolds, PTL DEF Spec

\* What verify_validation marks is a validation of the scope, or the scope is gone.
LEMMA ActiveScopeStep ==
    ASSUME ServiceInv, ActiveScopeWasValidated, [Next]_vars
    PROVE  ActiveScopeWasValidated'
<1> SUFFICES ASSUME NEW x \in Scopes, scope'[x].status = "active"
             PROVE  \E i \in DOMAIN validations'[x] : validations'[x][i]
  BY DEF ActiveScopeWasValidated
<1>1. TypeOK /\ ReadsHold
  BY DEF ServiceInv
<1>2. ASSUME NEW r \in Requests, VerifyValidationCommit(r)
      PROVE  \E i \in DOMAIN validations'[x] : validations'[x][i]
  <2> DEFINE y == request[r].scope
             i == request[r].latest
  <2>1. y \in Scopes /\ Present(scope[y])
    BY <1>1, <1>2, RequestFields DEF VerifyValidationCommit, At, TypeOK
  <2>2. i \in DOMAIN validations[y]
    BY <1>1, <1>2, <2>1 DEF VerifyValidationCommit, ReadsHold, Held, Present
  <2>3. CASE x = y
    BY <1>1, <1>2, <2>1, <2>2, <2>3 DEF VerifyValidationCommit, TypeOK
  <2>4. CASE x # y
    BY <1>1, <1>2, <2>1, <2>4 DEF VerifyValidationCommit, TypeOK, ActiveScopeWasValidated
  <2>5. QED
    BY <2>3, <2>4
<1>3. ASSUME NEW r \in Requests, InitiateValidationCommit(r)
      PROVE  \E i \in DOMAIN validations'[x] : validations'[x][i]
  <2>1. scope' = scope /\ request[r].scope \in Scopes
    BY <1>1, <1>3, RequestFields DEF InitiateValidationCommit, Handling, TypeOK
  <2>2. PICK i \in DOMAIN validations[x] : validations[x][i]
    BY <2>1 DEF ActiveScopeWasValidated
  <2>3. validations'[x] = validations[x] \/ validations'[x] = Append(validations[x], FALSE)
    BY <1>1, <1>3, <2>1 DEF InitiateValidationCommit, TypeOK
  <2>4. validations[x] \in Seq(BOOLEAN)
    BY <1>1 DEF TypeOK
  <2>5. i \in DOMAIN validations'[x] /\ validations'[x][i] = validations[x][i]
    <3>1. \A v \in Seq(BOOLEAN) : \A j \in 1 .. Len(v) :
             j \in DOMAIN Append(v, FALSE) /\ Append(v, FALSE)[j] = v[j]
      OBVIOUS
    <3>2. i \in 1 .. Len(validations[x])
      BY <2>4
    <3>3. QED
      BY <2>2, <2>3, <2>4, <3>1, <3>2
  <2>6. QED
    BY <2>2, <2>5
<1>4. ASSUME NEW r \in Requests, DeleteScopeCommit(r)
      PROVE  \E i \in DOMAIN validations'[x] : validations'[x][i]
  <2>1. x # request[r].scope
    BY <1>1, <1>4 DEF DeleteScopeCommit, Gone, TypeOK
  <2>2. scope'[x] = scope[x] /\ validations'[x] = validations[x]
    BY <1>1, <1>4, <2>1 DEF DeleteScopeCommit, TypeOK
  <2>3. QED
    BY <2>2 DEF ActiveScopeWasValidated
<1>5. ASSUME NEW u \in Users, NEW y \in Scopes, CreateScope(u, y)
      PROVE  \E i \in DOMAIN validations'[x] : validations'[x][i]
  BY <1>1, <1>5 DEF CreateScope, TypeOK, ActiveScopeWasValidated
<1>6. CASE \/ UNCHANGED vars
           \/ \E r \in Requests :
                \/ CreateScanQueue(r) \/ CancelScanRevoke(r)
                \/ \E u \in Users, y \in Scopes :
                     \/ InitiateValidationLoad(r, u, y) \/ VerifyValidationLoad(r, u, y)
                     \/ DeleteScopeLoad(r, u, y) \/ CreateTargetLoad(r, u, y)
                \/ VerifyValidationLatest(r)
                \/ \E t \in Targets : CreateTargetCommit(r, t)
                \/ \E u \in Users, t \in Targets : CreateScanTarget(r, u, t)
                \/ CreateScanScope(r) \/ CreateScanCheck(r)
                \/ \E s \in Scans : CreateScanInsert(r, s)
                \/ CreateScanCommit(r)
                \/ \E u \in Users, s \in Scans : CancelScanLoad(r, u, s)
                \/ CancelScanCommit(r) \/ Rollback(r)
  <2>1. UNCHANGED <<scope, validations>>
    BY <1>6, ZenonT(40) DEF vars, CreateScanQueue, CancelScanRevoke, InitiateValidationLoad,
       VerifyValidationLoad, DeleteScopeLoad, CreateTargetLoad, VerifyValidationLatest,
       CreateTargetCommit, CreateScanTarget, CreateScanScope, CreateScanCheck,
       CreateScanInsert, CreateScanCommit, CancelScanLoad, CancelScanCommit, Rollback
  <2>2. QED
    BY <2>1 DEF ActiveScopeWasValidated
<1>7. QED
  BY <1>2, <1>3, <1>4, <1>5, <1>6 DEF Next, DatabaseStep

\* A scope is active only if one of its validations was accepted, also when a newer one was
\* started, or the scope deleted, between the reads and the commit of verify_validation.
THEOREM ActiveScopesAreValidated == Spec => []ActiveScopeWasValidated
<1>1. Init => ActiveScopeWasValidated
  BY DEF Init, ActiveScopeWasValidated, NoRow
<1>2. ServiceInv /\ ActiveScopeWasValidated /\ [Next]_vars => ActiveScopeWasValidated'
  BY ActiveScopeStep
<1>3. QED
  BY <1>1, <1>2, ServiceInvHolds, PTL DEF Spec

\* No committed scan was not handed to Celery: the hand-over precedes the commit, and no
\* rollback takes it back.
THEOREM VisibleScansAreQueued == Spec => []VisibleScanWasQueued
<1>1. Init => VisibleScanWasQueued
  BY DEF Init, VisibleScanWasQueued, Present, NoRow
<1>2. ServiceInv /\ VisibleScanWasQueued /\ [Next]_vars => VisibleScanWasQueued'
  <2> SUFFICES ASSUME ServiceInv, VisibleScanWasQueued, [Next]_vars,
                      NEW s \in Scans, Present(scan[s])'
               PROVE  scan'[s].status # "pending" /\ s \in queued'
    BY DEF VisibleScanWasQueued
  <2>1. TypeOK /\ ReadsHold /\ queued \subseteq queued'
    BY RowsEvolve DEF ServiceInv
  <2>2. CASE scan'[s] = scan[s]
    BY <2>1, <2>2 DEF VisibleScanWasQueued, Present
  <2>3. ASSUME NEW r \in Requests, At(r, "create_scan", "queued"), request[r].scan = s
        PROVE  s \in queued'
    BY <2>1, <2>3 DEF ReadsHold, Held
  <2>4. ASSUME Present(scan[s])
        PROVE  s \in queued'
    BY <2>1, <2>4 DEF VisibleScanWasQueued
  <2>5. QED
    BY <2>1, <2>2, <2>3, <2>4, ScanRowsEvolve DEF Present
<1>3. QED
  BY <1>1, <1>2, ServiceInvHolds, PTL DEF Spec

\* A scan is CANCELLED only once the revocation of its task was sent.
THEOREM CancelledScansAreRevoked == Spec => []CancelledScanWasRevoked
<1>1. Init => CancelledScanWasRevoked
  BY DEF Init, CancelledScanWasRevoked, NoRow
<1>2. ServiceInv /\ CancelledScanWasRevoked /\ [Next]_vars => CancelledScanWasRevoked'
  <2> SUFFICES ASSUME ServiceInv, CancelledScanWasRevoked, [Next]_vars,
                      NEW s \in Scans, scan'[s].status = "cancelled"
               PROVE  s \in revoked'
    BY DEF CancelledScanWasRevoked
  <2>1. TypeOK /\ ReadsHold /\ revoked \subseteq revoked'
    BY RowsEvolve DEF ServiceInv
  <2>2. CASE scan'[s] = scan[s]
    BY <2>1, <2>2 DEF CancelledScanWasRevoked
  <2>3. ASSUME NEW r \in Requests, At(r, "cancel_scan", "revoked"), request[r].scan = s
        PROVE  s \in revoked'
    BY <2>1, <2>3 DEF ReadsHold, Held
  <2>4. \/ scan'[s] = scan[s]
        \/ \E r \in Requests : At(r, "cancel_scan", "revoked") /\ request[r].scan = s
    BY <2>1, ScanRowsEvolve
  <2>5. QED
    BY <2>2, <2>3, <2>4
<1>3. QED
  BY <1>1, <1>2, ServiceInvHolds, PTL DEF Spec

\* A cancelled scan stays cancelled and a row that is gone stays gone, whatever requests had
\* loaded it or reserved its id before.
THEOREM EndsAreFinal == Spec => EndIsFinal
<1> DEFINE Final == \A s \in Scans :
                       /\ scan[s].status = "cancelled" => scan'[s].status \in {"cancelled", "gone"}
                       /\ scan[s].status = "gone" => scan'[s].status = "gone"
<1>1. ServiceInv /\ [Next]_vars => [Final]_vars
  <2> SUFFICES ASSUME ServiceInv, [Next]_vars, NEW s \in Scans
               PROVE  /\ scan[s].status = "cancelled" => scan'[s].status \in {"cancelled", "gone"}
                      /\ scan[s].status = "gone" => scan'[s].status = "gone"
    OBVIOUS
  <2>1. TypeOK /\ LocksHold
    BY DEF ServiceInv
  <2>2. ASSUME NEW r \in Requests, At(r, "create_scan", "queued"), request[r].scan = s
        PROVE  scan[s].status = "none"
    BY <2>1, <2>2 DEF LocksHold, Locked, At, Inserting, Handling
  <2>3. QED
    BY <2>1, <2>2, ScanRowsEvolve DEF Present
<1>2. QED
  BY <1>1, ServiceInvHolds, PTL DEF Spec, EndIsFinal

-----------------------------------------------------------------------------
(* The number of active scans *)

\* A request is past the check of a target after a step if it was before, or has just passed.
LEMMA PastCheckEvolves ==
    ASSUME TypeOK, [Next]_vars, NEW t \in Targets
    PROVE  \/ PastCheck(t)' \subseteq PastCheck(t)
           \/ \E r \in Requests : CreateScanCheck(r) /\ request[r].target = t
<1>1. CASE request' = request
  BY <1>1 DEF PastCheck, Handling
<1>2. ASSUME NEW r \in Requests, DatabaseStep(r) \/ CreateScanQueue(r) \/ CancelScanRevoke(r),
             ~ (CreateScanCheck(r) /\ request[r].target = t)
      PROVE  PastCheck(t)' \subseteq PastCheck(t)
  <2>1. ASSUME NEW q \in PastCheck(t)', q # r
        PROVE  q \in PastCheck(t)
    BY <1>2, <2>1, StepOf DEF PastCheck, Handling
  <2>2. ASSUME r \in PastCheck(t)', request'[r].at \in {"inserted", "queued"}
        PROVE  r \in PastCheck(t)
    <3>1. Inserting(r)'
      BY <2>2 DEF PastCheck, Inserting, Handling
    <3>2. CASE Inserting(r) /\ request'[r].target = request[r].target
      BY <2>2, <3>2 DEF PastCheck, Inserting, Handling
    <3>3. CASE \E s \in Scans : CreateScanInsert(r, s) /\ request'[r].target = request[r].target
      BY <2>2, <3>3 DEF PastCheck, CreateScanInsert, At, Handling
    <3>4. QED
      BY <1>2, <3>1, <3>2, <3>3, OwnInsert
  <2>3. ASSUME r \in PastCheck(t)', request'[r].at = "unblocked"
        PROVE  r \in PastCheck(t)
    <3>1. CASE CreateScanCheck(r)
      <4>1. request[r] \in [op : {"create_scan"}, at : {"scope"}, target : Targets, scope : Scopes]
        BY <3>1 DEF TypeOK, CreateScanCheck, At, RequestStates, IdleRequest
      <4>2. request'[r].target = request[r].target
        BY <3>1, <4>1 DEF CreateScanCheck, Keep, TypeOK
      <4>3. QED
        BY <1>2, <2>3, <3>1, <4>2 DEF PastCheck
    <3>2. CASE CreateScanQueue(r)
      <4>1. request[r] \in [op : {"create_scan"}, at : {"inserted"}, target : Targets,
                            scope : Scopes, scan : Scans]
        BY <3>2, SMTT(30) DEF TypeOK, CreateScanQueue, At, RequestStates, IdleRequest
      <4>2. request'[r].at = "queued"
        BY <3>2, <4>1 DEF CreateScanQueue, Keep, TypeOK
      <4>3. QED
        BY <2>3, <4>2
    <3>3. CASE CancelScanRevoke(r)
      <4>1. request[r] \in [op : {"cancel_scan"}, at : {"loaded"}, scan : Scans]
        BY <3>3 DEF TypeOK, CancelScanRevoke, At, RequestStates, IdleRequest
      <4>2. request'[r].at = "revoked"
        BY <3>3, <4>1 DEF CancelScanRevoke, Keep, TypeOK
      <4>3. QED
        BY <2>3, <4>2
    <3>4. CASE \/ \E u \in Users, x \in Scopes :
                    \/ InitiateValidationLoad(r, u, x) \/ VerifyValidationLoad(r, u, x)
                    \/ DeleteScopeLoad(r, u, x) \/ CreateTargetLoad(r, u, x)
               \/ VerifyValidationLatest(r)
               \/ \E u \in Users, z \in Targets : CreateScanTarget(r, u, z)
               \/ CreateScanScope(r)
               \/ \E s \in Scans : CreateScanInsert(r, s)
               \/ \E u \in Users, s \in Scans : CancelScanLoad(r, u, s)
      BY <2>3, <3>4 DEF InitiateValidationLoad, VerifyValidationLoad, DeleteScopeLoad, CreateTargetLoad,
         VerifyValidationLatest, CreateScanTarget, CreateScanScope, CreateScanInsert, CancelScanLoad,
         Keep, PastCheck, Handling, TypeOK
    <3>5. CASE \/ InitiateValidationCommit(r) \/ VerifyValidationCommit(r) \/ DeleteScopeCommit(r)
               \/ \E z \in Targets : CreateTargetCommit(r, z)
               \/ CreateScanCommit(r) \/ CancelScanCommit(r) \/ Rollback(r)
      <4>1. Finish(r)
        BY <3>5 DEF InitiateValidationCommit, VerifyValidationCommit, DeleteScopeCommit,
           CreateTargetCommit, CreateScanCommit, CancelScanCommit, Rollback
      <4>2. QED
        BY <2>3, <4>1 DEF Finish, Keep, IdleRequest, PastCheck, Handling, TypeOK
    <3>6. QED
      BY <1>2, <3>1, <3>2, <3>3, <3>4, <3>5 DEF DatabaseStep
  <2>4. QED
    BY <2>1, <2>2, <2>3 DEF PastCheck
<1>3. QED
  BY <1>1, <1>2 DEF Next, vars, CreateScope

\* Every active scan of a target has come from a request past the check, which has found none
\* of the others: a check that passes starts the count again.
BoundInv ==
    \A t \in Targets :
        /\ IsFiniteSet(Active(t))
        /\ Cardinality(Active(t)) + Cardinality(PastCheck(t)) <= Cardinality(Requests)

LEMMA PastCheckFinite ==
    ASSUME NEW t \in Targets
    PROVE  /\ IsFiniteSet(PastCheck(t)) /\ IsFiniteSet(PastCheck(t))'
           /\ Cardinality(PastCheck(t)) <= Cardinality(Requests)
           /\ Cardinality(PastCheck(t))' <= Cardinality(Requests)
           /\ Cardinality(PastCheck(t)) \in Nat /\ Cardinality(PastCheck(t))' \in Nat
           /\ Cardinality(Requests) \in Nat
<1>1. PastCheck(t) \subseteq Requests /\ PastCheck(t)' \subseteq Requests
  BY DEF PastCheck
<1>2. QED
  BY <1>1, ServiceAssumption, FS_Subset, FS_CardinalityType

LEMMA BoundInvStep ==
    ASSUME ServiceInv, BoundInv, [Next]_vars
    PROVE  BoundInv'
<1> SUFFICES ASSUME NEW t \in Targets
             PROVE  /\ IsFiniteSet(Active(t)')
                    /\ Cardinality(Active(t)') + Cardinality(PastCheck(t)') <= Cardinality(Requests)
  BY DEF BoundInv
<1>1. TypeOK /\ LocksHold
  BY DEF ServiceInv
<1>2. /\ IsFiniteSet(Active(t)) /\ Cardinality(Active(t)) \in Nat
      /\ Cardinality(Active(t)) + Cardinality(PastCheck(t)) <= Cardinality(Requests)
  BY FS_CardinalityType DEF BoundInv
<1>3. ASSUME NEW r \in Requests, CreateScanCheck(r), request[r].target = t
      PROVE  /\ IsFiniteSet(Active(t)')
             /\ Cardinality(Active(t)') + Cardinality(PastCheck(t)') <= Cardinality(Requests)
  <2>1. Active(t)' = {}
    BY <1>3 DEF CreateScanCheck, Active
  <2>2. QED
    BY <2>1, FS_EmptySet, PastCheckFinite
<1>4. ASSUME NEW r \in Requests, CreateScanCommit(r), request[r].target = t,
             PastCheck(t)' \subseteq PastCheck(t)
      PROVE  /\ IsFiniteSet(Active(t)')
             /\ Cardinality(Active(t)') + Cardinality(PastCheck(t)') <= Cardinality(Requests)
  <2> DEFINE s == request[r].scan
  <2>1. Active(t)' \subseteq Active(t) \cup {s}
    BY <1>1, <1>4 DEF CreateScanCommit, Active, TypeOK
  <2> DEFINE S == Active(t)
  <2>2. IsFiniteSet(S \cup {s}) /\ Cardinality(S \cup {s}) <= Cardinality(S) + 1
    <3>1. IsFiniteSet(S) /\ Cardinality(S) \in Nat
      BY <1>2
    <3> HIDE DEF S
    <3>2. QED
      BY <3>1, FS_AddElement
  <2>3. IsFiniteSet(Active(t)') /\ Cardinality(Active(t)') <= Cardinality(Active(t)) + 1
        /\ Cardinality(Active(t)') \in Nat
    BY <1>2, <2>1, <2>2, FS_Subset, FS_CardinalityType
  <2>4. r \in PastCheck(t)
    BY <1>4 DEF CreateScanCommit, At, PastCheck, Handling
  <2>5. r \notin PastCheck(t)'
    BY <1>1, <1>4 DEF CreateScanCommit, Finish, Keep, IdleRequest, PastCheck, Handling, TypeOK
  <2>6. PastCheck(t)' \subseteq PastCheck(t) \ {r}
    BY <1>4, <2>5
  <2>7. Cardinality(PastCheck(t) \ {r}) = Cardinality(PastCheck(t)) - 1
        /\ IsFiniteSet(PastCheck(t) \ {r})
    BY <2>4, PastCheckFinite, FS_RemoveElement
  <2>8. Cardinality(PastCheck(t)') <= Cardinality(PastCheck(t)) - 1
    BY <2>6, <2>7, FS_Subset
  <2>9. QED
    BY <1>2, <2>3, <2>8, PastCheckFinite
<1>5. ASSUME PastCheck(t)' \subseteq PastCheck(t),
             \A r \in Requests : ~ (CreateScanCommit(r) /\ request[r].target = t)
      PROVE  /\ IsFiniteSet(Active(t)')
             /\ Cardinality(Active(t)') + Cardinality(PastCheck(t)') <= Cardinality(Requests)
  <2>1. ASSUME NEW s \in Active(t)'
        PROVE  s \in Active(t)
    <3>1. s \in Scans /\ scan'[s].status \in {"pending", "running"} /\ scan'[s].target = t
      BY DEF Active
    <3>2. scan'[s] = scan[s]
      BY <1>1, <1>5, <3>1, ScanRowsEvolve
    <3>3. QED
      BY <3>1, <3>2 DEF Active
  <2>2. Active(t)' \subseteq Active(t)
    BY <2>1
  <2>3. IsFiniteSet(Active(t)') /\ Cardinality(Active(t)') <= Cardinality(Active(t))
        /\ Cardinality(Active(t)') \in Nat
    BY <1>2, <2>2, FS_Subset, FS_CardinalityType
  <2>4. Cardinality(PastCheck(t)') <= Cardinality(PastCheck(t))
    BY <1>5, PastCheckFinite, FS_Subset
  <2>5. QED
    BY <1>2, <2>3, <2>4, PastCheckFinite
<1>6. QED
  BY <1>1, <1>3, <1>4, <1>5, PastCheckEvolves

\* The check for running scans is not atomic with the insert, so a target can have several
\* active scans; but, for any number of requests served at the same time, not more than that.
THEOREM ActiveScansAreBounded == Spec => []ActiveScansBounded
<1>1. Init => BoundInv
  <2> SUFFICES ASSUME Init, NEW t \in Targets
               PROVE  /\ IsFiniteSet(Active(t))
                      /\ Cardinality(Active(t)) + Cardinality(PastCheck(t)) <= Cardinality(Requests)
    BY DEF BoundInv
  <2>1. Active(t) = {}
    BY DEF Init, Active, NoRow
  <2>2. QED
    BY <2>1, FS_EmptySet, PastCheckFinite
<1>2. ServiceInv /\ BoundInv /\ [Next]_vars => BoundInv'
  BY BoundInvStep
<1>3. BoundInv => ActiveScansBounded
  BY DEF BoundInv, ActiveScansBounded
<1>4. QED
  BY <1>1, <1>2, <1>3, ServiceInvHolds, PTL DEF Spec

-----------------------------------------------------------------------------
\* The worker's part again, with its theorems.
Chain == INSTANCE ScanPipelineProofs WITH revoked <- remembered

-----------------------------------------------------------------------------
(* The two parts *)

LEMMA ChainAssumptions == Chain!PipelineAssumption /\ Chain!DeploymentAssumption
BY SystemAssumption
DEF Chain!PipelineAssumption, Chain!DeploymentAssumption, Chain!IsFiniteSet, IsFiniteSet,
    Chain!Tasks, Pipeline!Tasks, Chain!AllQueues, Pipeline!AllQueues

\* Pipeline and Chain instantiate the same definitions.
LEMMA SameInit == Pipeline!Init <=> Chain!Init
BY DEF Pipeline!Init, Chain!Init, Pipeline!Messages, Chain!Messages, Pipeline!SelfRetrying,
   Chain!SelfRetrying, Pipeline!MaxRetries, Chain!MaxRetries, Pipeline!Tasks, Chain!Tasks,
   Pipeline!Idle, Chain!Idle

LEMMA SameNext == Pipeline!Next <=> Chain!Next
BY DEF Pipeline!Next, Chain!Next, Pipeline!Submit, Chain!Submit, Pipeline!Revoke, Chain!Revoke,
   Pipeline!Deliver, Chain!Deliver, Pipeline!Discard, Chain!Discard, Pipeline!Succeed,
   Chain!Succeed, Pipeline!RaiseAndRetry, Chain!RaiseAndRetry, Pipeline!RaiseAndFail,
   Chain!RaiseAndFail, Pipeline!Ack, Chain!Ack, Pipeline!LoseProcess, Chain!LoseProcess,
   Pipeline!Redeliver, Chain!Redeliver, Pipeline!RestartWorker, Chain!RestartWorker,
   Pipeline!Holders, Chain!Holders, Pipeline!Cardinality, Chain!Cardinality, Pipeline!Send,
   Chain!Send, Pipeline!Reports, Chain!Reports, Pipeline!IsRevoked, Chain!IsRevoked,
   Pipeline!QueueOf, Chain!QueueOf, Pipeline!StageOf, Chain!StageOf, Pipeline!StageTasks,
   Chain!StageTasks, Pipeline!Running, Chain!Running, Pipeline!LastTask, Chain!LastTask,
   Pipeline!Message, Chain!Message, Pipeline!FirstTask, Chain!FirstTask, Pipeline!Messages,
   Chain!Messages, Pipeline!SelfRetrying, Chain!SelfRetrying, Pipeline!MaxRetries,
   Chain!MaxRetries, Pipeline!Tasks, Chain!Tasks, Pipeline!Idle, Chain!Idle

\* Every step of the system is one of the requests, or leaves the database alone.
LEMMA ServicePart == [SystemNext]_systemVars => [Next]_vars
BY DEF SystemNext, systemVars, Next, StartScan, RevokeScan, ReceiveRevoke, LoseRevoke, Restart

\* The scan a request is about when it calls Celery.
LEMMA CallsAboutScans ==
    ASSUME TypeOK, NEW r \in Requests, CreateScanQueue(r) \/ CancelScanRevoke(r)
    PROVE  request[r].scan \in Scans
BY RequestFields DEF TypeOK, CreateScanQueue, CancelScanRevoke, At

\* Every step of the system is one of the workflow, or leaves it alone.
LEMMA ChainPart == TypeOK /\ [SystemNext]_systemVars => [Chain!Next]_(Chain!vars)
<1> SUFFICES ASSUME TypeOK, [SystemNext]_systemVars
             PROVE  Chain!Next \/ UNCHANGED Chain!vars
  OBVIOUS
<1>1. UNCHANGED pipelineVars => UNCHANGED Chain!vars
  BY DEF pipelineVars, Chain!vars
<1>2. ASSUME NEW r \in Requests, StartScan(r)
      PROVE  Pipeline!Next
  <2>1. request[r].scan \in Scans
    BY <1>2, CallsAboutScans DEF StartScan
  <2> QED
    BY <1>2, <2>1 DEF StartScan, Pipeline!Next
<1>3. CASE WorkerStep
  BY <1>3, SameNext DEF WorkerStep, Pipeline!Next
<1>4. CASE Restart \/ \E s \in Scans : ReceiveRevoke(s)
  BY <1>4, SameNext DEF Restart, ReceiveRevoke, Pipeline!Next
<1>5. CASE \/ \E r \in Requests : RevokeScan(r)
           \/ \E s \in Scans : LoseRevoke(s)
  BY <1>5, <1>1 DEF RevokeScan, LoseRevoke
<1>6. CASE UNCHANGED systemVars
  BY <1>6, <1>1 DEF systemVars
<1> QED
  BY <1>1, <1>2, <1>3, <1>4, <1>5, <1>6, SameNext DEF SystemNext

\* The system implements both of its parts.
THEOREM SystemImplementsParts == SystemSpec => Spec /\ Chain!Spec
<1>1. SystemInit => Init /\ Chain!Init
  BY SameInit DEF SystemInit
<1>2. SystemSpec => Spec
  BY <1>1, ServicePart, PTL DEF SystemSpec, Spec
<1>3. SystemSpec => []TypeOK
  BY <1>2, ServiceTypeCorrect, PTL
<1>4. SystemSpec => Chain!Spec
  BY <1>1, <1>3, ChainPart, PTL DEF SystemSpec, Chain!Spec
<1> QED
  BY <1>2, <1>4

-----------------------------------------------------------------------------
(* What became of what was sent *)

\* Celery has every workflow handed over; a revocation is on its way, remembered or missed.
HandOver ==
    /\ submitted = queued
    /\ broadcast \in [Scans -> Nat]
    /\ \A s \in revoked : broadcast[s] > 0 \/ s \in remembered \/ s \in missed

LEMMA WorkerStepKeeps ==
    ASSUME WorkerStep
    PROVE  UNCHANGED <<submitted, remembered>>
<1>1. ASSUME NEW w \in Workers, NEW m \in Pipeline!Messages,
             \/ Pipeline!Deliver(w, m) \/ Pipeline!Succeed(w, m)
             \/ Pipeline!RaiseAndRetry(w, m) \/ Pipeline!RaiseAndFail(w, m)
      PROVE  UNCHANGED <<submitted, remembered>>
  BY <1>1 DEF Pipeline!Deliver, Pipeline!Succeed, Pipeline!RaiseAndRetry,
              Pipeline!RaiseAndFail
<1>2. CASE \/ \E m \in Pipeline!Messages : Pipeline!Discard(m)
           \/ \E w \in Workers : Pipeline!Ack(w)
  BY <1>2 DEF Pipeline!Discard, Pipeline!Ack
<1>3. CASE \E w \in Workers : Pipeline!LoseProcess(w) \/ Pipeline!Redeliver(w)
  BY <1>3 DEF Pipeline!LoseProcess, Pipeline!Redeliver
<1> QED
  BY <1>1, <1>2, <1>3 DEF WorkerStep

LEMMA DatabaseStepSends ==
    ASSUME \/ \E u \in Users, x \in Scopes : CreateScope(u, x)
           \/ \E r \in Requests : DatabaseStep(r)
    PROVE  UNCHANGED <<queued, revoked>>
<1>1. CASE \E u \in Users, x \in Scopes : CreateScope(u, x)
  BY <1>1 DEF CreateScope
<1>2. ASSUME NEW r \in Requests, DatabaseStep(r)
      PROVE  UNCHANGED <<queued, revoked>>
  <2>1. ASSUME NEW u \in Users, NEW x \in Scopes,
               \/ InitiateValidationLoad(r, u, x) \/ VerifyValidationLoad(r, u, x)
               \/ DeleteScopeLoad(r, u, x) \/ CreateTargetLoad(r, u, x)
        PROVE  UNCHANGED <<queued, revoked>>
    BY <2>1 DEF InitiateValidationLoad, VerifyValidationLoad, DeleteScopeLoad, CreateTargetLoad
  <2>2. CASE \/ InitiateValidationCommit(r) \/ VerifyValidationLatest(r)
             \/ VerifyValidationCommit(r) \/ DeleteScopeCommit(r)
             \/ \E t \in Targets : CreateTargetCommit(r, t)
    BY <2>2 DEF InitiateValidationCommit, VerifyValidationLatest, VerifyValidationCommit,
                DeleteScopeCommit, CreateTargetCommit
  <2>3. CASE \/ \E u \in Users, t \in Targets : CreateScanTarget(r, u, t)
             \/ CreateScanScope(r) \/ CreateScanCheck(r) \/ CreateScanCommit(r)
             \/ \E s \in Scans : CreateScanInsert(r, s)
    BY <2>3 DEF CreateScanTarget, CreateScanScope, CreateScanCheck, CreateScanCommit,
                CreateScanInsert
  <2>4. CASE \/ \E u \in Users, s \in Scans : CancelScanLoad(r, u, s)
             \/ CancelScanCommit(r) \/ Rollback(r)
    BY <2>4 DEF CancelScanLoad, CancelScanCommit, Rollback
  <2> QED
    BY <1>2, <2>1, <2>2, <2>3, <2>4 DEF DatabaseStep
<1> QED
  BY <1>1, <1>2

LEMMA HandOverStep ==
    ASSUME HandOver, TypeOK, [SystemNext]_systemVars
    PROVE  HandOver'
<1>1. ASSUME NEW r \in Requests, StartScan(r)
      PROVE  HandOver'
  BY <1>1 DEF HandOver, StartScan, CreateScanQueue, Pipeline!Submit, controlVars
<1>2. ASSUME NEW r \in Requests, RevokeScan(r)
      PROVE  HandOver'
  <2>1. request[r].scan \in Scans
    BY <1>2, CallsAboutScans DEF RevokeScan
  <2>2. /\ UNCHANGED <<submitted, queued, remembered, missed>>
        /\ revoked' = revoked \cup {request[r].scan}
        /\ broadcast' = [broadcast EXCEPT ![request[r].scan] = @ + 1]
    BY <1>2 DEF RevokeScan, CancelScanRevoke, pipelineVars
  <2> QED
    BY <2>1, <2>2 DEF HandOver
<1>3. ASSUME NEW s \in Scans, ReceiveRevoke(s)
      PROVE  HandOver'
  <2>1. /\ UNCHANGED <<submitted, queued, revoked, missed>>
        /\ remembered' = remembered \cup {s}
        /\ broadcast[s] > 0 /\ broadcast' = [broadcast EXCEPT ![s] = @ - 1]
    BY <1>3 DEF ReceiveRevoke, Pipeline!Revoke, vars
  <2> QED
    BY <2>1 DEF HandOver
<1>4. ASSUME NEW s \in Scans, LoseRevoke(s)
      PROVE  HandOver'
  <2>1. /\ UNCHANGED <<submitted, queued, revoked, remembered>>
        /\ missed' = missed \cup {s}
        /\ broadcast[s] > 0 /\ broadcast' = [broadcast EXCEPT ![s] = @ - 1]
    BY <1>4 DEF LoseRevoke, vars, pipelineVars
  <2> QED
    BY <2>1 DEF HandOver
<1>5. CASE Restart
  <2>1. /\ UNCHANGED <<submitted, queued, revoked, broadcast>>
        /\ missed' = missed \cup remembered
    BY <1>5 DEF Restart, Pipeline!RestartWorker, vars
  <2> QED
    BY <2>1 DEF HandOver
<1>6. CASE /\ \/ \E u \in Users, x \in Scopes : CreateScope(u, x)
              \/ \E r \in Requests : DatabaseStep(r)
           /\ UNCHANGED <<pipelineVars, controlVars>>
  BY <1>6, DatabaseStepSends DEF HandOver, pipelineVars, controlVars
<1>7. CASE WorkerStep /\ UNCHANGED <<vars, controlVars>>
  BY <1>7, WorkerStepKeeps DEF HandOver, vars, controlVars
<1>8. CASE UNCHANGED systemVars
  BY <1>8 DEF HandOver, systemVars, vars, pipelineVars, controlVars
<1> QED
  BY <1>1, <1>2, <1>3, <1>4, <1>5, <1>6, <1>7, <1>8 DEF SystemNext

LEMMA HandOverHolds == SystemSpec => []HandOver
<1>1. SystemInit => HandOver
  BY DEF SystemInit, Init, Pipeline!Init, HandOver
<1>2. SystemSpec => []TypeOK
  BY SystemImplementsParts, ServiceTypeCorrect, PTL
<1> QED
  BY <1>1, <1>2, HandOverStep, PTL DEF SystemSpec

-----------------------------------------------------------------------------
(* The properties *)

\* A scan the API shows as CANCELLED had its revocation sent (cancel_scan).  If its report is
\* running, the revocation is still on its way, or never arrived, or was forgotten: once it has
\* arrived it is obeyed, wherever the task was and whatever processes were lost.
THEOREM CancelledReportsAreExplained == SystemSpec => []CancelledReportExplained
<1>1. CancelledScanWasRevoked /\ HandOver /\ Chain!RevokedReportNotRunning
      => CancelledReportExplained
  BY DEF CancelledScanWasRevoked, HandOver, CancelledReportExplained,
     Chain!RevokedReportNotRunning, Chain!Reports, Pipeline!Reports, Chain!Message,
     Pipeline!Message, Chain!LastTask, Pipeline!LastTask
<1>2. SystemSpec => []CancelledScanWasRevoked
  BY SystemImplementsParts, CancelledScansAreRevoked
<1>3. SystemSpec => []Chain!RevokedReportNotRunning
  BY SystemImplementsParts, Chain!RevokedReportStops, ChainAssumptions
<1> QED
  BY <1>1, <1>2, <1>3, HandOverHolds, PTL

\* Of a submitted workflow that is not settled, some task is in flight: the first one that
\* has not finished.
LEMMA UnsettledIsInFlight ==
    ASSUME Chain!NothingLost, NEW s \in submitted, ~ Pipeline!Settled(s)
    PROVE  \E m \in Pipeline!Messages : m.scan = s /\ Pipeline!InFlight(m)
<1>1. s \notin failed /\ s \notin dropped /\ Chain!LastTask \notin done[s]
  BY DEF Pipeline!Settled, Pipeline!LastTask, Chain!LastTask
<1>2. Chain!StageDone(s, 0)
  BY DEF Chain!StageDone, Chain!StageTasks, Chain!StageOf, Chain!Tasks
<1>3. ~ Chain!StageDone(s, 10)
  BY <1>1 DEF Chain!StageDone, Chain!StageTasks, Chain!StageOf, Chain!Tasks, Chain!LastTask
<1>4. PICK k \in 1 .. 10 : Chain!StageDone(s, k - 1) /\ ~ Chain!StageDone(s, k)
  BY <1>2, <1>3
<1>5. PICK t \in Chain!Tasks : Chain!StageOf[t] = k /\ t \notin done[s]
  BY <1>4 DEF Chain!StageDone, Chain!StageTasks
<1>6. \E m \in Chain!Messages : m.scan = s /\ m.task = t /\ Chain!InFlight(m)
  BY <1>1, <1>4, <1>5 DEF Chain!NothingLost
<1> QED
  BY <1>6 DEF Chain!Messages, Pipeline!Messages, Chain!SelfRetrying, Pipeline!SelfRetrying,
     Chain!MaxRetries, Pipeline!MaxRetries, Chain!Tasks, Pipeline!Tasks, Chain!InFlight,
     Pipeline!InFlight, Chain!Running, Pipeline!Running

\* A scan the API shows as RUNNING has work in flight, whatever the worker goes through,
\* unless its workflow has ended: it was handed over before its row could be seen
\* (create_scan), and the worker loses nothing.
THEOREM RunningScansAreWorkedOn == SystemSpec => []RunningScanIsWorkedOn
<1>1. VisibleScanWasQueued /\ HandOver /\ Chain!NothingLost => RunningScanIsWorkedOn
  BY UnsettledIsInFlight DEF VisibleScanWasQueued, HandOver, RunningScanIsWorkedOn, Present
<1>2. SystemSpec => []VisibleScanWasQueued
  BY SystemImplementsParts, VisibleScansAreQueued
<1>3. SystemSpec => []Chain!NothingLost
  BY SystemImplementsParts, Chain!NoTaskLost, ChainAssumptions
<1> QED
  BY <1>1, <1>2, <1>3, HandOverHolds, PTL

\* What OrphanWorkflowExplained says, of the scans handed over.
OrphanExplained ==
    \A s \in queued : ~ Present(scan[s]) =>
        \/ scan[s] = Gone
        \/ \E r \in Requests : At(r, "create_scan", "queued") /\ request[r].scan = s

\* Only CreateScanQueue hands a workflow over.
LEMMA QueuedBy ==
    ASSUME [Next]_vars, NEW s \in queued', s \notin queued
    PROVE  \E r \in Requests : CreateScanQueue(r) /\ request[r].scan = s
<1>1. CASE \E r \in Requests : CreateScanQueue(r)
  BY <1>1 DEF CreateScanQueue
<1>2. CASE \E r \in Requests : CancelScanRevoke(r)
  BY <1>2 DEF CancelScanRevoke
<1> QED
  BY <1>1, <1>2, DatabaseStepSends DEF Next, vars

\* A request that has handed its workflow over takes one of two steps: it commits or fails.
LEMMA OnlyEndsQueued ==
    ASSUME TypeOK, [Next]_vars, NEW r \in Requests, At(r, "create_scan", "queued"),
           ~ CreateScanCommit(r), ~ Rollback(r)
    PROVE  request'[r] = request[r]
<1>1. CASE UNCHANGED vars \/ \E u \in Users, x \in Scopes : CreateScope(u, x)
  BY <1>1 DEF vars, CreateScope
<1>2. ASSUME NEW q \in Requests, q # r,
             DatabaseStep(q) \/ CreateScanQueue(q) \/ CancelScanRevoke(q)
      PROVE  request'[r] = request[r]
  BY <1>2, StepOf
<1>3. ~ CreateScanQueue(r) /\ ~ CancelScanRevoke(r)
  BY DEF CreateScanQueue, CancelScanRevoke, At
<1>4. ~ IsIdle(r)
  BY DEF IsIdle, IdleRequest, At
<1>5. ~ DatabaseStep(r)
  BY <1>4 DEF DatabaseStep, At, Handling, InitiateValidationLoad, VerifyValidationLoad,
     DeleteScopeLoad, CreateTargetLoad, InitiateValidationCommit, VerifyValidationLatest,
     VerifyValidationCommit, DeleteScopeCommit, CreateTargetCommit, CreateScanTarget,
     CreateScanScope, CreateScanCheck, CreateScanInsert, CancelScanLoad, CancelScanCommit
<1> QED
  BY <1>1, <1>2, <1>3, <1>5 DEF Next

\* The steps that disturb it are those of a request that has handed its workflow over:
\* it commits the row, or rolls back and its scan is gone.
LEMMA OrphanStep ==
    ASSUME ServiceInv, OrphanExplained, [Next]_vars
    PROVE  OrphanExplained'
<1> SUFFICES ASSUME NEW s \in queued', ~ Present(scan[s])', scan'[s] # Gone
             PROVE  \E r \in Requests : At(r, "create_scan", "queued")' /\ request'[r].scan = s
  BY DEF OrphanExplained
<1>0. TypeOK
  BY DEF ServiceInv
<1>1. s \in Scans /\ scan'[s] \in ScanRows
  BY <1>0, TypeStep DEF TypeOK
<1>2. scan'[s] = scan[s]
  <2>1. scan'[s].status = "gone" => scan'[s] = Gone
    <3>1. NoRow.status # "gone"
      BY DEF NoRow
    <3>2. \A row \in [status : {"pending", "running", "cancelled"}, target : Targets] :
             row.status # "gone"
      OBVIOUS
    <3> QED
      BY <1>1, <3>1, <3>2 DEF ScanRows
  <2> QED
    BY <1>0, <1>1, <2>1, ScanRowsEvolve DEF Present
<1>3. ASSUME NEW r \in Requests, CreateScanQueue(r), request[r].scan = s
      PROVE  At(r, "create_scan", "queued")' /\ request'[r].scan = s
  <2>1. request[r] \in [op : {"create_scan"}, at : {"inserted"}, target : Targets,
                        scope : Scopes, scan : Scans]
    BY <1>0, <1>3 DEF TypeOK, CreateScanQueue, At, RequestStates, IdleRequest
  <2>2. request'[r] = [request[r] EXCEPT !.at = "queued"]
    BY <1>0, <1>3 DEF CreateScanQueue, Keep, TypeOK
  <2> QED
    BY <1>3, <2>1, <2>2 DEF At
<1>4. ASSUME NEW r \in Requests, At(r, "create_scan", "queued"), request[r].scan = s
      PROVE  request'[r] = request[r]
  <2>1. ~ CreateScanCommit(r)
    BY <1>0, <1>2, <1>4 DEF CreateScanCommit, TypeOK, Present
  <2>2. ~ Rollback(r)
    BY <1>0, <1>4 DEF Rollback, Inserting, Handling, At, TypeOK
  <2> QED
    BY <1>0, <1>4, <2>1, <2>2, StepOf, OnlyEndsQueued
<1>5. CASE s \in queued
  BY <1>2, <1>4, <1>5 DEF OrphanExplained, Present, At
<1>6. CASE s \notin queued
  <2>1. PICK r \in Requests : CreateScanQueue(r) /\ request[r].scan = s
    BY <1>6, QueuedBy
  <2> QED
    BY <1>3, <2>1
<1> QED
  BY <1>5, <1>6

\* A workflow without a scan in the database was started by a request that then failed, or
\* that is still to commit the row (create_scan hands over before the commit).
THEOREM OrphansAreExplained == SystemSpec => []OrphanWorkflowExplained
<1>1. Init => OrphanExplained
  BY DEF Init, OrphanExplained
<1>2. Spec => []OrphanExplained
  BY <1>1, OrphanStep, ServiceInvHolds, PTL DEF Spec
<1>3. OrphanExplained /\ HandOver => OrphanWorkflowExplained
  BY DEF OrphanExplained, HandOver, OrphanWorkflowExplained
<1> QED
  BY <1>2, <1>3, SystemImplementsParts, HandOverHolds, PTL
=============================================================================
