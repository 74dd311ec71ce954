---------------------------- MODULE ScanService -----------------------------
(***************************************************************************)
(* Scopes, targets and scans in PostgreSQL, and the API requests that      *)
(* change them (app/services/scope_service.py, scan_service.py).           *)
(*                                                                         *)
(* A request is a coroutine with a database session of its own.  It reads, *)
(* awaits and writes; what it wrote becomes visible when the session       *)
(* commits after the handler (app/core/database.py:44-55), and an          *)
(* exception rolls it back.  Every await is a point where other requests   *)
(* run, so each handler is split there; the isolation level is the default *)
(* READ COMMITTED.  Calls to Celery take effect at once and are not rolled *)
(* back.                                                                   *)
(***************************************************************************)
EXTENDS Integers, Sequences, FiniteSets

CONSTANTS
    Users,           \* authenticated users
    Scopes,          \* scope ids
    Targets,         \* target ids
    Scans,           \* scan ids
    Requests,        \* slots for requests served at the same time
    MaxValidations   \* bound on the validations started for one scope

ASSUME ServiceAssumption ==
    /\ IsFiniteSet(Requests)
    /\ MaxValidations \in Nat

VARIABLES
    scope,       \* scope[x]: the row of scope x
    validations, \* validations[x]: is_valid of each validation of x, oldest first
    target,      \* target[t]: the row of target t
    scan,        \* scan[s]: the row of scan s
    request,     \* request[r]: the handler in slot r and what it has read
    queued,      \* scans whose workflow was handed to Celery
    revoked      \* scans whose task id was sent to Celery for revocation

vars == <<scope, validations, target, scan, request, queued, revoked>>

-----------------------------------------------------------------------------
(* Rows and requests.  A row that is deleted or rolled back is "gone": its *)
(* uuid is not used again.                                                 *)

NoRow == [status |-> "none"]
Gone  == [status |-> "gone"]

ScopeRows  == {NoRow, Gone} \cup [status : {"pending", "active"}, owner : Users]
TargetRows == {NoRow, Gone} \cup [status : {"present"}, owner : Users, scope : Scopes]
ScanRows   == {NoRow, Gone} \cup
    [status : {"pending", "running", "cancelled"}, target : Targets]

Present(row) == row.status \notin {"none", "gone"}

IdleRequest == [op |-> "idle"]

RequestStates ==
    {IdleRequest}
    \cup [op : {"initiate_validation", "delete_scope"}, scope : Scopes]
    \cup [op : {"verify_validation"}, at : {"scope"}, scope : Scopes]
    \cup [op : {"verify_validation"}, at : {"latest"}, scope : Scopes, latest : 1 .. MaxValidations]
    \cup [op : {"create_target"}, user : Users, scope : Scopes]
    \cup [op : {"create_scan"}, at : {"target"}, user : Users, target : Targets, scope : Scopes]
    \cup [op : {"create_scan"}, at : {"scope", "unblocked"}, target : Targets, scope : Scopes]
    \cup [op : {"create_scan"}, at : {"inserted", "queued"}, target : Targets, scope : Scopes,
          scan : Scans]
    \cup [op : {"cancel_scan"}, at : {"loaded", "revoked"}, scan : Scans]

TypeOK ==
    /\ scope \in [Scopes -> ScopeRows]
    /\ validations \in [Scopes -> Seq(BOOLEAN)]
    /\ \A x \in Scopes : Len(validations[x]) <= MaxValidations
    /\ target \in [Targets -> TargetRows]
    /\ scan \in [Scans -> ScanRows]
    /\ request \in [Requests -> RequestStates]
    /\ queued \in SUBSET Scans
    /\ revoked \in SUBSET Scans

Init ==
    /\ scope = [x \in Scopes |-> NoRow]
    /\ validations = [x \in Scopes |-> <<>>]
    /\ target = [t \in Targets |-> NoRow]
    /\ scan = [s \in Scans |-> NoRow]
    /\ request = [r \in Requests |-> IdleRequest]
    /\ queued = {}
    /\ revoked = {}

IsIdle(r)       == request[r] = IdleRequest
Handling(r, op) == request[r].op = op
At(r, op, pc)   == request[r].op = op /\ request[r].at = pc
Keep(r, state)  == request' = [request EXCEPT ![r] = state]
Finish(r)       == Keep(r, IdleRequest)

\* Requests that have inserted a scan row and not committed: the foreign keys of the
\* row lock its target and its scope against deletion until they do.
Inserting(r)  == Handling(r, "create_scan") /\ request[r].at \in {"inserted", "queued"}
Reserved      == {request[r].scan : r \in {q \in Requests : Inserting(q)}}

Unused(rows, id) == rows[id] = NoRow

-----------------------------------------------------------------------------
(* Scopes *)

Owns(u, row) == Present(row) /\ row.owner = u

\* ScopeService.create_scope
CreateScope(u, x) ==
    /\ Unused(scope, x)
    /\ scope' = [scope EXCEPT ![x] = [status |-> "pending", owner |-> u]]
    /\ UNCHANGED <<validations, target, scan, request, queued, revoked>>

\* initiate_validation: _get_scope_or_raise ...
InitiateValidationLoad(r, u, x) ==
    /\ IsIdle(r)
    /\ Owns(u, scope[x])
    /\ Keep(r, [op |-> "initiate_validation", scope |-> x])
    /\ UNCHANGED <<scope, validations, target, scan, queued, revoked>>

\* ... then the new validation is inserted; its foreign key needs the scope row.
InitiateValidationCommit(r) ==
    LET x == request[r].scope
    IN  /\ Handling(r, "initiate_validation")
        /\ Present(scope[x])
        /\ Len(validations[x]) < MaxValidations
        /\ validations' = [validations EXCEPT ![x] = Append(@, FALSE)]
        /\ Finish(r)
        /\ UNCHANGED <<scope, target, scan, queued, revoked>>

\* verify_validation: _get_scope_or_raise ...
VerifyValidationLoad(r, u, x) ==
    /\ IsIdle(r)
    /\ Owns(u, scope[x])
    /\ Keep(r, [op |-> "verify_validation", at |-> "scope", scope |-> x])
    /\ UNCHANGED <<scope, validations, target, scan, queued, revoked>>

\* ... the latest validation ...
VerifyValidationLatest(r) ==
    LET x == request[r].scope
    IN  /\ At(r, "verify_validation", "scope")
        /\ validations[x] # <<>>
        /\ Keep(r, [op |-> "verify_validation", at |-> "latest", scope |-> x,
                    latest |-> Len(validations[x])])
        /\ UNCHANGED <<scope, validations, target, scan, queued, revoked>>

VerifyValidationCommitScopeOnly(r) ==
    LET x == request[r].scope
    IN  /\ At(r, "verify_validation", "latest")
        /\ Present(scope[x])
        /\ scope' = [scope EXCEPT ![x].status = "active"]
        /\ Finish(r)
        /\ UNCHANGED <<validations, target, scan, queued, revoked>>

VerifyValidationCommitUnlocked(r) ==
    /\ At(r, "verify_validation", "latest")
    /\ scope' = [scope EXCEPT ![request[r].scope].status = "active"]
    /\ Finish(r)
    /\ UNCHANGED <<validations, target, scan, queued, revoked>>

\* ... is accepted whatever its method, and the scope becomes active.
VerifyValidationCommit(r) ==
    LET x == request[r].scope
    IN  /\ At(r, "verify_validation", "latest")
        /\ Present(scope[x])
        /\ validations' = [validations EXCEPT ![x][request[r].latest] = TRUE]
        /\ scope' = [scope EXCEPT ![x].status = "active"]
        /\ Finish(r)
        /\ UNCHANGED <<target, scan, queued, revoked>>

\* delete_scope: _get_scope_or_raise ...
DeleteScopeLoad(r, u, x) ==
    /\ IsIdle(r)
    /\ Owns(u, scope[x])
    /\ Keep(r, [op |-> "delete_scope", scope |-> x])
    /\ UNCHANGED <<scope, validations, target, scan, queued, revoked>>

Blocked(x)    == \E q \in Requests : Inserting(q) /\ request[q].scope = x
TargetsIn(x)  == {t \in Targets : Present(target[t]) /\ target[t].scope = x}
ScansOf(ts)   == {s \in Scans : Present(scan[s]) /\ scan[s].target \in ts}

\* ... then the row goes, and with it its validations, its targets and their scans
\* (ON DELETE CASCADE).  Deleting a row another request has deleted changes nothing.
DeleteScopeCommit(r) ==
    LET x == request[r].scope
    IN  /\ Handling(r, "delete_scope")
        /\ ~ Blocked(x)
        /\ scope' = [scope EXCEPT ![x] = Gone]
        /\ validations' = [validations EXCEPT ![x] = <<>>]
        /\ target' = [t \in Targets |-> IF t \in TargetsIn(x) THEN Gone ELSE target[t]]
        /\ scan' = [s \in Scans |-> IF s \in ScansOf(TargetsIn(x)) THEN Gone ELSE scan[s]]
        /\ Finish(r)
        /\ UNCHANGED <<queued, revoked>>

-----------------------------------------------------------------------------
(* Targets *)

UsableScopeAnyStatus(u, x) == Owns(u, scope[x])

\* ScanService._get_active_scope
UsableScope(u, x) == Owns(u, scope[x]) /\ scope[x].status = "active"

\* create_target: the scope must be active and the caller's ...
CreateTargetLoad(r, u, x) ==
    /\ IsIdle(r)
    /\ UsableScope(u, x)
    /\ Keep(r, [op |-> "create_target", user |-> u, scope |-> x])
    /\ UNCHANGED <<scope, validations, target, scan, queued, revoked>>

\* ... and its row must still be there when the target is inserted.
CreateTargetCommit(r, t) ==
    LET x == request[r].scope
    IN  /\ Handling(r, "create_target")
        /\ Present(scope[x])
        /\ Unused(target, t)
        /\ target' = [target EXCEPT ![t] =
                        [status |-> "present", owner |-> request[r].user, scope |-> x]]
        /\ Finish(r)
        /\ UNCHANGED <<scope, validations, scan, queued, revoked>>

-----------------------------------------------------------------------------
(* Scans *)

\* create_scan: get_target ...
CreateScanTarget(r, u, t) ==
    /\ IsIdle(r)
    /\ Owns(u, target[t])
    /\ Keep(r, [op |-> "create_scan", at |-> "target", user |-> u, target |-> t,
                scope |-> target[t].scope])
    /\ UNCHANGED <<scope, validations, target, scan, queued, revoked>>

\* ... _get_active_scope ...
CreateScanScope(r) ==
    LET q == request[r]
    IN  /\ At(r, "create_scan", "target")
        /\ UsableScope(q.user, q.scope)
        /\ Keep(r, [op |-> "create_scan", at |-> "scope", target |-> q.target, scope |-> q.scope])
        /\ UNCHANGED <<scope, validations, target, scan, queued, revoked>>

Active(t) == {s \in Scans : /\ scan[s].status \in {"pending", "running"}
                            /\ scan[s].target = t}

CreateScanCheckNothing(r) ==
    /\ At(r, "create_scan", "scope")
    /\ Keep(r, [request[r] EXCEPT !.at = "unblocked"])
    /\ UNCHANGED <<scope, validations, target, scan, queued, revoked>>

\* ... the query for pending and running scans finds none ...
CreateScanCheck(r) ==
    LET q == request[r]
    IN  /\ At(r, "create_scan", "scope")
        /\ Active(q.target) = {}
        /\ Keep(r, [q EXCEPT !.at = "unblocked"])
        /\ UNCHANGED <<scope, validations, target, scan, queued, revoked>>

CreateScanInsertCommitted(r, s) ==
    LET q == request[r]
    IN  /\ At(r, "create_scan", "unblocked")
        /\ Present(target[q.target])
        /\ Present(scope[q.scope])
        /\ Unused(scan, s)
        /\ s \notin Reserved
        /\ scan' = [scan EXCEPT ![s] = [status |-> "pending", target |-> q.target]]
        /\ Keep(r, [op |-> "create_scan", at |-> "inserted", target |-> q.target,
                    scope |-> q.scope, scan |-> s])
        /\ UNCHANGED <<scope, validations, target, queued, revoked>>

\* ... the scan and its phases are inserted, visible to this session only ...
CreateScanInsert(r, s) ==
    LET q == request[r]
    IN  /\ At(r, "create_scan", "unblocked")
        /\ Present(target[q.target])
        /\ Present(scope[q.scope])
        /\ Unused(scan, s)
        /\ s \notin Reserved
        /\ Keep(r, [op |-> "create_scan", at |-> "inserted", target |-> q.target,
                    scope |-> q.scope, scan |-> s])
        /\ UNCHANGED <<scope, validations, target, scan, queued, revoked>>

\* ... the workflow goes to Celery ...
CreateScanQueue(r) ==
    /\ At(r, "create_scan", "inserted")
    /\ queued' = queued \cup {request[r].scan}
    /\ Keep(r, [request[r] EXCEPT !.at = "queued"])
    /\ UNCHANGED <<scope, validations, target, scan, revoked>>

CreateScanCommitLost(r) ==
    /\ At(r, "create_scan", "queued")
    /\ Finish(r)
    /\ UNCHANGED <<scope, validations, target, scan, queued, revoked>>

\* ... and the row is committed with its task id, already RUNNING.
CreateScanCommit(r) ==
    LET q == request[r]
    IN  /\ At(r, "create_scan", "queued")
        /\ scan' = [scan EXCEPT ![q.scan] = [status |-> "running", target |-> q.target]]
        /\ Finish(r)
        /\ UNCHANGED <<scope, validations, target, queued, revoked>>

\* cancel_scan: the scan is loaded, its owner and its status are checked ...
CancelScanLoad(r, u, s) ==
    /\ IsIdle(r)
    /\ scan[s].status \in {"pending", "running"}
    /\ Owns(u, target[scan[s].target])
    /\ Keep(r, [op |-> "cancel_scan", at |-> "loaded", scan |-> s])
    /\ UNCHANGED <<scope, validations, target, scan, queued, revoked>>

CancelScanRevokeSkipped(r) ==
    /\ At(r, "cancel_scan", "loaded")
    /\ Keep(r, [request[r] EXCEPT !.at = "revoked"])
    /\ UNCHANGED <<scope, validations, target, scan, queued, revoked>>

\* ... its Celery task is revoked ...
CancelScanRevoke(r) ==
    /\ At(r, "cancel_scan", "loaded")
    /\ revoked' = revoked \cup {request[r].scan}
    /\ Keep(r, [request[r] EXCEPT !.at = "revoked"])
    /\ UNCHANGED <<scope, validations, target, scan, queued>>

\* ... and the row, if it is still there, becomes CANCELLED.
CancelScanCommit(r) ==
    LET s == request[r].scan
    IN  /\ At(r, "cancel_scan", "revoked")
        /\ Present(scan[s])
        /\ scan' = [scan EXCEPT ![s].status = "cancelled"]
        /\ Finish(r)
        /\ UNCHANGED <<scope, validations, target, queued, revoked>>

-----------------------------------------------------------------------------

\* get_db_session: the request raises (a check fails, a row is gone, a second active scan
\* makes scalar_one_or_none raise, Celery or the database is unreachable), is cancelled,
\* or the process dies.  Nothing it wrote to the database remains.
Rollback(r) ==
    /\ ~ IsIdle(r)
    /\ scan' = [s \in Scans |-> IF Inserting(r) /\ s = request[r].scan THEN Gone ELSE scan[s]]
    /\ Finish(r)
    /\ UNCHANGED <<scope, validations, target, queued, revoked>>

\* The steps of a request that touch the database alone.
DatabaseStep(r) ==
    \/ \E u \in Users, x \in Scopes :
        \/ InitiateValidationLoad(r, u, x)
        \/ VerifyValidationLoad(r, u, x)
        \/ DeleteScopeLoad(r, u, x)
        \/ CreateTargetLoad(r, u, x)
    \/ InitiateValidationCommit(r)
    \/ VerifyValidationLatest(r) \/ VerifyValidationCommit(r)
    \/ DeleteScopeCommit(r)
    \/ \E t \in Targets : CreateTargetCommit(r, t)
    \/ \E u \in Users, t \in Targets : CreateScanTarget(r, u, t)
    \/ CreateScanScope(r) \/ CreateScanCheck(r)
    \/ \E s \in Scans : CreateScanInsert(r, s)
    \/ CreateScanCommit(r)
    \/ \E u \in Users, s \in Scans : CancelScanLoad(r, u, s)
    \/ CancelScanCommit(r)
    \/ Rollback(r)

Next ==
    \/ \E u \in Users, x \in Scopes : CreateScope(u, x)
    \/ \E r \in Requests : DatabaseStep(r) \/ CreateScanQueue(r) \/ CancelScanRevoke(r)

Spec == Init /\ [][Next]_vars

-----------------------------------------------------------------------------
(* Properties *)

\* "nothing is scanned unless it falls within a validated, active scope" (scope.py:56-57):
\* a scan in the database always has its target, and the target an active scope, however
\* its creation interleaved with the deletion of the scope.
ScansUnderActiveScope ==
    \A s \in Scans : Present(scan[s]) =>
        LET t == target[scan[s].target]
        IN  Present(t) /\ scope[t.scope].status = "active"

\* A scope is active only if one of its validations was accepted, also when a newer
\* validation was started between the reads and the commit of verify_validation.
ActiveScopeWasValidated ==
    \A x \in Scopes : scope[x].status = "active" =>
        \E i \in DOMAIN validations[x] : validations[x][i]

\* A scan is never left waiting: PENDING is not committed by any request, and a scan that
\* is RUNNING was handed to Celery before its row could be seen.
VisibleScanWasQueued ==
    \A s \in Scans : Present(scan[s]) => scan[s].status # "pending" /\ s \in queued

\* A scan is CANCELLED only once its task was revoked.
CancelledScanWasRevoked ==
    \A s \in Scans : scan[s].status = "cancelled" => s \in revoked

\* The requests that have found no active scan of target t and not committed one.
PastCheck(t) ==
    {r \in Requests : /\ Handling(r, "create_scan")
                      /\ request[r].at \in {"unblocked", "inserted", "queued"}
                      /\ request[r].target = t}

\* The check for running scans is not atomic with the insert, so a target can have more
\* than one active scan, but never more than the requests served at the same time.
ActiveScansBounded ==
    \A t \in Targets : Cardinality(Active(t)) + Cardinality(PastCheck(t)) <= Cardinality(Requests)

\* A cancelled scan stays cancelled, and a row that is gone stays gone, whatever requests
\* loaded it before.
EndIsFinal ==
    [][\A s \in Scans :
        /\ scan[s].status = "cancelled" => scan'[s].status \in {"cancelled", "gone"}
        /\ scan[s].status = "gone" => scan'[s].status = "gone"]_vars

\* "No scan is already running for this target" (scan_service.py:119): a target has at
\* most one active scan.
OneActiveScanPerTarget ==
    \A t \in Targets : Cardinality(Active(t)) <= 1
=============================================================================
