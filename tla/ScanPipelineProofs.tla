------------------------- MODULE ScanPipelineProofs -------------------------
(***************************************************************************)
(* Theorems of ScanPipeline, for every set of scans, every finite set of   *)
(* pool processes, every deployment and any number of faults.              *)
(***************************************************************************)
EXTENDS ScanPipeline, FiniteSetTheorems, TLAPS

-----------------------------------------------------------------------------
(* The workflow's shape and the helpers of the model *)

\* Every task has a position in the chain.
LEMMA StageOfType == StageOf \in [Tasks -> 1 .. 10]
BY DEF StageOf, Tasks

\* No position is left empty.
LEMMA EveryStageHasTask == \A k \in 1 .. 10 : \E t \in Tasks : StageOf[t] = k
<1>1. /\ StageOf["reconnaissance"] = 1 /\ "reconnaissance" \in Tasks
      /\ StageOf["crawling"] = 2 /\ "crawling" \in Tasks
      /\ StageOf["fingerprinting"] = 3 /\ "fingerprinting" \in Tasks
      /\ StageOf["security_testing"] = 4 /\ "security_testing" \in Tasks
      /\ StageOf["verification"] = 5 /\ "verification" \in Tasks
  BY DEF StageOf, Tasks
<1>2. /\ StageOf["evidence_collection"] = 6 /\ "evidence_collection" \in Tasks
      /\ StageOf["correlation"] = 7 /\ "correlation" \in Tasks
      /\ StageOf["ai_analysis"] = 8 /\ "ai_analysis" \in Tasks
      /\ StageOf["risk_scoring"] = 9 /\ "risk_scoring" \in Tasks
      /\ StageOf["report_generation"] = 10 /\ "report_generation" \in Tasks
  BY DEF StageOf, Tasks
<1>3. QED
  BY <1>1, <1>2

\* Reconnaissance is the only task with nothing before it.
LEMMA OnlyFirstTaskUnpreceded ==
    /\ FirstTask \in Tasks
    /\ StageTasks(StageOf[FirstTask] - 1) = {}
    /\ \A t \in Tasks : StageTasks(StageOf[t] - 1) = {} => t = FirstTask
<1>1. FirstTask \in Tasks
  BY DEF FirstTask, Tasks
<1>2. StageTasks(StageOf[FirstTask] - 1) = {}
  BY DEF StageTasks, StageOf, FirstTask, Tasks
<1>3. ASSUME NEW t \in Tasks, t # FirstTask
      PROVE  \E u \in Tasks : StageOf[u] = StageOf[t] - 1
  <2>1. StageOf[t] \in 2 .. 10
    BY <1>3 DEF StageOf, FirstTask, Tasks
  <2>2. StageOf[t] - 1 \in 1 .. 10
    BY <2>1
  <2>3. QED
    BY <2>2, EveryStageHasTask
<1>4. QED
  BY <1>1, <1>2, <1>3 DEF StageTasks

\* Nothing retries the report, so that its message is the one whose id start() returned.
LEMMA LastTaskType == LastTask \in Tasks /\ LastTask \notin SelfRetrying
BY DEF LastTask, Tasks, SelfRetrying

LEMMA MessageType ==
    ASSUME NEW s \in Scans, NEW t \in Tasks
    PROVE  Message(s, t) \in Messages
BY DEF Message, Messages, MaxRetries

LEMMA MessagesShape ==
    ASSUME NEW m \in Messages
    PROVE  /\ m.scan \in Scans
           /\ m.task \in Tasks
           /\ m.retries \in 0 .. MaxRetries
           /\ m.task = LastTask => m = Message(m.scan, LastTask)
<1>1. m.scan \in Scans /\ m.task \in Tasks /\ m.retries \in 0 .. MaxRetries
  BY DEF Messages
<1>2. ASSUME m.task = LastTask
      PROVE  m = Message(m.scan, LastTask)
  <2>1. m.retries = 0
    BY <1>2, LastTaskType DEF Messages, MaxRetries
  <2>2. QED
    BY <1>1, <1>2, <2>1 DEF Messages, Message
<1>3. QED
  BY <1>1, <1>2

LEMMA RetryType ==
    ASSUME NEW m \in Messages, m.task \in SelfRetrying, m.retries < MaxRetries
    PROVE  /\ [m EXCEPT !.retries = @ + 1] \in Messages
           /\ [m EXCEPT !.retries = @ + 1].scan = m.scan
           /\ [m EXCEPT !.retries = @ + 1].task = m.task
BY DEF Messages, MaxRetries

\* Sending puts every message of ms in its queue and takes none away.
LEMMA SendType ==
    ASSUME queue \in [Messages -> Nat], NEW ms
    PROVE  /\ Send(ms) \in [Messages -> Nat]
           /\ \A m \in Messages : Send(ms)[m] > 0 <=> m \in ms \/ queue[m] > 0
BY DEF Send

LEMMA JobShape ==
    ASSUME TypeOK, NEW w \in Workers
    PROVE  /\ job[w] = Idle \/ job[w] \in [at : {"body", "ack"}, msg : Messages]
           /\ job[w].at = "idle" <=> job[w] = Idle
           /\ job[w].at # "idle" => job[w].msg \in Messages /\ job[w].at \in {"body", "ack"}
BY DEF TypeOK, Jobs, Idle

LEMMA RunningShape ==
    ASSUME NEW w, NEW m, Running(w, m)
    PROVE  job[w].at = "body" /\ job[w].msg = m /\ job[w].at # "idle"
BY DEF Running

LEMMA HoldersFinite ==
    ASSUME NEW m
    PROVE  /\ Cardinality(Holders(m)) \in Nat
           /\ Cardinality(Holders(m)) > 0 <=> Holders(m) # {}
<1>1. IsFiniteSet(Holders(m))
  BY PipelineAssumption, FS_Subset DEF Holders
<1>2. QED
  BY <1>1, FS_CardinalityType, FS_EmptySet

-----------------------------------------------------------------------------
(* Type correctness *)

LEMMA TypeOKStep == TypeOK /\ [Next]_vars => TypeOK'
<1> SUFFICES ASSUME TypeOK, [Next]_vars
             PROVE  TypeOK'
  OBVIOUS
<1> USE DEF TypeOK
<1>0. \A w \in Workers, m \in Messages :
        /\ [job EXCEPT ![w] = Idle] \in [Workers -> Jobs]
        /\ [job EXCEPT ![w] = [at |-> "body", msg |-> m]] \in [Workers -> Jobs]
        /\ [job EXCEPT ![w] = [at |-> "ack", msg |-> m]] \in [Workers -> Jobs]
  BY DEF Jobs, Idle
<1>1. ASSUME NEW s \in Scans, Submit(s)
      PROVE  TypeOK'
  BY <1>1, SendType DEF Submit
<1>2. ASSUME NEW s \in Scans, Revoke(s)
      PROVE  TypeOK'
  <2>1. job' \in [Workers -> Jobs]
    BY <1>2 DEF Revoke, Jobs
  <2>2. QED
    BY <1>2, <2>1 DEF Revoke
<1>3. ASSUME NEW w \in Workers, NEW m \in Messages, Deliver(w, m)
      PROVE  TypeOK'
  <2>1. queue' \in [Messages -> Nat]
    BY <1>3 DEF Deliver
  <2>2. QED
    BY <1>0, <1>3, <2>1 DEF Deliver
<1>4. ASSUME NEW w \in Workers, NEW m \in Messages, Succeed(w, m)
      PROVE  TypeOK'
  <2>1. m.scan \in Scans /\ m.task \in Tasks
    BY MessagesShape
  <2>2. queue' \in [Messages -> Nat]
    BY <1>4, SendType DEF Succeed
  <2>3. done' \in [Scans -> SUBSET Tasks] /\ recorded' \in [Scans -> SUBSET Tasks]
    BY <1>4, <2>1 DEF Succeed
  <2>4. QED
    BY <1>0, <1>4, <2>2, <2>3 DEF Succeed
<1>5. ASSUME NEW w \in Workers, NEW m \in Messages, RaiseAndRetry(w, m)
      PROVE  TypeOK'
  BY <1>0, <1>5, SendType DEF RaiseAndRetry
<1>6. ASSUME NEW w \in Workers, NEW m \in Messages, RaiseAndFail(w, m)
      PROVE  TypeOK'
  BY <1>0, <1>6, MessagesShape DEF RaiseAndFail
<1>7. ASSUME NEW m \in Messages, Discard(m)
      PROVE  TypeOK'
  BY <1>7, MessagesShape DEF Discard
<1>8. ASSUME NEW w \in Workers, Ack(w)
      PROVE  TypeOK'
  BY <1>8, <1>0, JobShape DEF Ack, Jobs
<1>9. ASSUME NEW w \in Workers, LoseProcess(w)
      PROVE  TypeOK'
  <2>1. job' \in [Workers -> Jobs]
    BY <1>9, JobShape, <1>0 DEF LoseProcess
  <2>2. queue' \in [Messages -> Nat] /\ faults' \in 0 .. MaxFaults
    BY <1>9, SendType, PipelineAssumption DEF LoseProcess
  <2>3. QED
    BY <1>9, <2>1, <2>2 DEF LoseProcess
<1>10. ASSUME NEW w \in Workers, Redeliver(w)
       PROVE  TypeOK'
  BY <1>10, SendType, PipelineAssumption DEF Redeliver
<1>11. ASSUME RestartWorker
       PROVE  TypeOK'
  BY <1>11, HoldersFinite, PipelineAssumption DEF RestartWorker, Jobs
<1>12. CASE UNCHANGED vars
  BY <1>12 DEF vars
<1>13. QED
  BY <1>1, <1>2, <1>3, <1>4, <1>5, <1>6, <1>7, <1>8, <1>9, <1>10, <1>11, <1>12 DEF Next

\* Type correctness of the workflow state (the queues hold no negative number of copies).
THEOREM TypeCorrect == Spec => []TypeOK
<1>1. Init => TypeOK
  BY PipelineAssumption DEF Init, TypeOK, Jobs
<1>2. QED
  BY <1>1, TypeOKStep, PTL DEF Spec

-----------------------------------------------------------------------------
(* Phases in order *)

\* A message whose scan was submitted and whose turn has come.
Due(m) == m.scan \in submitted /\ StageDone(m.scan, StageOf[m.task] - 1)

\* The inductive strengthening of PhaseOrder: also a message whose task has run and is not
\* acknowledged yet is due, because a fault puts it back into its queue.
OrderInv ==
    /\ \A m \in Messages : queue[m] > 0 => Due(m)
    /\ \A w \in Workers : job[w].at # "idle" => Due(job[w].msg)
    /\ \A s \in Scans : \A t \in done[s] : StageDone(s, StageOf[t] - 1)
    /\ \A s \in Scans : recorded[s] \subseteq done[s]
    /\ \A s \in Scans : s \notin submitted => done[s] = {}

\* Nothing that is submitted or done is taken back, so that what is due stays due.
LEMMA DueStable ==
    ASSUME submitted \subseteq submitted', \A s \in Scans : done[s] \subseteq done'[s]
    PROVE  /\ \A s \in Scans, k \in Int : StageDone(s, k) => StageDone(s, k)'
           /\ \A m \in Messages : Due(m) => Due(m)'
<1>1. \A s \in Scans, k \in Int : StageDone(s, k) => StageDone(s, k)'
  BY DEF StageDone, StageTasks
<1>2. ASSUME NEW m \in Messages, Due(m)
      PROVE  Due(m)'
  <2>1. m.scan \in Scans /\ StageOf[m.task] - 1 \in Int
    BY MessagesShape, StageOfType
  <2>2. QED
    BY <1>1, <1>2, <2>1 DEF Due
<1>3. QED
  BY <1>1, <1>2

\* A step that finishes no task and submits no scan preserves OrderInv if every message it
\* leaves in a queue or with a process was in one or with one.
LEMMA OrderInvKept ==
    ASSUME OrderInv, TypeOK, TypeOK',
           submitted' = submitted, done' = done, recorded' = recorded,
           \A m \in Messages : queue'[m] > 0 =>
              Due(m) \/ queue[m] > 0 \/ \E w \in Workers : job[w].at # "idle" /\ job[w].msg = m,
           \A w \in Workers : job'[w].at # "idle" =>
              \/ job[w].at # "idle" /\ job'[w].msg = job[w].msg
              \/ queue[job'[w].msg] > 0
    PROVE  OrderInv'
<1>1. \A m \in Messages : Due(m) => Due(m)'
  BY DueStable
<1>2. \A m \in Messages : queue'[m] > 0 => Due(m)'
  BY <1>1 DEF OrderInv
<1>3. ASSUME NEW w \in Workers, job'[w].at # "idle"
      PROVE  Due(job[w].msg)'
  <2>1. job'[w].msg \in Messages
    BY <1>3 DEF TypeOK, Jobs, Idle
  <2>2. Due(job'[w].msg)
    BY <1>3, <2>1 DEF OrderInv
  <2>3. QED
    BY <1>1, <2>1, <2>2 DEF Due, StageDone
<1>4. QED
  BY <1>2, <1>3 DEF OrderInv, StageDone

LEMMA OrderInvStep == OrderInv /\ TypeOK /\ TypeOK' /\ [Next]_vars => OrderInv'
<1> SUFFICES ASSUME OrderInv, TypeOK, TypeOK', [Next]_vars
             PROVE  OrderInv'
  OBVIOUS
<1>1. ASSUME NEW s \in Scans, Submit(s)
      PROVE  OrderInv'
  <2>1. submitted \subseteq submitted' /\ done' = done /\ recorded' = recorded /\ job' = job
    BY <1>1 DEF Submit
  <2>2. \A m \in Messages : Due(m) => Due(m)'
    BY <2>1, DueStable
  <2>3. Due(Message(s, FirstTask))'
    BY <1>1, OnlyFirstTaskUnpreceded DEF Submit, Due, Message, StageDone
  <2>4. \A m \in Messages : queue'[m] > 0 => Due(m)'
    <3>1. \A m \in Messages : queue'[m] > 0 => m = Message(s, FirstTask) \/ queue[m] > 0
      BY <1>1, SendType DEF Submit, TypeOK
    <3>2. QED
      BY <2>2, <2>3, <3>1 DEF OrderInv
  <2>5. \A w \in Workers : job'[w].at # "idle" => Due(job[w].msg)'
    BY <2>1, <2>2, JobShape DEF OrderInv, Due, StageDone
  <2>6. QED
    BY <2>1, <2>4, <2>5, <1>1 DEF OrderInv, StageDone, Submit
<1>2. ASSUME NEW s \in Scans, Revoke(s)
      PROVE  OrderInv'
  <2>1. \A w \in Workers : job'[w].at # "idle" => job'[w] = job[w]
    BY <1>2 DEF Revoke, Idle
  <2>2. QED
    BY <1>2, <2>1, OrderInvKept DEF Revoke
<1>3. ASSUME NEW w \in Workers, NEW m \in Messages, Deliver(w, m)
      PROVE  OrderInv'
  <2>1. \A n \in Messages : queue'[n] > 0 => queue[n] > 0
    BY <1>3 DEF Deliver, TypeOK
  <2>2. ASSUME NEW v \in Workers, job'[v].at # "idle"
        PROVE  \/ job[v].at # "idle" /\ job'[v].msg = job[v].msg
               \/ queue[job'[v].msg] > 0
    BY <1>3, <2>2 DEF Deliver, TypeOK
  <2>3. QED
    BY <1>3, <2>1, <2>2, OrderInvKept DEF Deliver
<1>4. ASSUME NEW w \in Workers, NEW m \in Messages, Succeed(w, m)
      PROVE  OrderInv'
  <2> DEFINE s == m.scan
             k == StageOf[m.task]
             count == recorded[s] \cup {m.task}
  <2>1. s \in Scans /\ m.task \in Tasks /\ k \in Int
    BY MessagesShape, StageOfType
  <2>2. job[w].at = "body" /\ job[w].msg = m /\ job[w].at # "idle"
    BY <1>4, RunningShape DEF Succeed
  <2>3. Due(m)
    BY <2>2 DEF OrderInv
  <2>4. done' = [done EXCEPT ![s] = @ \cup {m.task}] /\ submitted' = submitted
    BY <1>4 DEF Succeed
  <2>5. \A r \in Scans : done[r] \subseteq done'[r]
    BY <2>1, <2>4 DEF TypeOK
  <2>6. /\ \A r \in Scans, j \in Int : StageDone(r, j) => StageDone(r, j)'
        /\ \A n \in Messages : Due(n) => Due(n)'
    BY <2>4, <2>5, DueStable
  <2>7. count \subseteq done'[s]
    BY <2>1, <2>4 DEF OrderInv, TypeOK
  <2>8. \A r \in Scans : recorded'[r] \subseteq done'[r]
    <3>1. recorded' = [recorded EXCEPT ![s] = count]
          \/ recorded' = [recorded EXCEPT ![s] = count \ StageTasks(k)]
      BY <1>4 DEF Succeed
    <3>2. QED
      BY <2>1, <2>5, <2>7, <3>1 DEF OrderInv, TypeOK
  <2>9. ASSUME NEW n \in Messages, queue'[n] > 0
        PROVE  Due(n)'
    <3>1. CASE queue[n] > 0
      BY <2>6, <3>1 DEF OrderInv
    <3>2. CASE ~ (queue[n] > 0)
      <4>1. StageTasks(k) \subseteq count /\ n \in {Message(s, t) : t \in StageTasks(k + 1)}
        BY <1>4, <2>9, <3>2, SendType DEF Succeed, TypeOK
      <4>2. PICK t \in StageTasks(k + 1) : n = Message(s, t)
        BY <4>1
      <4>3. n.scan = s /\ n.task \in Tasks /\ StageOf[n.task] - 1 = k
        BY <2>1, <4>2 DEF Message, StageTasks
      <4>4. StageDone(s, k)'
        BY <2>7, <4>1 DEF StageDone
      <4>5. s \in submitted'
        BY <2>3, <2>4 DEF Due
      <4>6. QED
        BY <4>3, <4>4, <4>5 DEF Due
    <3>3. QED
      BY <3>1, <3>2
  <2>10. ASSUME NEW v \in Workers, job'[v].at # "idle"
         PROVE  Due(job[v].msg)'
    <3>1. job'[v].msg = job[v].msg /\ job[v].at # "idle"
      BY <1>4, <2>2, <2>10 DEF Succeed, TypeOK
    <3>2. job[v].msg \in Messages /\ Due(job[v].msg)
      BY <3>1, JobShape DEF OrderInv
    <3>3. QED
      BY <2>6, <3>1, <3>2 DEF Due, StageDone
  <2>11. ASSUME NEW r \in Scans, NEW t \in done'[r]
         PROVE  StageDone(r, StageOf[t] - 1)'
    <3>1. CASE t \in done[r]
      <4>1. t \in Tasks /\ StageOf[t] - 1 \in Int
        BY <3>1, StageOfType DEF TypeOK
      <4>2. QED
        BY <2>6, <3>1, <4>1 DEF OrderInv
    <3>2. CASE t \notin done[r]
      <4>1. r = s /\ t = m.task
        BY <2>1, <2>4, <2>11, <3>2 DEF TypeOK
      <4>2. QED
        BY <2>1, <2>3, <2>6, <4>1 DEF Due
    <3>3. QED
      BY <3>1, <3>2
  <2>12. \A r \in Scans : r \notin submitted' => done'[r] = {}
    BY <2>1, <2>3, <2>4 DEF OrderInv, Due, TypeOK
  <2>13. QED
    BY <2>8, <2>9, <2>10, <2>11, <2>12 DEF OrderInv
<1>5. ASSUME NEW w \in Workers, NEW m \in Messages, RaiseAndRetry(w, m)
      PROVE  OrderInv'
  <2> DEFINE again == [m EXCEPT !.retries = @ + 1]
  <2>1. job[w].at # "idle" /\ job[w].msg = m
    BY <1>5, RunningShape DEF RaiseAndRetry
  <2>2. again \in Messages /\ Due(again)
    BY <1>5, <2>1, RetryType DEF RaiseAndRetry, OrderInv, Due
  <2>3. \A n \in Messages : queue'[n] > 0 => Due(n) \/ queue[n] > 0
    BY <1>5, <2>2, SendType DEF RaiseAndRetry, TypeOK
  <2>4. \A v \in Workers : job'[v].at # "idle" => job[v].at # "idle" /\ job'[v].msg = job[v].msg
    BY <1>5, <2>1 DEF RaiseAndRetry, TypeOK
  <2>5. QED
    BY <1>5, <2>3, <2>4, OrderInvKept DEF RaiseAndRetry
<1>6. ASSUME NEW w \in Workers, NEW m \in Messages, RaiseAndFail(w, m)
      PROVE  OrderInv'
  <2>1. job[w].at # "idle" /\ job[w].msg = m
    BY <1>6, RunningShape DEF RaiseAndFail
  <2>2. \A v \in Workers : job'[v].at # "idle" => job[v].at # "idle" /\ job'[v].msg = job[v].msg
    BY <1>6, <2>1 DEF RaiseAndFail, TypeOK
  <2>3. QED
    BY <1>6, <2>2, OrderInvKept DEF RaiseAndFail
<1>7. ASSUME NEW m \in Messages, Discard(m)
      PROVE  OrderInv'
  <2>1. \A n \in Messages : queue'[n] > 0 => queue[n] > 0
    BY <1>7 DEF Discard, TypeOK
  <2>2. QED
    BY <1>7, <2>1, OrderInvKept DEF Discard
<1>8. ASSUME NEW w \in Workers, Ack(w)
      PROVE  OrderInv'
  <2>1. \A v \in Workers : job'[v].at # "idle" => job'[v] = job[v]
    BY <1>8 DEF Ack, Idle, TypeOK
  <2>2. QED
    BY <1>8, <2>1, OrderInvKept DEF Ack
<1>9. ASSUME NEW w \in Workers, LoseProcess(w)
      PROVE  OrderInv'
  <2>1. \A v \in Workers : job'[v].at # "idle" => job'[v] = job[v]
    BY <1>9 DEF LoseProcess, Idle, TypeOK
  <2>2. \A n \in Messages : queue'[n] > 0 => n = job[w].msg \/ queue[n] > 0
    BY <1>9, SendType DEF LoseProcess, TypeOK
  <2>3. QED
    BY <1>9, <2>1, <2>2, OrderInvKept DEF LoseProcess
<1>10. ASSUME NEW w \in Workers, Redeliver(w)
       PROVE  OrderInv'
  <2>1. \A n \in Messages : queue'[n] > 0 => n = job[w].msg \/ queue[n] > 0
    BY <1>10, SendType DEF Redeliver, TypeOK
  <2>2. QED
    BY <1>10, <2>1, OrderInvKept DEF Redeliver
<1>11. ASSUME RestartWorker
       PROVE  OrderInv'
  <2>1. ASSUME NEW n \in Messages, queue'[n] > 0
        PROVE  queue[n] > 0 \/ \E w \in Workers : job[w].at # "idle" /\ job[w].msg = n
    <3>1. Cardinality(Holders(n)) > 0 \/ queue[n] > 0
      BY <1>11, <2>1, HoldersFinite DEF RestartWorker, TypeOK
    <3>2. QED
      BY <3>1, HoldersFinite DEF Holders
  <2>2. \A w \in Workers : job'[w].at = "idle"
    BY <1>11 DEF RestartWorker, Idle
  <2>3. QED
    BY <1>11, <2>1, <2>2, OrderInvKept DEF RestartWorker
<1>12. CASE UNCHANGED vars
  BY <1>12 DEF vars, OrderInv, Due, StageDone
<1>13. QED
  BY <1>1, <1>2, <1>3, <1>4, <1>5, <1>6, <1>7, <1>8, <1>9, <1>10, <1>11, <1>12 DEF Next

LEMMA OrderInvInitially == Init => OrderInv
BY DEF Init, OrderInv, Due, StageDone, Idle

LEMMA OrderInvHolds == Spec => []OrderInv
BY OrderInvInitially, OrderInvStep, TypeCorrect, PTL DEF Spec

\* Whatever is lost, redelivered, retried or cancelled, no task of a scan is queued, run or
\* finished before every task of the stage before it has finished.
THEOREM PhasesInOrder == Spec => []PhaseOrder
<1>1. OrderInv => PhaseOrder
  <2> SUFFICES ASSUME OrderInv, NEW s \in Scans
               PROVE  /\ \A m \in Messages : m.scan = s /\ InFlight(m) =>
                            StageDone(s, StageOf[m.task] - 1)
                      /\ \A t \in done[s] : StageDone(s, StageOf[t] - 1)
    BY DEF PhaseOrder
  <2>1. ASSUME NEW m \in Messages, m.scan = s, InFlight(m)
        PROVE  StageDone(s, StageOf[m.task] - 1)
    <3>1. queue[m] > 0 \/ \E w \in Workers : job[w].at # "idle" /\ job[w].msg = m
      BY <2>1, RunningShape DEF InFlight
    <3>2. QED
      BY <2>1, <3>1 DEF OrderInv, Due
  <2>2. QED
    BY <2>1 DEF OrderInv
<1>2. QED
  BY <1>1, OrderInvHolds, PTL

-----------------------------------------------------------------------------
(* Nothing lost *)

\* The chord counter forgets no finished task of a stage that is not complete; this is what
\* makes the last member of a group find the group complete.
CountInv ==
    \A s \in Scans : \A t \in done[s] : t \in recorded[s] \/ StageDone(s, StageOf[t])

LEMMA CountInvStep ==
    CountInv /\ OrderInv /\ TypeOK /\ TypeOK' /\ [Next]_vars => CountInv'
<1> SUFFICES ASSUME CountInv, OrderInv, TypeOK, TypeOK', [Next]_vars
             PROVE  CountInv'
  OBVIOUS
<1>1. ASSUME done' = done, recorded' = recorded
      PROVE  CountInv'
  BY <1>1 DEF CountInv, StageDone
<1>2. ASSUME NEW w \in Workers, NEW m \in Messages, Succeed(w, m)
      PROVE  CountInv'
  <2> DEFINE s == m.scan
             stage == StageTasks(StageOf[m.task])
             count == recorded[s] \cup {m.task}
  <2>1. s \in Scans /\ m.task \in Tasks /\ m.task \in stage
    BY MessagesShape DEF StageTasks
  <2>2. done' = [done EXCEPT ![s] = @ \cup {m.task}] /\ submitted' = submitted
    BY <1>2 DEF Succeed
  <2>3. \A r \in Scans : done[r] \subseteq done'[r]
    BY <2>1, <2>2 DEF TypeOK
  <2>4. \A r \in Scans, j \in Int : StageDone(r, j) => StageDone(r, j)'
    BY <2>2, <2>3, DueStable
  <2>5. SUFFICES ASSUME NEW r \in Scans, NEW t \in done'[r]
                 PROVE  t \in recorded'[r] \/ StageDone(r, StageOf[t])'
    BY DEF CountInv
  <2>6. t \in Tasks /\ StageOf[t] \in Int
    BY StageOfType DEF TypeOK
  <2>7. CASE r # s
    <3>1. recorded'[r] = recorded[r] /\ done'[r] = done[r]
      BY <1>2, <2>1, <2>7 DEF Succeed, TypeOK
    <3>2. QED
      BY <2>4, <2>6, <3>1 DEF CountInv
  <2>8. CASE r = s /\ stage \subseteq count
    <3>1. recorded'[s] = count \ stage
      BY <1>2, <2>1, <2>8 DEF Succeed, TypeOK
    <3>2. CASE t \in stage
      <4>1. stage \subseteq done'[s]
        BY <2>1, <2>2, <2>8 DEF OrderInv, TypeOK
      <4>2. QED
        BY <2>8, <3>2, <4>1 DEF StageDone, StageTasks
    <3>3. CASE t \notin stage
      <4>1. t \in done[s]
        BY <2>1, <2>2, <2>8, <3>3 DEF TypeOK
      <4>2. QED
        BY <2>1, <2>4, <2>6, <2>8, <3>1, <3>3, <4>1 DEF CountInv
    <3>4. QED
      BY <3>2, <3>3
  <2>9. CASE r = s /\ ~ (stage \subseteq count)
    <3>1. recorded'[s] = count
      BY <1>2, <2>1, <2>9 DEF Succeed, TypeOK
    <3>2. t \in done[s] \/ t = m.task
      BY <2>1, <2>2, <2>9 DEF TypeOK
    <3>3. QED
      BY <2>1, <2>4, <2>6, <2>9, <3>1, <3>2 DEF CountInv
  <2>10. QED
    BY <2>7, <2>8, <2>9
<1>3. QED
  BY <1>1, <1>2 DEF Next, vars, Submit, Revoke, Deliver, RaiseAndRetry, RaiseAndFail,
     Discard, Ack, LoseProcess, Redeliver, RestartWorker

LEMMA CountInvHolds == Spec => []CountInv
<1>1. Init => CountInv
  BY DEF Init, CountInv
<1>2. QED
  BY <1>1, CountInvStep, OrderInvHolds, TypeCorrect, PTL DEF Spec

\* A step that finishes no task loses nothing if it leaves each message in flight, replaces
\* it by another for the same task, aborts its chain or drops its report.
LEMMA NothingLostKept ==
    ASSUME NothingLost,
           submitted' = submitted, done' = done,
           failed \subseteq failed', dropped \subseteq dropped',
           \A m \in Messages : InFlight(m) =>
              \/ InFlight(m)'
              \/ \E n \in Messages : n.scan = m.scan /\ n.task = m.task /\ InFlight(n)'
              \/ m.scan \in failed'
              \/ m.task = LastTask /\ m.scan \in dropped'
    PROVE  NothingLost'
<1> SUFFICES ASSUME NEW s \in submitted' \ failed', NEW t \in Tasks,
                    t \notin done'[s], StageDone(s, StageOf[t] - 1)',
                    ~ (t = LastTask /\ s \in dropped')
             PROVE  \E m \in Messages : m.scan = s /\ m.task = t /\ InFlight(m)'
  BY DEF NothingLost
<1>1. s \in submitted \ failed /\ t \notin done[s] /\ StageDone(s, StageOf[t] - 1)
  BY DEF StageDone
<1>2. ~ (t = LastTask /\ s \in dropped)
  OBVIOUS
<1>3. PICK m \in Messages : m.scan = s /\ m.task = t /\ InFlight(m)
  BY <1>1, <1>2 DEF NothingLost
<1>4. QED
  BY <1>3

LEMMA NothingLostStep ==
    ASSUME NothingLost, CountInv, OrderInv, TypeOK, TypeOK', [Next]_vars
    PROVE  NothingLost'
<1>1. ASSUME NEW s \in Scans, Submit(s)
      PROVE  NothingLost'
  <2> SUFFICES ASSUME NEW r \in submitted' \ failed', NEW t \in Tasks,
                      t \notin done'[r], StageDone(r, StageOf[t] - 1)',
                      ~ (t = LastTask /\ r \in dropped')
               PROVE  \E m \in Messages : m.scan = r /\ m.task = t /\ InFlight(m)'
    BY DEF NothingLost
  <2>1. done' = done /\ job' = job /\ failed' = failed /\ dropped' = dropped
    BY <1>1 DEF Submit
  <2>2. \A m \in Messages : InFlight(m) => InFlight(m)'
    BY <1>1, <2>1, SendType DEF InFlight, Running, Submit, TypeOK
  <2>3. CASE r \in submitted
    <3>1. PICK m \in Messages : m.scan = r /\ m.task = t /\ InFlight(m)
      BY <2>1, <2>3 DEF NothingLost, StageDone
    <3>2. QED
      BY <2>2, <3>1
  <2>4. CASE r \notin submitted
    <3>1. r = s /\ done[s] = {}
      BY <1>1, <2>4 DEF Submit, OrderInv
    <3>2. t = FirstTask
      BY <2>1, <3>1, OnlyFirstTaskUnpreceded DEF StageDone
    <3>3. Message(s, FirstTask) \in Messages
      BY MessageType, OnlyFirstTaskUnpreceded
    <3>4. InFlight(Message(s, FirstTask))'
      BY <1>1, <3>3, SendType DEF InFlight, Submit, TypeOK
    <3>5. QED
      BY <3>1, <3>2, <3>3, <3>4 DEF Message
  <2>5. QED
    BY <2>3, <2>4
<1>2. ASSUME NEW s \in Scans, Revoke(s)
      PROVE  NothingLost'
  <2>1. ASSUME NEW m \in Messages, InFlight(m)
        PROVE  InFlight(m)' \/ (m.task = LastTask /\ m.scan \in dropped')
    <3>1. CASE queue[m] > 0
      BY <1>2, <3>1 DEF InFlight, Revoke
    <3>2. ASSUME NEW w \in Workers, Running(w, m)
          PROVE  InFlight(m)' \/ (m.task = LastTask /\ m.scan \in dropped')
      <4>1. CASE Reports(w, s)
        <5>1. m = Message(s, LastTask)
          BY <3>2, <4>1, RunningShape DEF Reports
        <5>2. m.task = LastTask /\ m.scan = s
          BY <5>1 DEF Message
        <5>3. s \in dropped'
          BY <1>2, <4>1 DEF Revoke
        <5>4. QED
          BY <5>2, <5>3
      <4>2. CASE ~ Reports(w, s)
        <5>1. job'[w] = job[w]
          BY <1>2, <4>2 DEF Revoke
        <5>2. QED
          BY <3>2, <5>1 DEF InFlight, Running
      <4>3. QED
        BY <4>1, <4>2
    <3>3. queue[m] > 0 \/ \E w \in Workers : Running(w, m)
      BY <2>1 DEF InFlight
    <3>4. QED
      BY <3>1, <3>2, <3>3
  <2>2. dropped \subseteq dropped'
    BY <1>2 DEF Revoke
  <2>3. QED
    BY <1>2, <2>1, <2>2, NothingLostKept DEF Revoke
<1>3. ASSUME NEW w \in Workers, NEW m \in Messages, Deliver(w, m)
      PROVE  NothingLost'
  <2>1. ASSUME NEW n \in Messages, InFlight(n)
        PROVE  InFlight(n)'
    <3>1. CASE n = m
      BY <1>3, <3>1 DEF InFlight, Running, Deliver, TypeOK
    <3>2. CASE n # m /\ queue[n] > 0
      BY <1>3, <3>2 DEF InFlight, Deliver, TypeOK
    <3>3. ASSUME NEW v \in Workers, Running(v, n)
          PROVE  InFlight(n)'
      <4>1. job[v].at = "body"
        BY <3>3, RunningShape
      <4>2. v # w
        BY <1>3, <4>1 DEF Deliver, Idle
      <4>3. job'[v] = job[v]
        BY <1>3, <4>2 DEF Deliver, TypeOK
      <4>4. QED
        BY <3>3, <4>3 DEF InFlight, Running
    <3>4. QED
      BY <2>1, <3>1, <3>2, <3>3 DEF InFlight
  <2>2. QED
    BY <1>3, <2>1, NothingLostKept DEF Deliver
<1>4. ASSUME NEW w \in Workers, NEW m \in Messages, Succeed(w, m)
      PROVE  NothingLost'
  <2> DEFINE s == m.scan
             k == StageOf[m.task]
             stage == StageTasks(k)
             count == recorded[s] \cup {m.task}
  <2> SUFFICES ASSUME NEW r \in submitted' \ failed', NEW t \in Tasks,
                      t \notin done'[r], StageDone(r, StageOf[t] - 1)',
                      ~ (t = LastTask /\ r \in dropped')
               PROVE  \E n \in Messages : n.scan = r /\ n.task = t /\ InFlight(n)'
    BY DEF NothingLost
  <2>1. s \in Scans /\ m.task \in stage /\ k \in Int /\ StageOf[t] \in Int /\ r \in Scans
    BY MessagesShape, StageOfType DEF StageTasks, TypeOK
  <2>2. /\ done' = [done EXCEPT ![s] = @ \cup {m.task}]
        /\ submitted' = submitted /\ failed' = failed /\ dropped' = dropped
    BY <1>4 DEF Succeed
  <2>3. done[r] \subseteq done'[r] /\ m.task \in done'[s]
    BY <2>1, <2>2 DEF TypeOK
  <2>4. \A n \in Messages : queue[n] > 0 => queue'[n] > 0
    BY <1>4, SendType DEF Succeed, TypeOK
  <2>5. CASE StageDone(r, StageOf[t] - 1)
    <3>1. PICK n \in Messages : n.scan = r /\ n.task = t /\ InFlight(n)
      BY <2>2, <2>3, <2>5 DEF NothingLost
    <3>2. n # m
      BY <2>3, <3>1
    <3>3. ASSUME NEW v \in Workers, Running(v, n)
          PROVE  InFlight(n)'
      <4>1. v # w
        BY <1>4, <3>2, <3>3, RunningShape DEF Succeed
      <4>2. job'[v] = job[v]
        BY <1>4, <4>1 DEF Succeed, TypeOK
      <4>3. QED
        BY <3>3, <4>2 DEF InFlight, Running
    <3>4. QED
      BY <2>4, <3>1, <3>3 DEF InFlight
  <2>6. CASE ~ StageDone(r, StageOf[t] - 1)
    <3>1. PICK u \in StageTasks(StageOf[t] - 1) : u \notin done[r]
      BY <2>6 DEF StageDone
    <3>2. u \in done'[r]
      BY <3>1 DEF StageDone
    <3>3. r = s /\ u = m.task
      BY <2>1, <2>2, <3>1, <3>2 DEF TypeOK
    <3>4. StageOf[t] - 1 = k
      BY <3>1, <3>3 DEF StageTasks
    <3>5. stage \subseteq count
      <4> SUFFICES ASSUME NEW v \in stage, v # m.task
                   PROVE  v \in recorded[s]
        OBVIOUS
      <4>1. v \in done'[s] /\ StageOf[v] = k
        BY <3>3, <3>4 DEF StageDone, StageTasks
      <4>2. v \in done[s]
        BY <2>1, <2>2, <4>1 DEF TypeOK
      <4>3. QED
        BY <2>1, <2>6, <3>3, <3>4, <4>1, <4>2 DEF CountInv
    <3>6. queue' = Send({Message(s, v) : v \in StageTasks(k + 1)})
      BY <1>4, <3>5 DEF Succeed
    <3>7. t \in StageTasks(k + 1)
      BY <2>1, <3>4 DEF StageTasks
    <3>8. Message(s, t) \in Messages
      BY <2>1, MessageType
    <3>9. queue'[Message(s, t)] > 0
      BY <3>6, <3>7, <3>8, SendType DEF TypeOK
    <3>10. QED
      BY <3>3, <3>8, <3>9 DEF InFlight, Message
  <2>7. QED
    BY <2>5, <2>6
<1>5. ASSUME NEW w \in Workers, NEW m \in Messages, RaiseAndRetry(w, m)
      PROVE  NothingLost'
  <2> DEFINE again == [m EXCEPT !.retries = @ + 1]
  <2>1. again \in Messages /\ again.scan = m.scan /\ again.task = m.task
    BY <1>5, RetryType DEF RaiseAndRetry
  <2>2. InFlight(again)'
    BY <1>5, <2>1, SendType DEF RaiseAndRetry, InFlight, TypeOK
  <2>3. ASSUME NEW n \in Messages, InFlight(n), n # m
        PROVE  InFlight(n)'
    <3>1. \A v \in Workers : Running(v, n) => job'[v] = job[v]
      BY <1>5, <2>3, RunningShape DEF RaiseAndRetry, TypeOK
    <3>2. queue[n] > 0 => queue'[n] > 0
      BY <1>5, SendType DEF RaiseAndRetry, TypeOK
    <3>3. QED
      BY <2>3, <3>1, <3>2 DEF InFlight, Running
  <2>4. QED
    BY <1>5, <2>1, <2>2, <2>3, NothingLostKept DEF RaiseAndRetry
<1>6. ASSUME NEW w \in Workers, NEW m \in Messages, RaiseAndFail(w, m)
      PROVE  NothingLost'
  <2>1. ASSUME NEW n \in Messages, InFlight(n), n # m
        PROVE  InFlight(n)'
    <3>1. \A v \in Workers : Running(v, n) => job'[v] = job[v]
      BY <1>6, <2>1, RunningShape DEF RaiseAndFail, TypeOK
    <3>2. QED
      BY <1>6, <2>1, <3>1 DEF InFlight, Running, RaiseAndFail
  <2>2. m.scan \in failed' /\ failed \subseteq failed'
    BY <1>6 DEF RaiseAndFail
  <2>3. QED
    BY <1>6, <2>1, <2>2, NothingLostKept DEF RaiseAndFail
<1>7. ASSUME NEW m \in Messages, Discard(m)
      PROVE  NothingLost'
  <2>1. ASSUME NEW n \in Messages, InFlight(n), n # m
        PROVE  InFlight(n)'
    BY <1>7, <2>1 DEF InFlight, Running, Discard, TypeOK
  <2>2. m.task = LastTask /\ m.scan \in dropped' /\ dropped \subseteq dropped'
    BY <1>7 DEF Discard, IsRevoked
  <2>3. QED
    BY <1>7, <2>1, <2>2, NothingLostKept DEF Discard
<1>8. ASSUME NEW w \in Workers, Ack(w)
      PROVE  NothingLost'
  <2>1. \A n \in Messages, v \in Workers : Running(v, n) => job'[v] = job[v]
    BY <1>8, RunningShape DEF Ack, TypeOK
  <2>2. \A n \in Messages : InFlight(n) => InFlight(n)'
    BY <1>8, <2>1 DEF InFlight, Running, Ack
  <2>3. QED
    BY <1>8, <2>2, NothingLostKept DEF Ack
<1>9. ASSUME NEW w \in Workers, LoseProcess(w)
      PROVE  NothingLost'
  <2>1. \A n \in Messages : n = job[w].msg \/ queue[n] > 0 => queue'[n] > 0
    BY <1>9, SendType DEF LoseProcess, TypeOK
  <2>2. \A n \in Messages, v \in Workers : Running(v, n) /\ v # w => job'[v] = job[v]
    BY <1>9 DEF LoseProcess, TypeOK
  <2>3. \A n \in Messages : Running(w, n) => queue'[n] > 0
    BY <2>1, RunningShape
  <2>4. \A n \in Messages : InFlight(n) => InFlight(n)'
    BY <2>1, <2>2, <2>3 DEF InFlight, Running
  <2>5. QED
    BY <1>9, <2>4, NothingLostKept DEF LoseProcess
<1>10. ASSUME NEW w \in Workers, Redeliver(w)
       PROVE  NothingLost'
  <2>1. \A n \in Messages : queue[n] > 0 => queue'[n] > 0
    BY <1>10, SendType DEF Redeliver, TypeOK
  <2>2. \A n \in Messages : InFlight(n) => InFlight(n)'
    BY <1>10, <2>1 DEF InFlight, Running, Redeliver
  <2>3. QED
    BY <1>10, <2>2, NothingLostKept DEF Redeliver
<1>11. ASSUME RestartWorker
       PROVE  NothingLost'
  <2>1. ASSUME NEW n \in Messages, InFlight(n)
        PROVE  queue'[n] > 0
    <3>1. queue'[n] = queue[n] + Cardinality(Holders(n)) /\ queue[n] \in Nat
      BY <1>11 DEF RestartWorker, TypeOK
    <3>2. ASSUME NEW w \in Workers, Running(w, n)
          PROVE  w \in Holders(n)
      BY <3>2, RunningShape DEF Holders
    <3>3. queue[n] > 0 \/ Holders(n) # {}
      BY <2>1, <3>2 DEF InFlight
    <3>4. QED
      BY <3>1, <3>3, HoldersFinite
  <2>2. QED
    BY <1>11, <2>1, NothingLostKept DEF InFlight, RestartWorker
<1>12. ASSUME UNCHANGED vars
       PROVE  NothingLost'
  <2>1. \A n \in Messages : InFlight(n) => InFlight(n)'
    BY <1>12 DEF vars, InFlight, Running
  <2>2. QED
    BY <1>12, <2>1, NothingLostKept DEF vars
<1>13. QED
  BY <1>1, <1>2, <1>3, <1>4, <1>5, <1>6, <1>7, <1>8, <1>9, <1>10, <1>11, <1>12 DEF Next

\* Process losses, redeliveries and worker restarts lose no task of a submitted scan: the
\* task whose turn it is waits in a queue or runs, until its chain is aborted or its report
\* is discarded as revoked.
THEOREM NoTaskLost == Spec => []NothingLost
<1>1. Init => NothingLost
  BY DEF Init, NothingLost
<1>2. NothingLost /\ CountInv /\ OrderInv /\ TypeOK /\ TypeOK' /\ [Next]_vars => NothingLost'
  BY NothingLostStep
<1>3. QED
  BY <1>1, <1>2, CountInvHolds, OrderInvHolds, TypeCorrect, PTL DEF Spec

-----------------------------------------------------------------------------
(* Cancellation, aborted chains and the orchestrator's promise *)

LEMMA RevokedReportStep ==
    ASSUME TypeOK, RevokedReportNotRunning, [Next]_vars
    PROVE  RevokedReportNotRunning'
<1> SUFFICES ASSUME NEW s \in revoked', NEW v \in Workers
             PROVE  ~ Reports(v, s)'
  BY DEF RevokedReportNotRunning
<1>1. ASSUME NEW r \in Scans, Submit(r)
      PROVE  ~ Reports(v, s)'
  BY <1>1 DEF Submit, Reports, RevokedReportNotRunning
<1>2. ASSUME NEW r \in Scans, Revoke(r)
      PROVE  ~ Reports(v, s)'
  <2>1. CASE Reports(v, r)
    BY <1>2, <2>1 DEF Revoke, Reports, Idle
  <2>2. CASE ~ Reports(v, r)
    <3>1. job'[v] = job[v] /\ (s = r \/ s \in revoked)
      BY <1>2, <2>2 DEF Revoke
    <3>2. QED
      BY <2>2, <3>1 DEF Reports, RevokedReportNotRunning
  <2>3. QED
    BY <2>1, <2>2
<1>3. ASSUME NEW w \in Workers, NEW m \in Messages, Deliver(w, m)
      PROVE  ~ Reports(v, s)'
  <2>1. CASE v = w
    <3>1. job'[v].msg = m /\ s \in revoked
      BY <1>3, <2>1 DEF Deliver, TypeOK
    <3>2. m # Message(s, LastTask)
      BY <1>3, <3>1 DEF Deliver, IsRevoked, Message
    <3>3. QED
      BY <3>1, <3>2 DEF Reports
  <2>2. CASE v # w
    BY <1>3, <2>2 DEF Deliver, TypeOK, Reports, RevokedReportNotRunning
  <2>3. QED
    BY <2>1, <2>2
<1>4. ASSUME revoked' \subseteq revoked,
             job'[v] = job[v] \/ job'[v].at # "body"
      PROVE  ~ Reports(v, s)'
  BY <1>4 DEF Reports, RevokedReportNotRunning
<1>5. ASSUME NEW w \in Workers, NEW m \in Messages,
             Succeed(w, m) \/ RaiseAndRetry(w, m) \/ RaiseAndFail(w, m)
      PROVE  ~ Reports(v, s)'
  BY <1>4, <1>5 DEF Succeed, RaiseAndRetry, RaiseAndFail, TypeOK
<1>6. ASSUME NEW m \in Messages, Discard(m)
      PROVE  ~ Reports(v, s)'
  BY <1>4, <1>6 DEF Discard
<1>7. ASSUME NEW w \in Workers, Ack(w) \/ LoseProcess(w) \/ Redeliver(w)
      PROVE  ~ Reports(v, s)'
  BY <1>4, <1>7 DEF Ack, LoseProcess, Redeliver, TypeOK, Idle
<1>8. ASSUME RestartWorker
      PROVE  ~ Reports(v, s)'
  BY <1>4, <1>8 DEF RestartWorker, Idle
<1>9. ASSUME UNCHANGED vars
      PROVE  ~ Reports(v, s)'
  BY <1>4, <1>9 DEF vars
<1>10. QED
  BY <1>1, <1>2, <1>3, <1>5, <1>6, <1>7, <1>8, <1>9 DEF Next

\* While the worker remembers that a scan was cancelled, no process generates its report.
THEOREM RevokedReportStops == Spec => []RevokedReportNotRunning
<1>1. Init => RevokedReportNotRunning
  BY DEF Init, RevokedReportNotRunning
<1>2. TypeOK /\ RevokedReportNotRunning /\ [Next]_vars => RevokedReportNotRunning'
  BY RevokedReportStep
<1>3. QED
  BY <1>1, <1>2, TypeCorrect, PTL DEF Spec

\* A task whose body raises is never done.
RaisingNotDone == deploy \in Deployments /\ \A s \in Scans : done[s] \cap deploy.raises = {}

LEMMA RaisingNotDoneHolds == Spec => []RaisingNotDone
<1>1. Init => RaisingNotDone
  BY DEF Init, RaisingNotDone
<1>2. ASSUME TypeOK, RaisingNotDone, [Next]_vars
      PROVE  RaisingNotDone'
  <2>1. ASSUME NEW w \in Workers, NEW m \in Messages, Succeed(w, m)
        PROVE  RaisingNotDone'
    BY <1>2, <2>1, MessagesShape DEF Succeed, RaisingNotDone, TypeOK
  <2>2. ASSUME deploy' = deploy, done' = done
        PROVE  RaisingNotDone'
    BY <1>2, <2>2 DEF RaisingNotDone
  <2>3. QED
    BY <1>2, <2>1, <2>2 DEF Next, vars, Submit, Revoke, Deliver, RaiseAndRetry, RaiseAndFail,
       Discard, Ack, LoseProcess, Redeliver, RestartWorker
<1>3. QED
  BY <1>1, <1>2, TypeCorrect, PTL DEF Spec

\* Under OrderInv the stages that are complete are a prefix of the chain.
LEMMA StagesDonePrefix ==
    ASSUME OrderInv, NEW s \in Scans, NEW k \in 0 .. 10, StageDone(s, k), NEW j \in 1 .. k
    PROVE  StageDone(s, j)
<1>1. ASSUME NEW i \in 2 .. 10, StageDone(s, i)
      PROVE  StageDone(s, i - 1)
  <2>1. PICK t \in Tasks : StageOf[t] = i
    BY EveryStageHasTask
  <2>2. t \in done[s]
    BY <1>1, <2>1 DEF StageDone, StageTasks
  <2>3. QED
    BY <2>1, <2>2 DEF OrderInv
<1>2. /\ StageDone(s, 10) => StageDone(s, 9)
      /\ StageDone(s, 9) => StageDone(s, 8)
      /\ StageDone(s, 8) => StageDone(s, 7)
      /\ StageDone(s, 7) => StageDone(s, 6)
      /\ StageDone(s, 6) => StageDone(s, 5)
      /\ StageDone(s, 5) => StageDone(s, 4)
      /\ StageDone(s, 4) => StageDone(s, 3)
      /\ StageDone(s, 3) => StageDone(s, 2)
      /\ StageDone(s, 2) => StageDone(s, 1)
  <2>1. /\ 10 - 1 = 9 /\ 9 - 1 = 8 /\ 8 - 1 = 7 /\ 7 - 1 = 6 /\ 6 - 1 = 5
        /\ 5 - 1 = 4 /\ 4 - 1 = 3 /\ 3 - 1 = 2 /\ 2 - 1 = 1
    OBVIOUS
  <2>2. QED
    BY <1>1, <2>1
<1>3. QED
  BY <1>2

\* Security testing and everything else that comes after a task that raises for good is
\* neither run nor finished, however often its messages are redelivered.
THEOREM RaisingStops == Spec => []RaisingTaskStopsChain
<1>1. ASSUME TypeOK, OrderInv, RaisingNotDone
      PROVE  RaisingTaskStopsChain
  <2> SUFFICES ASSUME NEW s \in Scans, NEW t \in deploy.raises, NEW u \in Tasks,
                      StageOf[u] > StageOf[t]
               PROVE  u \notin done[s] /\ Copies(s, u) = {}
    BY DEF RaisingTaskStopsChain
  <2>1. t \in Tasks /\ t \notin done[s]
    BY <1>1, DeploymentAssumption DEF RaisingNotDone
  <2>2. StageOf[u] - 1 \in 0 .. 10 /\ StageOf[t] \in 1 .. StageOf[u] - 1
    BY <2>1, StageOfType
  <2>3. ~ StageDone(s, StageOf[u] - 1)
    <3>1. ~ StageDone(s, StageOf[t])
      BY <2>1 DEF StageDone, StageTasks
    <3>2. QED
      BY <1>1, <2>2, <3>1, StagesDonePrefix
  <2>4. u \notin done[s]
    BY <1>1, <2>3 DEF OrderInv
  <2>5. Copies(s, u) = {}
    BY <1>1, <2>3 DEF Copies, OrderInv, Due
  <2>6. QED
    BY <2>4, <2>5
<1>2. QED
  BY <1>1, TypeCorrect, OrderInvHolds, RaisingNotDoneHolds, PTL

\* The Celery workflow implements the orchestrator's promise: each of its steps completes
\* one task whose stage has come, or is invisible.
THEOREM PipelineImplementsWorkflow == Spec => ImplementsPhasedWorkflow
<1>1. Init => Workflow!Init
  BY DEF Init, Workflow!Init
<1>2. ASSUME TypeOK, OrderInv, [Next]_vars
      PROVE  [Workflow!Next]_done
  <2>1. ASSUME NEW w \in Workers, NEW m \in Messages, Succeed(w, m)
        PROVE  Workflow!Complete(m.scan, m.task)
    <3>1. job[w].at # "idle" /\ job[w].msg = m
      BY <2>1, RunningShape DEF Succeed
    <3>2. StageDone(m.scan, StageOf[m.task] - 1)
      BY <1>2, <3>1 DEF OrderInv, Due
    <3>3. QED
      BY <2>1, <3>2 DEF Succeed, StageDone, StageTasks, Workflow!Complete, Workflow!StageTasks
  <2>2. ASSUME NEW w \in Workers, NEW m \in Messages, Succeed(w, m)
        PROVE  Workflow!Next
    BY <2>1, <2>2, MessagesShape DEF Workflow!Next
  <2>3. QED
    BY <1>2, <2>2 DEF Next, vars, Submit, Revoke, Deliver, RaiseAndRetry, RaiseAndFail,
       Discard, Ack, LoseProcess, Redeliver, RestartWorker
<1>3. QED
  BY <1>1, <1>2, TypeCorrect, OrderInvHolds, PTL
     DEF Spec, ImplementsPhasedWorkflow, Workflow!Spec

-----------------------------------------------------------------------------
(* Exactly once without faults *)

SameTask(m, n) == m.scan = n.scan /\ m.task = n.task
InBody(w)      == job[w].at = "body"

\* A task has one message, with any number of retries, which waits or is run, and none once
\* it is done.
OnceInv ==
    /\ \A m \in Messages : queue[m] <= 1
    /\ \A m, n \in Messages : queue[m] > 0 /\ queue[n] > 0 /\ SameTask(m, n) => m = n
    /\ \A v, w \in Workers : InBody(v) /\ InBody(w) /\ SameTask(job[v].msg, job[w].msg) => v = w
    /\ \A m \in Messages, w \in Workers : queue[m] > 0 /\ InBody(w) => ~ SameTask(m, job[w].msg)
    /\ \A m \in Messages : queue[m] > 0 => m.task \notin done[m.scan]
    /\ \A w \in Workers : InBody(w) => job[w].msg.task \notin done[job[w].msg.scan]

\* The processes that run a task after a step ran it before.
NoNewBody ==
    \A w \in Workers : InBody(w)' => InBody(w) /\ job'[w].msg = job[w].msg

\* Taking messages away and ending tasks preserves OnceInv.
LEMMA OnceShrinks ==
    ASSUME TypeOK, TypeOK', OnceInv, NoNewBody, done' = done,
           \A m \in Messages : queue'[m] <= queue[m]
    PROVE  OnceInv'
<1>1. \A m \in Messages : queue[m] \in Nat /\ queue'[m] \in Nat
  BY DEF TypeOK
<1>2. \A m \in Messages : queue'[m] > 0 => queue[m] > 0
  BY <1>1
<1>3. \A m \in Messages : queue'[m] <= 1
  BY <1>1 DEF OnceInv
<1> QED
  BY <1>2, <1>3 DEF OnceInv, NoNewBody, SameTask

\* Sending messages of tasks that are neither waiting nor run nor done preserves it, too.
LEMMA OnceSends ==
    ASSUME TypeOK, OnceInv, NoNewBody, NEW ms \in SUBSET Messages, queue' = Send(ms),
           \A n \in ms :
              /\ \A m \in Messages : queue[m] > 0 => ~ SameTask(m, n)
              /\ \A w \in Workers : InBody(w)' => ~ SameTask(job[w].msg, n)
              /\ n.task \notin done'[n.scan],
           \A m, n \in ms : SameTask(m, n) => m = n,
           \A m \in Messages : queue[m] > 0 => m.task \notin done'[m.scan],
           \A w \in Workers : InBody(w)' => job[w].msg.task \notin done'[job[w].msg.scan]
    PROVE  OnceInv'
<1>1. \A m, n \in Messages : SameTask(m, n) => SameTask(n, m)
  BY DEF SameTask
<1>2. \A m \in Messages : queue[m] \in Nat
  BY DEF TypeOK
<1>3. \A m \in ms : queue[m] = 0
  <2>1. \A m \in Messages : SameTask(m, m)
    BY DEF SameTask
  <2> QED
    BY <1>2, <2>1
<1>4. \A m \in Messages : queue'[m] = IF m \in ms THEN 1 ELSE queue[m]
  BY <1>2, <1>3 DEF Send
<1>5. \A m \in Messages : queue'[m] <= 1 /\ (queue'[m] > 0 <=> m \in ms \/ queue[m] > 0)
  BY <1>2, <1>4 DEF OnceInv
<1>6. \A m, n \in Messages : queue'[m] > 0 /\ queue'[n] > 0 /\ SameTask(m, n) => m = n
  BY <1>1, <1>5 DEF OnceInv
<1>7. \A m \in Messages, w \in Workers :
         queue'[m] > 0 /\ InBody(w)' => ~ SameTask(m, job'[w].msg)
  BY <1>5 DEF OnceInv, NoNewBody, SameTask
<1>8. \A v, w \in Workers :
         InBody(v)' /\ InBody(w)' /\ SameTask(job'[v].msg, job'[w].msg) => v = w
  BY DEF OnceInv, NoNewBody
<1>9. /\ \A m \in Messages : queue'[m] > 0 => m.task \notin done'[m.scan]
      /\ \A w \in Workers : InBody(w)' => job'[w].msg.task \notin done'[job'[w].msg.scan]
  BY <1>5 DEF NoNewBody
<1> QED
  BY <1>5, <1>6, <1>7, <1>8, <1>9 DEF OnceInv, SameTask

\* Sending one such message.
LEMMA OnceSendsOne ==
    ASSUME TypeOK, OnceInv, NoNewBody, NEW n \in Messages, queue' = Send({n}), done' = done,
           \A m \in Messages : queue[m] > 0 => ~ SameTask(m, n),
           \A w \in Workers : InBody(w)' => ~ SameTask(job[w].msg, n),
           n.task \notin done[n.scan]
    PROVE  OnceInv'
<1>1. {n} \in SUBSET Messages
  OBVIOUS
<1>2. \A x \in {n} :
         /\ \A m \in Messages : queue[m] > 0 => ~ SameTask(m, x)
         /\ \A w \in Workers : InBody(w)' => ~ SameTask(job[w].msg, x)
         /\ x.task \notin done'[x.scan]
  OBVIOUS
<1>3. \A x, y \in {n} : SameTask(x, y) => x = y
  OBVIOUS
<1>4. /\ \A m \in Messages : queue[m] > 0 => m.task \notin done'[m.scan]
      /\ \A w \in Workers : InBody(w)' => job[w].msg.task \notin done'[job[w].msg.scan]
  BY DEF OnceInv, NoNewBody
<1> QED
  BY <1>1, <1>2, <1>3, <1>4, OnceSends

LEMMA OnceSucceed ==
    ASSUME TypeOK, OrderInv, OnceInv, NEW w \in Workers, NEW m \in Messages, Succeed(w, m)
    PROVE  OnceInv'
<1> DEFINE s == m.scan
           k == StageOf[m.task]
           next == {Message(s, t) : t \in StageTasks(k + 1)}
<1>1. s \in Scans /\ m.task \in Tasks /\ k \in Int
  BY MessagesShape, StageOfType
<1>2. InBody(w) /\ job[w].msg = m
  BY RunningShape DEF Succeed, InBody
<1>3. m.task \notin done[s] /\ ~ StageDone(s, k)
  BY <1>1, <1>2 DEF OnceInv, StageDone, StageTasks
<1>4. done' = [done EXCEPT ![s] = @ \cup {m.task}]
  BY DEF Succeed
<1>5. \A v \in Workers : InBody(v)' => v # w /\ InBody(v) /\ job'[v] = job[v]
  BY DEF Succeed, InBody, TypeOK
<1>6. NoNewBody
  BY <1>5 DEF NoNewBody
<1>7. \A n \in Messages : queue[n] > 0 => n.task \notin done'[n.scan]
  <2> SUFFICES ASSUME NEW n \in Messages, queue[n] > 0
               PROVE  n.task \notin done'[n.scan]
    OBVIOUS
  <2>1. n.scan \in Scans /\ n.task \notin done[n.scan] /\ ~ SameTask(n, m)
    BY <1>2, MessagesShape DEF OnceInv
  <2> QED
    BY <1>1, <1>4, <2>1 DEF SameTask, TypeOK
<1>8. \A v \in Workers : InBody(v)' => job[v].msg.task \notin done'[job[v].msg.scan]
  <2> SUFFICES ASSUME NEW v \in Workers, InBody(v)'
               PROVE  job[v].msg.task \notin done'[job[v].msg.scan]
    OBVIOUS
  <2>1. job[v].msg \in Messages
    BY <1>5, JobShape DEF InBody
  <2>2. /\ job[v].msg.scan \in Scans
        /\ job[v].msg.task \notin done[job[v].msg.scan]
        /\ ~ SameTask(job[v].msg, m)
    BY <1>2, <1>5, <2>1, MessagesShape DEF OnceInv
  <2> QED
    BY <1>1, <1>4, <2>2 DEF SameTask, TypeOK
<1>9. ASSUME NEW t \in StageTasks(k + 1)
      PROVE  /\ Message(s, t) \in Messages
             /\ Message(s, t).scan = s /\ Message(s, t).task = t
             /\ \A n \in Messages : Due(n) => ~ SameTask(n, Message(s, t))
             /\ t \notin done'[s]
  <2>1. t \in Tasks /\ StageOf[t] = k + 1 /\ StageOf[t] - 1 = k
    BY <1>1 DEF StageTasks
  <2>2. Message(s, t) \in Messages /\ Message(s, t).scan = s /\ Message(s, t).task = t
    BY <1>1, <2>1, MessageType DEF Message
  <2>3. t \notin done[s] /\ t # m.task
    BY <1>1, <1>3, <2>1 DEF OrderInv
  <2>4. \A n \in Messages : Due(n) => ~ SameTask(n, Message(s, t))
    BY <1>3, <2>1, <2>2 DEF Due, SameTask
  <2> QED
    BY <1>1, <1>4, <2>2, <2>3, <2>4 DEF TypeOK
<1>10. /\ \A n \in Messages : queue[n] > 0 => Due(n)
       /\ \A v \in Workers : InBody(v)' => Due(job[v].msg) /\ job[v].msg \in Messages
  BY <1>5, JobShape DEF OrderInv, InBody
<1>11. CASE queue' = Send(next)
  <2>1. \A n \in next : \E t \in StageTasks(k + 1) : n = Message(s, t)
    OBVIOUS
  <2>2. next \in SUBSET Messages
    BY <1>9
  <2>3. \A n \in next :
           /\ \A x \in Messages : queue[x] > 0 => ~ SameTask(x, n)
           /\ \A v \in Workers : InBody(v)' => ~ SameTask(job[v].msg, n)
           /\ n.task \notin done'[n.scan]
    BY <1>9, <1>10, <2>1
  <2>4. \A x, n \in next : SameTask(x, n) => x = n
    BY <1>9, <2>1 DEF SameTask
  <2> HIDE DEF next
  <2> QED
    BY <1>6, <1>7, <1>8, <1>11, <2>2, <2>3, <2>4, OnceSends
<1>12. CASE UNCHANGED queue
  <2>1. queue' = Send({})
    BY <1>12 DEF Send, TypeOK
  <2> QED
    BY <1>6, <1>7, <1>8, <2>1, OnceSends
<1> QED
  BY <1>11, <1>12 DEF Succeed

LEMMA OnceSubmit ==
    ASSUME TypeOK, OrderInv, OnceInv, NEW s \in Scans, Submit(s)
    PROVE  OnceInv'
<1> DEFINE n == Message(s, FirstTask)
<1>1. n \in Messages /\ n.scan = s
  BY OnlyFirstTaskUnpreceded, MessageType DEF Message
<1>2. queue' = Send({n}) /\ job' = job /\ done' = done /\ s \notin submitted
  BY DEF Submit
<1>3. NoNewBody
  BY <1>2 DEF NoNewBody, InBody
<1>4. \A m \in Messages : queue[m] > 0 => ~ SameTask(m, n)
  BY <1>1, <1>2 DEF OrderInv, Due, SameTask
<1>5. \A w \in Workers : InBody(w)' => InBody(w) /\ ~ SameTask(job[w].msg, n)
  BY <1>1, <1>2 DEF OrderInv, Due, SameTask, InBody
<1>6. n.task \notin done[n.scan]
  BY <1>1, <1>2 DEF OrderInv
<1> HIDE DEF n
<1> QED
  BY <1>1, <1>2, <1>3, <1>4, <1>5, <1>6, OnceSendsOne

LEMMA OnceRetry ==
    ASSUME TypeOK, OnceInv, NEW w \in Workers, NEW m \in Messages, RaiseAndRetry(w, m)
    PROVE  OnceInv'
<1> DEFINE n == [m EXCEPT !.retries = @ + 1]
<1>1. n \in Messages /\ n.scan = m.scan /\ n.task = m.task
  BY RetryType DEF RaiseAndRetry
<1>2. queue' = Send({n}) /\ done' = done
  BY DEF RaiseAndRetry
<1>3. InBody(w) /\ job[w].msg = m
  BY RunningShape DEF RaiseAndRetry, InBody
<1>4. \A v \in Workers : InBody(v)' => v # w /\ InBody(v) /\ job'[v] = job[v]
  BY DEF RaiseAndRetry, InBody, TypeOK
<1> HIDE DEF n
<1>5. NoNewBody
  BY <1>4 DEF NoNewBody
<1>6. /\ \A x \in Messages : queue[x] > 0 => ~ SameTask(x, n)
      /\ \A v \in Workers : InBody(v)' => ~ SameTask(job[v].msg, n)
      /\ n.task \notin done[n.scan]
  BY <1>1, <1>3, <1>4 DEF OnceInv, SameTask
<1> QED
  BY <1>1, <1>2, <1>5, <1>6, OnceSendsOne

LEMMA OnceDeliver ==
    ASSUME TypeOK, OnceInv, NEW w \in Workers, NEW m \in Messages, Deliver(w, m)
    PROVE  OnceInv'
<1>1. queue[m] = 1 /\ m.task \notin done[m.scan] /\ done' = done
  BY DEF Deliver, OnceInv, TypeOK
<1>2. queue' = [queue EXCEPT ![m] = 0]
  BY <1>1 DEF Deliver
<1>3. \A n \in Messages : queue'[n] > 0 => n # m /\ queue[n] > 0 /\ ~ SameTask(n, m)
  BY <1>1, <1>2 DEF OnceInv, TypeOK
<1>4. /\ job'[w].msg = m
      /\ \A v \in Workers : v # w => job'[v] = job[v]
  BY DEF Deliver, TypeOK
<1>5. \A v \in Workers : v # w /\ InBody(v)' => InBody(v) /\ ~ SameTask(m, job[v].msg)
  BY <1>1, <1>4 DEF OnceInv, InBody
<1>6. \A n \in Messages : queue'[n] <= 1
  BY <1>2 DEF OnceInv, TypeOK
<1>7. \A u, v \in Workers :
         InBody(u)' /\ InBody(v)' /\ SameTask(job'[u].msg, job'[v].msg) => u = v
  BY <1>4, <1>5 DEF OnceInv, SameTask
<1>8. \A n \in Messages, v \in Workers :
         queue'[n] > 0 /\ InBody(v)' => ~ SameTask(n, job'[v].msg)
  BY <1>3, <1>4, <1>5 DEF OnceInv
<1>9. /\ \A n \in Messages : queue'[n] > 0 => n.task \notin done'[n.scan]
      /\ \A v \in Workers : InBody(v)' => job'[v].msg.task \notin done'[job'[v].msg.scan]
  BY <1>1, <1>3, <1>4, <1>5 DEF OnceInv
<1>10. \A x, n \in Messages : queue'[x] > 0 /\ queue'[n] > 0 /\ SameTask(x, n) => x = n
  BY <1>3 DEF OnceInv
<1> QED
  BY <1>6, <1>7, <1>8, <1>9, <1>10 DEF OnceInv, SameTask

OnceWithoutFaults == faults = 0 => OnceInv

LosesOrRepeats ==
    \/ \E w \in Workers : LoseProcess(w) \/ Redeliver(w)
    \/ RestartWorker

LEMMA OnceInvStep ==
    TypeOK /\ TypeOK' /\ OrderInv /\ OnceWithoutFaults /\ [Next]_vars => OnceWithoutFaults'
<1> SUFFICES ASSUME TypeOK, TypeOK', OrderInv, faults = 0 => OnceInv, [Next]_vars, faults' = 0
             PROVE  OnceInv'
  BY DEF OnceWithoutFaults
<1>1. ASSUME LosesOrRepeats
      PROVE  FALSE
  <2>1. faults' = faults + 1
    BY <1>1 DEF LosesOrRepeats, LoseProcess, Redeliver, RestartWorker
  <2>2. faults \in Nat
    BY PipelineAssumption DEF TypeOK
  <2> QED
    BY <2>1, <2>2
<1>2. ASSUME NEW s \in Scans, Submit(s)
      PROVE  OnceInv'
  BY <1>2, OnceSubmit DEF Submit
<1>3. ASSUME NEW w \in Workers, NEW m \in Messages, Deliver(w, m)
      PROVE  OnceInv'
  BY <1>3, OnceDeliver DEF Deliver
<1>4. ASSUME NEW w \in Workers, NEW m \in Messages, Succeed(w, m)
      PROVE  OnceInv'
  BY <1>4, OnceSucceed DEF Succeed
<1>5. ASSUME NEW w \in Workers, NEW m \in Messages, RaiseAndRetry(w, m)
      PROVE  OnceInv'
  BY <1>5, OnceRetry DEF RaiseAndRetry
<1>6. ASSUME NEW s \in Scans, Revoke(s)
      PROVE  OnceInv'
  <2>1. NoNewBody /\ faults' = faults /\ done' = done /\ queue' = queue
    BY <1>6 DEF Revoke, NoNewBody, InBody, Idle
  <2> QED
    BY <2>1, OnceShrinks DEF TypeOK
<1>7. ASSUME NEW m \in Messages, Discard(m)
      PROVE  OnceInv'
  <2>1. NoNewBody /\ faults' = faults /\ done' = done
    BY <1>7 DEF Discard, NoNewBody, InBody
  <2>2. \A n \in Messages : queue'[n] <= queue[n]
    BY <1>7 DEF Discard, TypeOK
  <2> QED
    BY <2>1, <2>2, OnceShrinks
<1>8. ASSUME NEW w \in Workers, NEW m \in Messages, RaiseAndFail(w, m)
      PROVE  OnceInv'
  <2>1. NoNewBody
    BY <1>8 DEF RaiseAndFail, NoNewBody, InBody, TypeOK
  <2>2. faults' = faults /\ done' = done /\ queue' = queue
    BY <1>8 DEF RaiseAndFail
  <2> QED
    BY <2>1, <2>2, OnceShrinks DEF TypeOK
<1>9. ASSUME NEW w \in Workers, Ack(w)
      PROVE  OnceInv'
  <2>1. NoNewBody
    BY <1>9 DEF Ack, NoNewBody, InBody, TypeOK, Idle
  <2>2. faults' = faults /\ done' = done /\ queue' = queue
    BY <1>9 DEF Ack
  <2> QED
    BY <2>1, <2>2, OnceShrinks DEF TypeOK
<1>10. CASE UNCHANGED vars
  <2>1. NoNewBody /\ faults' = faults /\ done' = done /\ queue' = queue
    BY <1>10 DEF vars, NoNewBody, InBody
  <2> QED
    BY <2>1, OnceShrinks DEF TypeOK
<1> QED
  BY <1>1, <1>2, <1>3, <1>4, <1>5, <1>6, <1>7, <1>8, <1>9, <1>10 DEF Next, LosesOrRepeats

\* A set that has no two elements is empty or a singleton.
LEMMA AtMostOne ==
    ASSUME NEW S, \A x, y \in S : x = y
    PROVE  Cardinality(S) <= 1 /\ Cardinality(S) \in Nat /\ (Cardinality(S) = 0 <=> S = {})
<1>1. CASE S = {}
  BY <1>1, FS_EmptySet
<1>2. CASE S # {}
  <2>1. PICK x : S = {x}
    BY <1>2
  <2>2. Cardinality({x}) = 1
    BY FS_Singleton
  <2> QED
    BY <2>1, <2>2
<1> QED
  BY <1>1, <1>2

\* Without faults every task runs at most once: its message waits at most once, is run by at
\* most one process and never both, and is gone when the task is done (apply_async and the
\* chord start each stage once).
THEOREM ExactlyOnce == Spec => []ExactlyOnceWithoutFaults
<1>1. Init => OnceWithoutFaults
  BY DEF Init, OnceWithoutFaults, OnceInv, InBody, Idle
<1>2. Spec => []OnceWithoutFaults
  BY <1>1, OnceInvStep, OrderInvHolds, TypeCorrect, PTL DEF Spec
<1>3. ASSUME TypeOK, OnceWithoutFaults
      PROVE  ExactlyOnceWithoutFaults
  <2> SUFFICES ASSUME faults = 0, NEW s \in Scans, NEW t \in Tasks
               PROVE  LET waiting == {m \in Messages : m.scan = s /\ m.task = t /\ queue[m] > 0}
                      IN  /\ Cardinality(waiting) + Cardinality(Copies(s, t)) <= 1
                          /\ \A m \in waiting : queue[m] = 1
                          /\ t \in done[s] => waiting = {} /\ Copies(s, t) = {}
    BY DEF ExactlyOnceWithoutFaults
  <2> DEFINE waiting == {m \in Messages : m.scan = s /\ m.task = t /\ queue[m] > 0}
  <2>1. OnceInv
    BY <1>3 DEF OnceWithoutFaults
  <2>2. \A m, n \in waiting : m = n
    BY <2>1 DEF OnceInv, SameTask
  <2>3. \A v, w \in Copies(s, t) : v = w
    BY <2>1 DEF OnceInv, SameTask, Copies, InBody
  <2>4. waiting = {} \/ Copies(s, t) = {}
    BY <2>1 DEF OnceInv, SameTask, Copies, InBody
  <2>5. \A m \in waiting : queue[m] = 1
    BY <1>3, <2>1 DEF OnceInv, TypeOK
  <2>6. t \in done[s] => waiting = {} /\ Copies(s, t) = {}
    BY <2>1 DEF OnceInv, Copies, InBody
  <2> HIDE DEF waiting
  <2>7. Cardinality(waiting) + Cardinality(Copies(s, t)) <= 1
    <3>1. /\ Cardinality(waiting) <= 1 /\ Cardinality(waiting) \in Nat
          /\ Cardinality(waiting) = 0 <=> waiting = {}
      BY <2>2, AtMostOne
    <3>2. /\ Cardinality(Copies(s, t)) <= 1 /\ Cardinality(Copies(s, t)) \in Nat
          /\ Cardinality(Copies(s, t)) = 0 <=> Copies(s, t) = {}
      BY <2>3, AtMostOne
    <3> QED
      BY <2>4, <3>1, <3>2
  <2> QED
    BY <2>5, <2>6, <2>7 DEF waiting
<1> QED
  BY <1>2, <1>3, TypeCorrect, PTL
=============================================================================
