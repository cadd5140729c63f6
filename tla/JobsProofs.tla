----------------------------- MODULE JobsProofs -----------------------------
(***************************************************************************)
(* Theorems about the job queue for every set of jobs and workers, every   *)
(* batch size, budget and timeout.                                         *)
(***************************************************************************)
EXTENDS Jobs, ClientProofs, TLAPS

-----------------------------------------------------------------------------
(* Rows: what the helpers of the table return. *)

LEMMA ReleasedRow ==
  ASSUME NEW r \in Row, NEW s \in Status, NEW e \in Errors
  PROVE  /\ Released(r, s, e) \in Row
         /\ Released(r, s, e).status = s
         /\ Released(r, s, e).attempts = r.attempts
         /\ Released(r, s, e).values = r.values
<1>1. 0 \in 0..(LeaseTimeout + 1)
  BY JobsAssumption
<1> QED
  BY <1>1 DEF Released, Row

LEMMA AgedRow ==
  ASSUME NEW r \in Row
  PROVE  /\ Aged(r) \in Row
         /\ \A f \in {"robot", "status", "attempts", "lockedBy", "error",
                      "requestDone", "values"} : Aged(r)[f] = r[f]
         /\ Aged(r).lease <= r.lease + 1
<1> DEFINE due == IF r.due > -OverdueCap THEN r.due - 1 ELSE r.due
           lease == IF r.status = "processing" /\ r.lease <= LeaseTimeout
                    THEN r.lease + 1 ELSE r.lease
           deadline == Down(r.deadline)
<1>1. r.due \in Int /\ r.lease \in 0..(LeaseTimeout + 1) /\ r.deadline \in Nat
  BY DEF Row
<1>2. /\ due \in Int /\ lease \in 0..(LeaseTimeout + 1) /\ deadline \in Nat
      /\ lease <= r.lease + 1
  BY <1>1, JobsAssumption DEF Down
<1>3. Aged(r) = [r EXCEPT !.due = due, !.lease = lease, !.deadline = deadline]
  BY DEF Aged
<1> HIDE DEF due, lease, deadline
<1> QED
  BY <1>2, <1>3 DEF Row

LEMMA ClaimedRow ==
  ASSUME NEW r \in Row, NEW w \in Worker, r.attempts < MaxAttempts
  PROVE  /\ Claimed(r, w) \in Row
         /\ Claimed(r, w).status = "processing"
         /\ Claimed(r, w).lockedBy = w
         /\ Claimed(r, w).lease = 0
         /\ Claimed(r, w).attempts = r.attempts + 1
<1> DEFINE n == r.attempts + 1
<1>1. n \in 0..MaxAttempts /\ 0 \in 0..(LeaseTimeout + 1)
  <2>1. r.attempts \in 0..MaxAttempts /\ MaxAttempts \in Nat /\ LeaseTimeout \in Nat
    BY JobsAssumption DEF Row
  <2> QED
    BY <2>1
<1>2. Claimed(r, w) = [r EXCEPT !.status = "processing", !.lease = 0,
                                !.lockedBy = w, !.attempts = n]
  BY DEF Claimed
<1> HIDE DEF n
<1>3. Claimed(r, w) \in Row
  BY <1>1, <1>2 DEF Row, Status
<1> QED
  BY <1>2, <1>3 DEF Row, n

LEMMA RecoveredRow ==
  ASSUME NEW r \in Row
  PROVE  /\ Recovered(r) \in Row
         /\ Recovered(r).status \in {"failed", "retry"}
         /\ Recovered(r).attempts = r.attempts
         /\ Recovered(r).status = "retry" => r.attempts < MaxAttempts
<1> DEFINE failed == Released(r, "failed", "stale_exhausted")
           retried == Released(r, "retry", "stale_recovered")
<1>1. /\ failed \in Row /\ failed.status = "failed" /\ failed.attempts = r.attempts
      /\ retried \in Row /\ retried.status = "retry" /\ retried.attempts = r.attempts
  BY ReleasedRow DEF Status, Errors
<1>2. Recovered(r) = IF r.attempts >= MaxAttempts THEN failed
                     ELSE [retried EXCEPT !.due = 0]
  BY DEF Recovered
<1>3. r.attempts >= MaxAttempts \/ r.attempts < MaxAttempts
  BY JobsAssumption DEF Row
<1> HIDE DEF failed, retried
<1>4. /\ [retried EXCEPT !.due = 0] \in Row
      /\ [retried EXCEPT !.due = 0].status = "retry"
      /\ [retried EXCEPT !.due = 0].attempts = r.attempts
  BY <1>1 DEF Row
<1> QED
  BY <1>1, <1>2, <1>3, <1>4

\* _transition changes one row, and only while it is 'processing'.
LEMMA TransitionRow ==
  ASSUME row \in [Job -> Row], NEW j \in Job, NEW r \in Row, Transition(j, r)
  PROVE  /\ row' \in [Job -> Row]
         /\ \A k \in Job : k # j => row'[k] = row[k]
         /\ row[j].status # "processing" => row' = row
         /\ row[j].status = "processing" => row'[j] = r
BY DEF Transition

-----------------------------------------------------------------------------
(* Settle: what the last transaction of the processor may do to the row. *)

Budgeted(before, after) ==
  \/ after.attempts = before.attempts
  \/ before.attempts > 0 /\ after.attempts = before.attempts - 1

LEMMA SettledRow ==
  ASSUME row \in [Job -> Row], NEW w \in Worker, task[w] \in Task,
         NEW j \in Job, j = Current(w), Settle(w)
  PROVE  /\ row' \in [Job -> Row]
         /\ \A k \in Job : k # j => row'[k] = row[k]
         /\ row[j].status # "processing" => row' = row
         /\ row[j].status = "processing" =>
              /\ row'[j].status \in Terminal \cup {"retry"}
              /\ Budgeted(row[j], row'[j])
              /\ row'[j].status = "retry" =>
                   \/ row'[j].attempts < row[j].attempts
                   \/ row[j].attempts = 0
                   \/ row'[j].attempts = row[j].attempts /\ task[w].attempts < MaxAttempts
<1> DEFINE plan == task[w].plan
           Good(r) == /\ r \in Row
                      /\ r.status \in Terminal \cup {"retry"}
                      /\ Budgeted(row[j], r)
                      /\ r.status = "retry" =>
                           \/ r.attempts < row[j].attempts
                           \/ row[j].attempts = 0
                           \/ r.attempts = row[j].attempts /\ task[w].attempts < MaxAttempts
<1>1. row[j] \in Row
  OBVIOUS
<1>2. ASSUME NEW e \in Errors
      PROVE  Good(Released(row[j], "failed", e))
  <2> DEFINE r == Released(row[j], "failed", e)
  <2>1. r \in Row /\ r.status = "failed" /\ r.attempts = row[j].attempts
    BY <1>1, <1>2, ReleasedRow DEF Status
  <2> HIDE DEF r
  <2> QED
    BY <2>1 DEF Terminal, Budgeted, r
<1>3. Good(Released(row[j], "expired", "token_expired"))
  BY <1>1, ReleasedRow DEF Status, Terminal, Budgeted, Errors
<1>4. ASSUME NEW v \in Values
      PROVE  Good([Released(row[j], "completed", "none") EXCEPT !.values = v])
  <2> DEFINE r == Released(row[j], "completed", "none")
  <2>1. r \in Row /\ r.status = "completed" /\ r.attempts = row[j].attempts
    BY <1>1, ReleasedRow DEF Status, Errors
  <2> HIDE DEF r
  <2>2. [r EXCEPT !.values = v] \in Row
    BY <2>1 DEF Row
  <2> QED
    BY <2>1, <2>2 DEF Row, Terminal, Budgeted, r
<1>5. ASSUME NEW e \in Errors, NEW d \in RetryDelays, task[w].attempts < MaxAttempts
      PROVE  Good([Released(row[j], "retry", e) EXCEPT !.due = d])
  <2> DEFINE r == Released(row[j], "retry", e)
  <2>1. r \in Row /\ r.status = "retry" /\ r.attempts = row[j].attempts
    BY <1>1, ReleasedRow DEF Status
  <2>2. d \in Int
    BY JobsAssumption
  <2> HIDE DEF r
  <2>3. [r EXCEPT !.due = d] \in Row
    BY <2>1, <2>2 DEF Row
  <2> QED
    BY <1>5, <2>1, <2>3 DEF Row, Budgeted, r
<1>6. Good([Released(row[j], "retry", "none") EXCEPT
              !.due = PollInterval, !.attempts = IF @ > 0 THEN @ - 1 ELSE 0])
  <2> DEFINE r == Released(row[j], "retry", "none")
             n == IF r.attempts > 0 THEN r.attempts - 1 ELSE 0
  <2>1. r \in Row /\ r.status = "retry" /\ r.attempts = row[j].attempts
    BY <1>1, ReleasedRow DEF Status, Errors
  <2>2. r.attempts \in 0..MaxAttempts /\ MaxAttempts \in Nat /\ PollInterval \in Int
    BY <2>1, JobsAssumption DEF Row
  <2>3. /\ n \in 0..MaxAttempts
        /\ n < row[j].attempts \/ row[j].attempts = 0
        /\ n = row[j].attempts \/ (row[j].attempts > 0 /\ n = row[j].attempts - 1)
    BY <2>1, <2>2
  <2>4. [Released(row[j], "retry", "none") EXCEPT
           !.due = PollInterval, !.attempts = IF @ > 0 THEN @ - 1 ELSE 0]
        = [r EXCEPT !.due = PollInterval, !.attempts = n]
    OBVIOUS
  <2> HIDE DEF r, n
  <2>5. /\ [r EXCEPT !.due = PollInterval, !.attempts = n] \in Row
        /\ [r EXCEPT !.due = PollInterval, !.attempts = n].status = "retry"
        /\ [r EXCEPT !.due = PollInterval, !.attempts = n].attempts = n
    BY <2>1, <2>2, <2>3 DEF Row
  <2> QED
    BY <2>3, <2>4, <2>5 DEF Budgeted
<1>7. \E r \in Row : Good(r) /\ Transition(j, r)
  <2>1. task[w].values \in Values /\ task[w].attempts \in 0..MaxAttempts
    BY DEF Task
  <2>2. CASE plan = "complete"
    <3>1. MarkCompleted(j, task[w].values)
      BY <2>2 DEF Settle
    <3> QED
      BY <3>1, <2>1, <1>4 DEF MarkCompleted
  <2>3. ASSUME NEW e \in Errors, Retry(j, task[w], e)
        PROVE  \E r \in Row : Good(r) /\ Transition(j, r)
    <3>1. CASE task[w].attempts >= MaxAttempts
      <4>1. MarkFailed(j, "attempts_exhausted")
        BY <2>3, <3>1 DEF Retry
      <4> QED
        BY <4>1, <1>2 DEF MarkFailed, Errors
    <3>2. CASE ~(task[w].attempts >= MaxAttempts)
      <4>1. PICK d \in RetryDelays : ScheduleRetry(j, e, d)
        BY <2>3, <3>2 DEF Retry
      <4>2. task[w].attempts < MaxAttempts
        BY <2>1, <3>2, JobsAssumption
      <4> QED
        BY <4>1, <4>2, <1>5 DEF ScheduleRetry
    <3> QED
      BY <3>1, <3>2
  <2>4. CASE plan = "retry_unknown"
    <3>1. Retry(j, task[w], "outcome_unknown")
      BY <2>4 DEF Settle
    <3> QED
      BY <3>1, <2>3 DEF Errors
  <2>5. CASE plan = "retry_temporary"
    <3>1. Retry(j, task[w], "temporary")
      BY <2>5 DEF Settle
    <3> QED
      BY <3>1, <2>3 DEF Errors
  <2>6. CASE plan = "poll"
    <3>1. SchedulePoll(j)
      BY <2>6 DEF Settle
    <3> QED
      BY <3>1, <1>6 DEF SchedulePoll
  <2>7. CASE plan \in {"fail", "review"}
    <3>1. PICK e \in Errors : MarkFailed(j, e)
      BY <2>7 DEF Settle, Errors
    <3> QED
      BY <3>1, <1>2 DEF MarkFailed
  <2>8. CASE plan = "expire"
    <3>1. MarkExpired(j)
      BY <2>8 DEF Settle
    <3> QED
      BY <3>1, <1>3 DEF MarkExpired
  <2>9. plan \in {"complete", "retry_unknown", "retry_temporary", "poll", "fail",
                  "review", "expire"}
    BY DEF Settle
  <2> QED
    BY <2>2, <2>4, <2>5, <2>6, <2>7, <2>8, <2>9
<1> QED
  BY <1>7, TransitionRow

-----------------------------------------------------------------------------
(* Type correctness.  A worker inside the processor has a current job: without *)
(* that conjunct the type of the batch is not inductive.                       *)

Busy == \A w \in Worker : pc[w] \in ProcessorSteps => batch[w] # <<>>

TypeInv == TypeOK /\ Busy

LEMMA CurrentJob ==
  ASSUME NEW s \in Seq(Job), s # <<>>
  PROVE  /\ Head(s) \in Job /\ Tail(s) \in Seq(Job)
         /\ Head(s) = s[1] /\ Len(s) \in Nat \ {0}
         /\ Len(Tail(s)) = Len(s) - 1
         /\ \A i \in 1..Len(Tail(s)) : Tail(s)[i] = s[i + 1]
OBVIOUS

\* Turning to the next job keeps the types and Busy.
LEMMA NextJobType ==
  ASSUME TypeInv, NEW w \in Worker, batch[w] # <<>>, NextJob(w)
  PROVE  /\ batch' \in [Worker -> Seq(Job)] /\ task' \in [Worker -> Task]
         /\ pc' \in [Worker -> Steps] /\ Busy'
<1>1. NoTask \in Task
  BY JobsAssumption DEF NoTask, Task, Errors, Values, Plans
<1>2. Tail(batch[w]) \in Seq(Job)
  BY CurrentJob DEF TypeInv, TypeOK
<1>3. batch' \in [Worker -> Seq(Job)] /\ task' \in [Worker -> Task]
  BY <1>1, <1>2 DEF NextJob, TypeInv, TypeOK
<1>4. pc' \in [Worker -> Steps]
  BY DEF NextJob, Goto, TypeInv, TypeOK, Steps
<1>5. Busy'
  BY DEF NextJob, Goto, TypeInv, TypeOK, Busy, ProcessorSteps
<1> QED
  BY <1>3, <1>4, <1>5

\* Going to a step of the processor with a plan or with values keeps them too.
LEMMA PlanType ==
  ASSUME TypeInv, NEW w \in Worker, batch[w] # <<>>, NEW p \in Plans, Plan(w, p)
  PROVE  /\ batch' \in [Worker -> Seq(Job)] /\ task' \in [Worker -> Task]
         /\ pc' \in [Worker -> Steps] /\ Busy'
<1>1. [task[w] EXCEPT !.plan = p] \in Task
  BY DEF TypeInv, TypeOK, Task
<1>2. task' \in [Worker -> Task]
  BY <1>1 DEF Plan, TypeInv, TypeOK
<1>3. pc' \in [Worker -> Steps] /\ Busy'
  BY DEF Plan, Goto, TypeInv, TypeOK, Busy, Steps, ProcessorSteps
<1> QED
  BY <1>2, <1>3 DEF Plan, TypeInv, TypeOK

LEMMA DecideType ==
  ASSUME TypeInv, NEW w \in Worker, batch[w] # <<>>, NEW v \in Values,
         NEW step \in ProcessorSteps, Decide(w, v, step)
  PROVE  /\ batch' \in [Worker -> Seq(Job)] /\ task' \in [Worker -> Task]
         /\ pc' \in [Worker -> Steps] /\ Busy'
<1>1. [task[w] EXCEPT !.values = v] \in Task
  BY DEF TypeInv, TypeOK, Task
<1>2. task' \in [Worker -> Task]
  BY <1>1 DEF Decide, TypeInv, TypeOK
<1>3. pc' \in [Worker -> Steps] /\ Busy'
  BY DEF Decide, Goto, TypeInv, TypeOK, Busy, Steps
<1> QED
  BY <1>2, <1>3 DEF Decide, TypeInv, TypeOK

LEMMA LeaveType ==
  ASSUME TypeInv, NEW w \in Worker, Leave(w)
  PROVE  TypeInv'
<1>1. NoTask \in Task
  BY JobsAssumption DEF NoTask, Task, Errors, Values, Plans
<1> QED
  BY <1>1 DEF Leave, Goto, TypeInv, TypeOK, Busy, Steps, ProcessorSteps

\* claim_due_jobs: the rows of the claimed batch, and no other, change hands.
LEMMA ClaimedRows ==
  ASSUME row \in [Job -> Row], batch \in [Worker -> Seq(Job)], NEW w \in Worker, Claim(w)
  PROVE  /\ row' \in [Job -> Row] /\ batch' \in [Worker -> Seq(Job)]
         /\ \A v \in Worker : v # w => batch'[v] = batch[v]
         /\ \A i, k \in 1..Len(batch'[w]) :
              i # k => batch'[w][i] # batch'[w][k]
         /\ \A j \in Job :
              \/ ~(\E i \in 1..Len(batch'[w]) : batch'[w][i] = j) /\ row'[j] = row[j]
              \/ Due(j) /\ row'[j] = Claimed(row[j], w)
<1>1. PICK n \in 0..BatchSize : \E s \in [1..n -> Job] :
        /\ ClaimOrder(s)
        /\ batch' = [batch EXCEPT ![w] = s]
        /\ row' = [j \in Job |-> IF \E i \in 1..n : s[i] = j
                                 THEN Claimed(row[j], w) ELSE row[j]]
  BY DEF Claim
<1>2. PICK s \in [1..n -> Job] :
        /\ ClaimOrder(s)
        /\ batch' = [batch EXCEPT ![w] = s]
        /\ row' = [j \in Job |-> IF \E i \in 1..n : s[i] = j
                                 THEN Claimed(row[j], w) ELSE row[j]]
  BY <1>1
<1>3. n \in Nat
  BY JobsAssumption
<1>4. s \in Seq(Job) /\ Len(s) = n
  BY <1>3
<1>5. batch'[w] = s /\ batch' \in [Worker -> Seq(Job)]
  BY <1>2, <1>4
<1>6. \A i, k \in 1..n : i # k => s[i] # s[k]
  <2>1. \A i, k \in 1..n : i < k => s[i] # s[k]
    BY <1>2, <1>4 DEF ClaimOrder
  <2> QED
    BY <2>1, <1>3
<1>7. \A i \in 1..n : Due(s[i])
  BY <1>2, <1>4 DEF ClaimOrder
<1>8. ASSUME NEW j \in Job, Due(j)
      PROVE  Claimed(row[j], w) \in Row
  BY <1>8, ClaimedRow DEF Due
<1>9. row' \in [Job -> Row]
  BY <1>2, <1>7, <1>8
<1>10. \A j \in Job :
         \/ ~(\E i \in 1..n : s[i] = j) /\ row'[j] = row[j]
         \/ Due(j) /\ row'[j] = Claimed(row[j], w)
  BY <1>2, <1>7
<1> QED
  BY <1>2, <1>4, <1>5, <1>6, <1>9, <1>10

-----------------------------------------------------------------------------

LEMMA InitType == Init => TypeInv
<1>1. NoTask \in Task
  BY JobsAssumption DEF NoTask, Task, Errors, Values, Plans
<1>2. NoRow \in Row
  BY JobsAssumption DEF NoRow, Row, RobotCodes, Status, Errors, Values
<1>3. NewPortal \in Portal
  BY JobsAssumption DEF NewPortal, Portal, Values
<1>4. 0 \in 0..RecoveryInterval
  BY JobsAssumption
<1> QED
  BY <1>1, <1>2, <1>3, <1>4
     DEF Init, TypeInv, TypeOK, Busy, Steps, ProcessorSteps

LEMMA NextType == TypeInv /\ [Next]_vars => TypeInv'
<1> SUFFICES ASSUME TypeInv, [Next]_vars PROVE TypeInv'
  OBVIOUS
<1> USE DEF TypeInv
<1>1. ASSUME NEW j \in Job, Create(j) PROVE TypeInv'
  <2>1. PICK robot \in Robots :
          row' = [row EXCEPT ![j] = [NoRow EXCEPT !.robot = robot,
                                                  !.status = "pending",
                                                  !.due = InitialDue(robot),
                                                  !.deadline = InitialDeadline(robot)]]
    BY <1>1 DEF Create
  <2>2. InitialDue(robot) \in Int /\ InitialDeadline(robot) \in Nat /\ robot \in RobotCodes
    BY JobsAssumption DEF InitialDue, InitialDeadline, RobotCodes
  <2>3. [NoRow EXCEPT !.robot = robot, !.status = "pending",
                      !.due = InitialDue(robot),
                      !.deadline = InitialDeadline(robot)] \in Row
    <3>1. NoRow \in Row
      BY JobsAssumption DEF NoRow, Row, RobotCodes, Status, Errors, Values
    <3> DEFINE due == InitialDue(robot)
               deadline == InitialDeadline(robot)
    <3> HIDE DEF due, deadline
    <3>2. [NoRow EXCEPT !.robot = robot, !.status = "pending", !.due = due,
                        !.deadline = deadline] \in Row
      BY <2>2, <3>1 DEF Row, Status, due, deadline
    <3> QED
      BY <3>2 DEF due, deadline
  <2> QED
    BY <1>1, <2>1, <2>3 DEF Create, TypeOK, Busy
<1>2. ASSUME NEW j \in Job, Terminate(j) PROVE TypeInv'
  BY <1>2 DEF Terminate, TypeOK, Busy, Portal
<1>3. ASSUME Tick PROVE TypeInv'
  <2>1. row' \in [Job -> Row]
    BY <1>3, AgedRow DEF Tick, TypeOK
  <2>2. recoverIn' \in [Worker -> 0..RecoveryInterval]
    BY <1>3, JobsAssumption DEF Tick, TypeOK, Down
  <2> QED
    BY <1>3, <2>1, <2>2 DEF Tick, TypeOK, Busy
<1>4. ASSUME NEW w \in Worker, Start(w) PROVE TypeInv'
  BY <1>4 DEF Start, Goto, TypeOK, Busy, Steps, ProcessorSteps
<1>5. ASSUME NEW w \in Worker, ShutDown(w) PROVE TypeInv'
  BY <1>5, LeaveType DEF ShutDown
<1>6. ASSUME NEW w \in Worker, Recover(w) PROVE TypeInv'
  <2>1. row' \in [Job -> Row]
    BY <1>6, RecoveredRow DEF Recover, TypeOK
  <2>2. RecoveryInterval \in 0..RecoveryInterval
    BY JobsAssumption
  <2> QED
    BY <1>6, <2>1, <2>2 DEF Recover, Goto, TypeOK, Busy, Steps, ProcessorSteps
<1>7. ASSUME NEW w \in Worker, SkipRecovery(w) PROVE TypeInv'
  BY <1>7 DEF SkipRecovery, Goto, TypeOK, Busy, Steps, ProcessorSteps
<1>8. ASSUME NEW w \in Worker, Claim(w) PROVE TypeInv'
  <2>1. row' \in [Job -> Row] /\ batch' \in [Worker -> Seq(Job)]
        /\ \A v \in Worker : v # w => batch'[v] = batch[v]
    BY <1>8, ClaimedRows DEF TypeOK
  <2> QED
    BY <1>8, <2>1 DEF Claim, Goto, TypeOK, Busy, Steps, ProcessorSteps
<1>9. ASSUME NEW w \in Worker, EndBatch(w) PROVE TypeInv'
  <2>1. CASE w \in OnceWorker
    BY <1>9, <2>1, LeaveType DEF EndBatch
  <2>2. CASE w \notin OnceWorker
    BY <1>9, <2>2 DEF EndBatch, Goto, TypeOK, Busy, Steps, ProcessorSteps
  <2> QED
    BY <2>1, <2>2
<1>10. ASSUME NEW w \in Worker, Wake(w) PROVE TypeInv'
  BY <1>10 DEF Wake, Goto, TypeOK, Busy, Steps, ProcessorSteps
<1>11. ASSUME NEW w \in Worker, Load(w) PROVE TypeInv'
  <2> DEFINE j == Current(w)
             copy == [attempts |-> row[j].attempts, error |-> row[j].error,
                      requestDone |-> row[j].requestDone,
                      values |-> IF row[j].requestDone THEN row[j].values ELSE "completed",
                      plan |-> "none"]
  <2>1. batch[w] # <<>> /\ j \in Job /\ row[j] \in Row
    BY <1>11, CurrentJob DEF Load, Current, TypeOK
  <2>2. copy \in Task /\ [copy EXCEPT !.plan = "fail"] \in Task
    BY <2>1 DEF Row, Task, Plans, Values
  <2>3. FirstStep(j) \in ProcessorSteps
    BY <2>1 DEF FirstStep, Row, RobotCodes, ProcessorSteps
  <2>4. PICK step \in ProcessorSteps, t \in Task :
          Goto(w, step) /\ task' = [task EXCEPT ![w] = t]
    <3> HIDE DEF j
    <3>1. \/ Goto(w, FirstStep(j)) /\ task' = [task EXCEPT ![w] = copy]
          \/ Goto(w, "settle") /\ task' = [task EXCEPT ![w] = [copy EXCEPT !.plan = "fail"]]
      BY <1>11 DEF Load, j
    <3> HIDE DEF copy
    <3> QED
      BY <3>1, <2>2, <2>3 DEF ProcessorSteps
  <2> HIDE DEF j, copy
  <2>5. UNCHANGED <<row, stop, recoverIn, batch, portal>>
    BY <1>11 DEF Load
  <2> QED
    BY <2>1, <2>4, <2>5 DEF Goto, TypeOK, Busy, Steps
<1>12. ASSUME NEW w \in Worker, LoadNothing(w) PROVE TypeInv'
  BY <1>12, NextJobType DEF LoadNothing, TypeOK
<1>13. ASSUME NEW w \in Worker, Request(w) PROVE TypeInv'
  <2>1. batch[w] # <<>>
    BY <1>13 DEF Request, Busy, ProcessorSteps
  <2>2. PICK c \in PortalCalls :
          /\ portal' = IF c.done THEN [portal EXCEPT ![Current(w)].calls = @ + 1] ELSE portal
          /\ \/ Decide(w, "completed", "checkpoint") \/ Decide(w, "error", "checkpoint")
             \/ Plan(w, "retry_temporary") \/ NextJob(w)
    BY <1>13 DEF Request, RequestEnds
  <2>3. /\ batch' \in [Worker -> Seq(Job)] /\ task' \in [Worker -> Task]
        /\ pc' \in [Worker -> Steps] /\ Busy'
    BY <2>1, <2>2, DecideType, PlanType, NextJobType DEF Values, ProcessorSteps, Plans
  <2>4. portal' \in [Job -> Portal]
    <3>1. Current(w) \in Job
      BY <2>1, CurrentJob DEF TypeOK, Current
    <3> DEFINE p == portal[Current(w)]
               n == p.calls + 1
    <3>2. p \in Portal /\ n \in Nat
      BY <3>1 DEF TypeOK, Portal
    <3>3. portal' = IF c.done THEN [portal EXCEPT ![Current(w)] = [p EXCEPT !.calls = n]]
                    ELSE portal
      BY <2>2, <3>1 DEF TypeOK
    <3> HIDE DEF p, n
    <3>4. [p EXCEPT !.calls = n] \in Portal
      BY <3>2 DEF Portal
    <3> QED
      BY <3>3, <3>4 DEF TypeOK
  <2> QED
    BY <1>13, <2>3, <2>4 DEF Request, TypeOK
<1>14. ASSUME NEW w \in Worker, Checkpoint(w) PROVE TypeInv'
  <2>1. batch[w] # <<>>
    BY <1>14 DEF Checkpoint, Busy, ProcessorSteps
  <2>2. Current(w) \in Job
    BY <2>1, CurrentJob DEF TypeOK, Current
  <2>3. [row[Current(w)] EXCEPT !.requestDone = TRUE, !.values = task[w].values] \in Row
    BY <2>2 DEF TypeOK, Row, Task
  <2>4. row' \in [Job -> Row]
    BY <1>14, <2>2, <2>3, TransitionRow DEF Checkpoint, SaveProcessingResult, TypeOK
  <2>5. pc' \in [Worker -> Steps] /\ Busy'
    BY <1>14, <2>1 DEF Checkpoint, Goto, TypeOK, Busy, Steps, ProcessorSteps
  <2> QED
    BY <1>14, <2>4, <2>5 DEF Checkpoint, TypeOK
<1>15. ASSUME NEW w \in Worker, Poll(w) PROVE TypeInv'
  <2>1. batch[w] # <<>>
    BY <1>15 DEF Poll, Busy, ProcessorSteps
  <2>2. \/ Decide(w, "completed", "deliver") \/ Plan(w, "poll")
        \/ Decide(w, "timeout", "notify") \/ Plan(w, "retry_temporary")
        \/ Decide(w, "error", "notify") \/ Plan(w, "fail") \/ NextJob(w)
    BY <1>15 DEF Poll
  <2>3. /\ batch' \in [Worker -> Seq(Job)] /\ task' \in [Worker -> Task]
        /\ pc' \in [Worker -> Steps] /\ Busy'
    BY <2>1, <2>2, DecideType, PlanType, NextJobType DEF Values, ProcessorSteps, Plans
  <2> QED
    BY <1>15, <2>3 DEF Poll, TypeOK
<1>16. ASSUME NEW w \in Worker, Notify(w) PROVE TypeInv'
  <2>1. batch[w] # <<>>
    BY <1>16 DEF Notify, Busy, ProcessorSteps
  <2>2. portal' \in [Job -> Portal]
    <3>1. Current(w) \in Job
      BY <2>1, CurrentJob DEF TypeOK, Current
    <3> DEFINE p == portal[Current(w)]
               n == IF p.notices < NoticeCap THEN p.notices + 1 ELSE p.notices
    <3>2. p \in Portal /\ p.notices \in 0..NoticeCap
      BY <3>1 DEF TypeOK, Portal
    <3>3. n \in 0..NoticeCap
      BY <3>2, JobsAssumption
    <3>4. portal' = [portal EXCEPT ![Current(w)] = [p EXCEPT !.notices = n]]
      BY <1>16, <3>1 DEF Notify, TypeOK
    <3> HIDE DEF p, n
    <3>5. [p EXCEPT !.notices = n] \in Portal
      BY <3>2, <3>3 DEF Portal
    <3> QED
      BY <3>4, <3>5 DEF TypeOK
  <2>3. pc' \in [Worker -> Steps] /\ Busy'
    BY <1>16, <2>1 DEF Notify, Goto, TypeOK, Busy, Steps, ProcessorSteps
  <2> QED
    BY <1>16, <2>2, <2>3 DEF Notify, TypeOK
<1>17. ASSUME NEW w \in Worker, Deliver(w) PROVE TypeInv'
  <2>1. batch[w] # <<>>
    BY <1>17 DEF Deliver, Busy, ProcessorSteps
  <2>2. PICK c \in PortalCalls :
          /\ portal' = IF c.done
                       THEN [portal EXCEPT ![Current(w)].token = "used",
                                           ![Current(w)].result = task[w].values]
                       ELSE portal
          /\ NextJob(w) \/ Plan(w, DeliveryPlan(Current(w), task[w], c))
    BY <1>17 DEF Deliver
  <2>3. DeliveryPlan(Current(w), task[w], c) \in Plans
    BY DEF DeliveryPlan, ShortPausePlan, SubscriptionPlan, Plans
  <2>4. /\ batch' \in [Worker -> Seq(Job)] /\ task' \in [Worker -> Task]
        /\ pc' \in [Worker -> Steps] /\ Busy'
    BY <2>1, <2>2, <2>3, PlanType, NextJobType
  <2>5. task[w].values \in Values
    BY DEF TypeOK, Task
  <2>6. portal' \in [Job -> Portal]
    BY <2>2, <2>5 DEF TypeOK, Portal
  <2> QED
    BY <1>17, <2>4, <2>6 DEF Deliver, TypeOK
<1>18. ASSUME NEW w \in Worker, Settle(w) PROVE TypeInv'
  <2>1. batch[w] # <<>>
    BY <1>18 DEF Settle, Busy, ProcessorSteps
  <2>2. Current(w) \in Job
    BY <2>1, CurrentJob DEF TypeOK, Current
  <2>3. row' \in [Job -> Row]
    BY <1>18, <2>2, SettledRow DEF TypeOK
  <2>4. NextJob(w)
    BY <1>18 DEF Settle
  <2> QED
    BY <1>18, <2>1, <2>3, <2>4, NextJobType DEF Settle, TypeOK
<1>19. ASSUME NEW w \in Worker, TransactionFails(w) PROVE TypeInv'
  <2>1. batch[w] # <<>>
    BY <1>19 DEF TransactionFails, Busy, ProcessorSteps
  <2> QED
    BY <1>19, <2>1, NextJobType DEF TransactionFails, TypeOK
<1>20. ASSUME NEW w \in Worker, Signal(w) PROVE TypeInv'
  BY <1>20 DEF Signal, TypeOK, Busy
<1>21. ASSUME NEW w \in Worker, Crash(w) PROVE TypeInv'
  BY <1>21, LeaveType DEF Crash
<1>22. ASSUME UNCHANGED vars PROVE TypeInv'
  BY <1>22 DEF vars, TypeOK, Busy
<1> QED
  BY <1>1, <1>2, <1>3, <1>4, <1>5, <1>6, <1>7, <1>8, <1>9, <1>10, <1>11, <1>12,
     <1>13, <1>14, <1>15, <1>16, <1>17, <1>18, <1>19, <1>20, <1>21, <1>22
     DEF Next, WorkerStep, Process

\* The queue's state is always well typed: in particular attempts never exceed
\* max_attempts, so no statement of the workers violates the table's CHECK
\* constraints, with any number of workers and however late they are.
THEOREM TypeCorrect == Spec => []TypeOK
<1>1. Spec => []TypeInv
  BY InitType, NextType, PTL DEF Spec
<1> QED
  BY <1>1, PTL DEF TypeInv
-----------------------------------------------------------------------------
(* Ended jobs.  Every way a step may change a row. *)

LEMMA RowSteps ==
  ASSUME TypeInv, [Next]_vars, NEW j \in Job
  PROVE  \/ row'[j] = row[j]
         \/ row[j].status = "absent"
         \/ row'[j] = Aged(row[j])
         \/ Stale(row[j]) /\ row'[j] = Recovered(row[j])
         \/ \E w \in Worker : Due(j) /\ row'[j] = Claimed(row[j], w)
         \/ row[j].status = "processing"
<1> USE DEF TypeInv
<1>1. ASSUME NEW i \in Job, Create(i) \/ Terminate(i)
      PROVE  row'[j] = row[j] \/ row[j].status = "absent"
  BY <1>1 DEF Create, Terminate, TypeOK
<1>2. ASSUME Tick
      PROVE  row'[j] = row[j] \/ row'[j] = Aged(row[j])
  BY <1>2 DEF Tick
<1>3. ASSUME NEW w \in Worker, Recover(w)
      PROVE  row'[j] = row[j] \/ (Stale(row[j]) /\ row'[j] = Recovered(row[j]))
  BY <1>3 DEF Recover
<1>4. ASSUME NEW w \in Worker, Claim(w)
      PROVE  row'[j] = row[j] \/ (Due(j) /\ row'[j] = Claimed(row[j], w))
  BY <1>4, ClaimedRows DEF TypeOK
<1>5. ASSUME NEW w \in Worker, Checkpoint(w)
      PROVE  row'[j] = row[j] \/ row[j].status = "processing"
  <2>1. Current(w) \in Job
    BY <1>5, CurrentJob DEF Checkpoint, Current, TypeOK, Busy, ProcessorSteps
  <2> QED
    BY <1>5, <2>1 DEF Checkpoint, SaveProcessingResult, Transition, TypeOK
<1>6. ASSUME NEW w \in Worker, Settle(w)
      PROVE  row'[j] = row[j] \/ row[j].status = "processing"
  <2>1. Current(w) \in Job
    BY <1>6, CurrentJob DEF Settle, Current, TypeOK, Busy, ProcessorSteps
  <2> QED
    BY <1>6, <2>1, SettledRow DEF TypeOK
<1>7. ASSUME NEW w \in Worker,
             \/ Start(w) \/ ShutDown(w) \/ SkipRecovery(w) \/ EndBatch(w) \/ Wake(w)
             \/ Load(w) \/ LoadNothing(w) \/ Request(w) \/ Poll(w) \/ Notify(w)
             \/ Deliver(w) \/ TransactionFails(w) \/ Signal(w) \/ Crash(w)
      PROVE  row' = row
  BY <1>7 DEF Start, ShutDown, SkipRecovery, EndBatch, Wake, Load, LoadNothing,
              Request, Poll, Notify, Deliver, TransactionFails, Signal, Crash, Leave
<1>8. ASSUME UNCHANGED vars
      PROVE  row' = row
  BY <1>8 DEF vars
<1> QED
  BY <1>1, <1>2, <1>3, <1>4, <1>5, <1>6, <1>7, <1>8 DEF Next, WorkerStep, Process

LEMMA TerminalStep ==
  ASSUME TypeInv, [Next]_vars, NEW j \in Job, row[j].status \in Terminal
  PROVE  /\ row'[j].status = row[j].status /\ row'[j].error = row[j].error
         /\ row'[j].values = row[j].values
<1>1. row'[j] = row[j] \/ row'[j] = Aged(row[j])
  BY RowSteps DEF Stale, Due, Terminal
<1>2. row[j] \in Row
  BY DEF TypeInv, TypeOK
<1> QED
  BY <1>1, <1>2, AgedRow

\* The outcome of an ended job is never rewritten, by any of the workers, in time
\* or late: the guard of _transition is enough, without a look at locked_by.
THEOREM OutcomeIsFinal == Spec => TerminalIsFinal
<1>1. TypeInv /\ [Next]_vars =>
        [\A j \in Job : row[j].status \in Terminal =>
           /\ row'[j].status = row[j].status /\ row'[j].error = row[j].error
           /\ row'[j].values = row[j].values]_vars
  BY TerminalStep
<1> QED
  BY <1>1, InitType, NextType, PTL DEF Spec, TerminalIsFinal
-----------------------------------------------------------------------------
(* Leases.  As long as no batch outlives its lease, a job in a worker's batch *)
(* is locked by that worker, so the copy the processor works on is as good as *)
(* the row.  The batch's jobs are distinct: the rest of a batch survives what *)
(* Settle does to its first job.                                              *)

Owned(j, w) ==
  row[j].status = "processing" /\ row[j].lockedBy = w /\ row[j].lease <= LeaseTimeout

BatchOwned == \A w \in Worker : \A i \in 1..Len(batch[w]) : Owned(batch[w][i], w)

BatchDistinct ==
  \A w \in Worker : \A i, k \in 1..Len(batch[w]) : i # k => batch[w][i] # batch[w][k]

CopyIsFresh ==
  \A w \in Worker : pc[w] \in ProcessorSteps => task[w].attempts = row[batch[w][1]].attempts

LeaseInv == BatchOwned /\ BatchDistinct /\ CopyIsFresh /\ NothingStranded

LEMMA BatchJob ==
  ASSUME TypeInv, NEW w \in Worker, NEW i \in 1..Len(batch[w])
  PROVE  batch[w][i] \in Job
BY DEF TypeInv, TypeOK

LEMMA FirstJob ==
  ASSUME TypeInv, NEW w \in Worker, batch[w] # <<>>
  PROVE  /\ Current(w) = batch[w][1] /\ Current(w) \in Job
         /\ 1 \in 1..Len(batch[w])
<1>1. batch[w] \in Seq(Job)
  BY DEF TypeInv, TypeOK
<1> QED
  BY <1>1, CurrentJob DEF Current

\* What worker w does to its current job is no business of the other batches.
LEMMA Apart ==
  ASSUME TypeInv, LeaseInv, NEW v \in Worker, NEW w \in Worker, v # w,
         batch[w] # <<>>, NEW i \in 1..Len(batch[v])
  PROVE  batch[v][i] # batch[w][1]
<1>1. Owned(batch[w][1], w) /\ Owned(batch[v][i], v)
  BY FirstJob DEF LeaseInv, BatchOwned
<1> QED
  BY <1>1 DEF Owned

\* A worker turns to its next job, having changed nothing but its current row.
LEMMA NextJobLease ==
  ASSUME TypeInv, LeaseInv, NEW w \in Worker, batch[w] # <<>>, NextJob(w),
         \A k \in Job : k # Current(w) => row'[k] = row[k]
  PROVE  BatchOwned' /\ BatchDistinct' /\ CopyIsFresh'
<1>1. /\ Current(w) = batch[w][1] /\ Len(batch[w]) \in Nat \ {0}
      /\ batch'[w] = Tail(batch[w]) /\ Len(batch'[w]) = Len(batch[w]) - 1
      /\ \A i \in 1..Len(batch'[w]) : batch'[w][i] = batch[w][i + 1]
  <2>1. batch[w] \in Seq(Job) /\ batch'[w] = Tail(batch[w])
    BY DEF TypeInv, TypeOK, NextJob
  <2> QED
    BY <2>1, CurrentJob DEF Current
<1>2. \A i \in 1..Len(batch'[w]) : i + 1 \in 1..Len(batch[w]) /\ i + 1 # 1
  BY <1>1
<1>3. \A i \in 1..Len(batch'[w]) : row'[batch'[w][i]] = row[batch[w][i + 1]]
  <2> SUFFICES ASSUME NEW i \in 1..Len(batch'[w])
               PROVE  row'[batch'[w][i]] = row[batch[w][i + 1]]
    OBVIOUS
  <2>1. i + 1 \in 1..Len(batch[w]) /\ 1 \in 1..Len(batch[w]) /\ i + 1 # 1
    BY <1>1, <1>2
  <2>2. batch[w][i + 1] # Current(w) /\ batch[w][i + 1] \in Job
    BY <1>1, <2>1, BatchJob DEF LeaseInv, BatchDistinct
  <2> QED
    BY <1>1, <2>2
<1>4. ASSUME NEW v \in Worker, v # w
      PROVE  /\ batch'[v] = batch[v] /\ pc'[v] = pc[v] /\ task'[v] = task[v]
             /\ \A i \in 1..Len(batch[v]) : row'[batch[v][i]] = row[batch[v][i]]
  <2>1. batch'[v] = batch[v] /\ pc'[v] = pc[v] /\ task'[v] = task[v]
    BY <1>4 DEF NextJob, Goto, TypeInv, TypeOK
  <2>2. \A i \in 1..Len(batch[v]) : batch[v][i] \in Job /\ batch[v][i] # Current(w)
    BY <1>1, <1>4, Apart, BatchJob
  <2> QED
    BY <2>1, <2>2
<1>5. BatchOwned'
  <2> SUFFICES ASSUME NEW v \in Worker, NEW i \in 1..Len(batch'[v])
               PROVE  Owned(batch[v][i], v)'
    BY DEF BatchOwned
  <2>1. CASE v = w
    BY <2>1, <1>2, <1>3 DEF LeaseInv, BatchOwned, Owned
  <2>2. CASE v # w
    BY <2>2, <1>4 DEF LeaseInv, BatchOwned, Owned
  <2> QED
    BY <2>1, <2>2
<1>6. BatchDistinct'
  <2> SUFFICES ASSUME NEW v \in Worker, NEW i \in 1..Len(batch'[v]),
                      NEW k \in 1..Len(batch'[v]), i # k
               PROVE  batch'[v][i] # batch'[v][k]
    BY DEF BatchDistinct
  <2>1. CASE v = w
    <3>1. /\ i + 1 \in 1..Len(batch[w]) /\ k + 1 \in 1..Len(batch[w]) /\ i + 1 # k + 1
          /\ batch'[w][i] = batch[w][i + 1] /\ batch'[w][k] = batch[w][k + 1]
      <4>1. i \in 1..Len(batch'[w]) /\ k \in 1..Len(batch'[w])
        BY <2>1
      <4> QED
        BY <1>1, <1>2, <4>1
    <3> QED
      BY <2>1, <3>1 DEF LeaseInv, BatchDistinct
  <2>2. CASE v # w
    BY <2>2, <1>4 DEF LeaseInv, BatchDistinct
  <2> QED
    BY <2>1, <2>2
<1>7. CopyIsFresh'
  <2> SUFFICES ASSUME NEW v \in Worker, pc'[v] \in ProcessorSteps
               PROVE  task'[v].attempts = row'[batch'[v][1]].attempts
    BY DEF CopyIsFresh
  <2>1. v # w
    BY DEF NextJob, Goto, TypeInv, TypeOK, ProcessorSteps
  <2>2. batch[v] # <<>> /\ pc[v] \in ProcessorSteps
    BY <2>1, <1>4 DEF TypeInv, Busy
  <2>3. 1 \in 1..Len(batch[v])
    BY <2>2, FirstJob
  <2> QED
    BY <2>1, <2>2, <2>3, <1>4 DEF LeaseInv, CopyIsFresh
<1> QED
  BY <1>5, <1>6, <1>7

\* A worker leaves and forgets its batch; the rows stay.
LEMMA LeaveLease ==
  ASSUME TypeInv, LeaseInv, NEW w \in Worker, Leave(w)
  PROVE  LeaseInv'
<1>1. row' = row /\ batch'[w] = <<>> /\ pc'[w] = "ended"
  BY DEF Leave, Goto, TypeInv, TypeOK
<1>2. \A v \in Worker : v # w =>
        batch'[v] = batch[v] /\ pc'[v] = pc[v] /\ task'[v] = task[v]
  BY DEF Leave, Goto, TypeInv, TypeOK
<1>3. BatchOwned' /\ BatchDistinct'
  BY <1>1, <1>2 DEF LeaseInv, BatchOwned, BatchDistinct, Owned
<1>4. CopyIsFresh'
  BY <1>1, <1>2 DEF LeaseInv, CopyIsFresh, ProcessorSteps
<1> QED
  BY <1>1, <1>3, <1>4 DEF LeaseInv, NothingStranded

\* A step inside the processor that leaves the table, the batch and the copy's
\* attempts alone.
LEMMA QuietLease ==
  ASSUME TypeInv, LeaseInv, NEW w \in Worker, row' = row, batch' = batch,
         \A v \in Worker : v # w => pc'[v] = pc[v] /\ task'[v] = task[v],
         pc'[w] \in ProcessorSteps =>
           pc[w] \in ProcessorSteps /\ task'[w].attempts = task[w].attempts
  PROVE  LeaseInv'
<1>1. BatchOwned' /\ BatchDistinct' /\ NothingStranded'
  BY DEF LeaseInv, BatchOwned, BatchDistinct, Owned, NothingStranded
<1>2. CopyIsFresh'
  BY DEF LeaseInv, CopyIsFresh
<1> QED
  BY <1>1, <1>2 DEF LeaseInv
\* Steps that change rows the batches do not hold.
LEMMA TableLease ==
  ASSUME TypeInv, LeaseInv, batch' = batch, task' = task,
         \A w \in Worker : pc'[w] \in ProcessorSteps => pc[w] \in ProcessorSteps,
         \A w \in Worker : \A i \in 1..Len(batch[w]) :
           /\ Owned(batch[w][i], w)'
           /\ row'[batch[w][i]].attempts = row[batch[w][i]].attempts
  PROVE  BatchOwned' /\ BatchDistinct' /\ CopyIsFresh'
<1>1. BatchOwned'
  BY DEF BatchOwned
<1>2. BatchDistinct'
  BY DEF LeaseInv, BatchDistinct
<1>3. CopyIsFresh'
  <2> SUFFICES ASSUME NEW w \in Worker, pc'[w] \in ProcessorSteps
               PROVE  task'[w].attempts = row'[batch'[w][1]].attempts
    BY DEF CopyIsFresh
  <2>1. pc[w] \in ProcessorSteps /\ 1 \in 1..Len(batch[w])
    BY FirstJob DEF TypeInv, Busy
  <2> QED
    BY <2>1 DEF LeaseInv, CopyIsFresh
<1> QED
  BY <1>1, <1>2, <1>3

LEMMA InitLease == Init => LeaseInv
BY DEF Init, LeaseInv, BatchOwned, BatchDistinct, CopyIsFresh, NothingStranded,
       NoRow, ProcessorSteps

LEMMA NextLease ==
  ASSUME ~LeaseOverrun, TypeInv, LeaseInv, [Next]_vars
  PROVE  LeaseInv'
<1> USE DEF LeaseInv
<1>0. ASSUME NEW w \in Worker, NEW i \in 1..Len(batch[w])
      PROVE  /\ batch[w][i] \in Job /\ row[batch[w][i]] \in Row
             /\ Owned(batch[w][i], w)
  BY BatchJob DEF BatchOwned, TypeInv, TypeOK
<1>1. ASSUME NEW j \in Job, Create(j) PROVE LeaseInv'
  <2>1. \A w \in Worker : \A i \in 1..Len(batch[w]) : row'[batch[w][i]] = row[batch[w][i]]
    BY <1>0, <1>1 DEF Create, Owned, TypeInv, TypeOK
  <2>2. NothingStranded'
    <3>1. row'[j].attempts = 0 /\ \A k \in Job : k # j => row'[k] = row[k]
      BY <1>1 DEF Create, NoRow, TypeInv, TypeOK
    <3> QED
      BY <3>1, JobsAssumption DEF NothingStranded
  <2>3. batch' = batch /\ task' = task /\ pc' = pc
    BY <1>1 DEF Create
  <2>4. BatchOwned' /\ BatchDistinct' /\ CopyIsFresh'
    BY <1>0, <2>1, <2>3, TableLease DEF Owned
  <2> QED
    BY <2>2, <2>4
<1>2. ASSUME NEW j \in Job, Terminate(j) PROVE LeaseInv'
  BY <1>2 DEF Terminate, BatchOwned, BatchDistinct, CopyIsFresh, NothingStranded, Owned
<1>3. ASSUME Tick PROVE LeaseInv'
  <2>1. \A j \in Job : row'[j] = row[j] \/ row'[j] = Aged(row[j])
    BY <1>3 DEF Tick
  <2>2. NothingStranded'
    <3> SUFFICES ASSUME NEW j \in Job, row'[j].status \in {"pending", "retry"}
                 PROVE  row'[j].attempts < MaxAttempts
      BY DEF NothingStranded
    <3>1. row[j] \in Row
      BY DEF TypeInv, TypeOK
    <3>2. row'[j].status = row[j].status /\ row'[j].attempts = row[j].attempts
      BY <2>1, <3>1, AgedRow
    <3> QED
      BY <3>2 DEF NothingStranded
  <2>3. ASSUME NEW w \in Worker, NEW i \in 1..Len(batch[w])
        PROVE  /\ Owned(batch[w][i], w)'
               /\ row'[batch[w][i]].attempts = row[batch[w][i]].attempts
    <3> DEFINE j == batch[w][i]
    <3>1. row[j].lease < LeaseTimeout
      BY <1>3, <2>3 DEF Tick, Held
    <3>2. j \in Job /\ row[j] \in Row /\ Owned(j, w)
      BY <1>0, <2>3
    <3>3. row[j].lease \in Nat /\ Aged(row[j]).lease \in Nat /\ LeaseTimeout \in Nat
      BY <3>2, AgedRow, JobsAssumption DEF Row
    <3>4. Aged(row[j]).lease <= LeaseTimeout
      BY <3>1, <3>2, <3>3, AgedRow
    <3>5. batch' = batch
      BY <1>3 DEF Tick
    <3> QED
      BY <2>1, <3>2, <3>4, <3>5, AgedRow DEF Owned
  <2>4. BatchOwned' /\ BatchDistinct' /\ CopyIsFresh'
    BY <1>3, <2>3, TableLease DEF Tick
  <2> QED
    BY <2>2, <2>4
<1>4. ASSUME NEW w \in Worker, Start(w) PROVE LeaseInv'
  BY <1>4, QuietLease DEF Start, Goto, TypeInv, TypeOK, ProcessorSteps
<1>5. ASSUME NEW w \in Worker, ShutDown(w) PROVE LeaseInv'
  BY <1>5, LeaveLease DEF ShutDown
<1>6. ASSUME NEW w \in Worker, Recover(w) PROVE LeaseInv'
  <2>1. \A j \in Job : row'[j] = IF Stale(row[j]) THEN Recovered(row[j]) ELSE row[j]
    BY <1>6 DEF Recover
  <2>2. NothingStranded'
    <3> SUFFICES ASSUME NEW j \in Job, row'[j].status \in {"pending", "retry"}
                 PROVE  row'[j].attempts < MaxAttempts
      BY DEF NothingStranded
    <3>1. row[j] \in Row
      BY DEF TypeInv, TypeOK
    <3>2. CASE Stale(row[j])
      BY <2>1, <3>1, <3>2, RecoveredRow
    <3>3. CASE ~Stale(row[j])
      BY <2>1, <3>3 DEF NothingStranded
    <3> QED
      BY <3>2, <3>3
  <2>3. ASSUME NEW v \in Worker, NEW i \in 1..Len(batch[v])
        PROVE  row'[batch[v][i]] = row[batch[v][i]]
    <3>1. row[batch[v][i]].lease \in Nat /\ LeaseTimeout \in Nat
      BY <1>0, <2>3, JobsAssumption DEF Row
    <3>2. ~Stale(row[batch[v][i]])
      BY <1>0, <2>3, <3>1 DEF Owned, Stale
    <3> QED
      BY <1>0, <2>1, <2>3, <3>2
  <2>4. /\ batch' = batch /\ task' = task
        /\ \A v \in Worker : pc'[v] \in ProcessorSteps => pc[v] \in ProcessorSteps
    BY <1>6 DEF Recover, Goto, TypeInv, TypeOK, ProcessorSteps
  <2>5. BatchOwned' /\ BatchDistinct' /\ CopyIsFresh'
    BY <1>0, <2>3, <2>4, TableLease DEF Owned
  <2> QED
    BY <2>2, <2>5
<1>7. ASSUME NEW w \in Worker, SkipRecovery(w) PROVE LeaseInv'
  BY <1>7, QuietLease DEF SkipRecovery, Goto, TypeInv, TypeOK, ProcessorSteps
<1>8. ASSUME NEW w \in Worker, Claim(w) PROVE LeaseInv'
  <2>1. /\ \A v \in Worker : v # w => batch'[v] = batch[v]
        /\ \A i, k \in 1..Len(batch'[w]) : i # k => batch'[w][i] # batch'[w][k]
        /\ \A j \in Job :
             \/ ~(\E i \in 1..Len(batch'[w]) : batch'[w][i] = j) /\ row'[j] = row[j]
             \/ Due(j) /\ row'[j] = Claimed(row[j], w)
        /\ batch' \in [Worker -> Seq(Job)]
    BY <1>8, ClaimedRows DEF TypeInv, TypeOK
  <2>2. \A j \in Job : Due(j) => /\ Claimed(row[j], w).status = "processing"
                                 /\ Claimed(row[j], w).lockedBy = w
                                 /\ Claimed(row[j], w).lease = 0
    BY ClaimedRow DEF Due, TypeInv, TypeOK
  <2>3. ASSUME NEW v \in Worker, v # w, NEW i \in 1..Len(batch[v])
        PROVE  row'[batch[v][i]] = row[batch[v][i]]
    BY <1>0, <2>1, <2>3 DEF Owned, Due
  <2>4. ASSUME NEW i \in 1..Len(batch'[w])
        PROVE  Owned(batch[w][i], w)'
    <3>1. batch'[w][i] \in Job
      BY <2>1, <2>4
    <3>2. row'[batch'[w][i]] = Claimed(row[batch'[w][i]], w) /\ Due(batch'[w][i])
      BY <2>1, <2>4, <3>1
    <3> QED
      BY <2>2, <3>1, <3>2, JobsAssumption DEF Owned
  <2>5. BatchOwned'
    <3> SUFFICES ASSUME NEW v \in Worker, NEW i \in 1..Len(batch'[v])
                 PROVE  Owned(batch[v][i], v)'
      BY DEF BatchOwned
    <3>1. CASE v = w
      BY <2>4, <3>1
    <3>2. CASE v # w
      BY <1>0, <2>1, <2>3, <3>2 DEF Owned
    <3> QED
      BY <3>1, <3>2
  <2>6. BatchDistinct'
    BY <2>1 DEF BatchDistinct
  <2>7. CopyIsFresh'
    <3> SUFFICES ASSUME NEW v \in Worker, pc'[v] \in ProcessorSteps
                 PROVE  task'[v].attempts = row'[batch'[v][1]].attempts
      BY DEF CopyIsFresh
    <3>1. v # w /\ pc[v] \in ProcessorSteps /\ task'[v] = task[v]
      BY <1>8 DEF Claim, Goto, TypeInv, TypeOK, ProcessorSteps
    <3>2. 1 \in 1..Len(batch[v])
      BY <3>1, FirstJob DEF TypeInv, Busy
    <3> QED
      BY <2>1, <2>3, <3>1, <3>2 DEF CopyIsFresh
  <2>8. NothingStranded'
    BY <2>1, <2>2 DEF NothingStranded
  <2> QED
    BY <2>5, <2>6, <2>7, <2>8
<1>9. ASSUME NEW w \in Worker, EndBatch(w) PROVE LeaseInv'
  <2>1. CASE w \in OnceWorker
    BY <1>9, <2>1, LeaveLease DEF EndBatch
  <2>2. CASE w \notin OnceWorker
    BY <1>9, <2>2, QuietLease DEF EndBatch, Goto, TypeInv, TypeOK, ProcessorSteps
  <2> QED
    BY <2>1, <2>2
<1>10. ASSUME NEW w \in Worker, Wake(w) PROVE LeaseInv'
  BY <1>10, QuietLease DEF Wake, Goto, TypeInv, TypeOK, ProcessorSteps
<1>11. ASSUME NEW w \in Worker, Load(w) PROVE LeaseInv'
  <2>1. batch[w] # <<>> /\ row' = row /\ batch' = batch
    BY <1>11 DEF Load
  <2>2. task'[w].attempts = row[Current(w)].attempts
    BY <1>11 DEF Load, TypeInv, TypeOK
  <2>3. \A v \in Worker : v # w => pc'[v] = pc[v] /\ task'[v] = task[v]
    BY <1>11 DEF Load, Goto, TypeInv, TypeOK
  <2>4. BatchOwned' /\ BatchDistinct' /\ NothingStranded'
    BY <2>1 DEF BatchOwned, BatchDistinct, Owned, NothingStranded
  <2>5. CopyIsFresh'
    BY <2>1, <2>2, <2>3, FirstJob DEF CopyIsFresh
  <2> QED
    BY <2>4, <2>5
<1>12. ASSUME NEW w \in Worker, LoadNothing(w) PROVE LeaseInv'
  \* a held row is 'processing', so there is always something to load
  BY <1>0, <1>12, FirstJob DEF LoadNothing, Owned
<1>13. ASSUME NEW w \in Worker, batch[w] # <<>>, NextJob(w), row' = row PROVE LeaseInv'
  BY <1>13, NextJobLease DEF NothingStranded
<1>14. ASSUME NEW w \in Worker, NEW p \in Plans, pc[w] \in ProcessorSteps, Plan(w, p),
              row' = row
       PROVE  LeaseInv'
  <2>1. /\ batch' = batch
        /\ \A v \in Worker : v # w => pc'[v] = pc[v] /\ task'[v] = task[v]
        /\ task'[w].attempts = task[w].attempts
    BY <1>14 DEF Plan, Goto, TypeInv, TypeOK, Task
  <2> QED
    BY <1>14, <2>1, QuietLease
<1>15. ASSUME NEW w \in Worker, NEW v \in Values, NEW step \in ProcessorSteps,
              pc[w] \in ProcessorSteps, Decide(w, v, step), row' = row
       PROVE  LeaseInv'
  <2>1. /\ batch' = batch
        /\ \A u \in Worker : u # w => pc'[u] = pc[u] /\ task'[u] = task[u]
        /\ task'[w].attempts = task[w].attempts
    BY <1>15 DEF Decide, Goto, TypeInv, TypeOK, Task
  <2> QED
    BY <1>15, <2>1, QuietLease
<1>16. ASSUME NEW w \in Worker, Request(w) PROVE LeaseInv'
  <2>1. pc[w] \in ProcessorSteps /\ batch[w] # <<>> /\ row' = row
    BY <1>16 DEF Request, TypeInv, Busy, ProcessorSteps
  <2>2. \/ Decide(w, "completed", "checkpoint") \/ Decide(w, "error", "checkpoint")
        \/ Plan(w, "retry_temporary") \/ NextJob(w)
    BY <1>16 DEF Request, RequestEnds
  <2> QED
    BY <1>13, <1>14, <1>15, <2>1, <2>2 DEF Values, ProcessorSteps, Plans
<1>17. ASSUME NEW w \in Worker, Checkpoint(w) PROVE LeaseInv'
  <2>1. pc[w] \in ProcessorSteps /\ batch[w] # <<>>
    BY <1>17 DEF Checkpoint, TypeInv, Busy, ProcessorSteps
  <2>2. Current(w) \in Job
    BY <2>1, FirstJob
  <2>3. \A k \in Job : /\ row'[k].status = row[k].status
                       /\ row'[k].attempts = row[k].attempts
                       /\ row'[k].lease = row[k].lease
                       /\ row'[k].lockedBy = row[k].lockedBy
    BY <1>17, <2>2 DEF Checkpoint, SaveProcessingResult, Transition, TypeInv, TypeOK, Row
  <2>4. /\ batch' = batch /\ task' = task
        /\ \A v \in Worker : pc'[v] \in ProcessorSteps => pc[v] \in ProcessorSteps
    BY <1>17, <2>1 DEF Checkpoint, Goto, TypeInv, TypeOK
  <2>5. BatchOwned' /\ BatchDistinct' /\ CopyIsFresh'
    BY <1>0, <2>3, <2>4, TableLease DEF Owned
  <2>6. NothingStranded'
    BY <2>3 DEF NothingStranded
  <2> QED
    BY <2>5, <2>6
<1>18. ASSUME NEW w \in Worker, Poll(w) PROVE LeaseInv'
  <2>1. pc[w] \in ProcessorSteps /\ batch[w] # <<>> /\ row' = row
    BY <1>18 DEF Poll, TypeInv, Busy, ProcessorSteps
  <2>2. \/ Decide(w, "completed", "deliver") \/ Plan(w, "poll")
        \/ Decide(w, "timeout", "notify") \/ Plan(w, "retry_temporary")
        \/ Decide(w, "error", "notify") \/ Plan(w, "fail") \/ NextJob(w)
    BY <1>18 DEF Poll
  <2> QED
    BY <1>13, <1>14, <1>15, <2>1, <2>2 DEF Values, ProcessorSteps, Plans
<1>19. ASSUME NEW w \in Worker, Notify(w) PROVE LeaseInv'
  BY <1>19, QuietLease DEF Notify, Goto, TypeInv, TypeOK, ProcessorSteps
<1>20. ASSUME NEW w \in Worker, Deliver(w) PROVE LeaseInv'
  <2>1. pc[w] \in ProcessorSteps /\ batch[w] # <<>> /\ row' = row
    BY <1>20 DEF Deliver, TypeInv, Busy, ProcessorSteps
  <2>2. \E c \in PortalCalls : NextJob(w) \/ Plan(w, DeliveryPlan(Current(w), task[w], c))
    BY <1>20 DEF Deliver
  <2>3. \A c \in PortalCalls : DeliveryPlan(Current(w), task[w], c) \in Plans
    BY DEF DeliveryPlan, ShortPausePlan, SubscriptionPlan, Plans
  <2> QED
    BY <1>13, <1>14, <2>1, <2>2, <2>3
<1>21. ASSUME NEW w \in Worker, Settle(w) PROVE LeaseInv'
  <2> DEFINE j == Current(w)
  <2>1. batch[w] # <<>> /\ NextJob(w)
    BY <1>21 DEF Settle, TypeInv, Busy, ProcessorSteps
  <2>2. j \in Job /\ j = batch[w][1] /\ row[j] \in Row /\ task[w] \in Task
    BY <2>1, FirstJob DEF TypeInv, TypeOK
  <2>3. row[j].status = "processing" /\ task[w].attempts = row[j].attempts
    BY <1>0, <1>21, <2>1, <2>2, FirstJob DEF Settle, Owned, CopyIsFresh, ProcessorSteps
  <2>4. /\ \A k \in Job : k # j => row'[k] = row[k]
        /\ row'[j].status \in Terminal \cup {"retry"}
        /\ row'[j].status = "retry" =>
             \/ row'[j].attempts < row[j].attempts
             \/ row[j].attempts = 0
             \/ row'[j].attempts = row[j].attempts /\ task[w].attempts < MaxAttempts
        /\ Budgeted(row[j], row'[j])
        /\ row'[j] \in Row
    BY <1>21, <2>2, <2>3, SettledRow DEF TypeInv, TypeOK
  <2>5. row'[j].status = "retry" => row'[j].attempts < MaxAttempts
    <3>1. /\ row[j].attempts \in 0..MaxAttempts /\ row'[j].attempts \in 0..MaxAttempts
          /\ MaxAttempts \in Nat \ {0}
      BY <2>2, <2>4, JobsAssumption DEF Row
    <3> QED
      BY <2>3, <2>4, <3>1 DEF Budgeted
  <2>6. NothingStranded'
    BY <2>4, <2>5 DEF NothingStranded, Terminal
  <2> QED
    BY <2>1, <2>4, <2>6, NextJobLease
<1>22. ASSUME NEW w \in Worker, TransactionFails(w) PROVE LeaseInv'
  <2>1. batch[w] # <<>> /\ NextJob(w) /\ row' = row
    BY <1>22 DEF TransactionFails, TypeInv, Busy, ProcessorSteps
  <2> QED
    BY <1>13, <2>1
<1>23. ASSUME NEW w \in Worker, Signal(w) PROVE LeaseInv'
  BY <1>23, QuietLease DEF Signal
<1>24. ASSUME NEW w \in Worker, Crash(w) PROVE LeaseInv'
  BY <1>24, LeaveLease DEF Crash
<1>25. ASSUME UNCHANGED vars PROVE LeaseInv'
  BY <1>25 DEF vars, BatchOwned, BatchDistinct, CopyIsFresh, NothingStranded, Owned
<1> HIDE DEF LeaseInv
<1> QED
  BY <1>1, <1>2, <1>3, <1>4, <1>5, <1>6, <1>7, <1>8, <1>9, <1>10, <1>11, <1>12,
     <1>16, <1>17, <1>18, <1>19, <1>20, <1>21, <1>22, <1>23, <1>24, <1>25
     DEF Next, WorkerStep, Process

\* One worker per job: if no batch outlives its lease, a job in a worker's batch
\* is locked by that worker, however many workers claim, recover, crash and restart.
THEOREM LeaseProtects == ~LeaseOverrun => (Spec => []HolderOwnsLease)
<1> SUFFICES ASSUME ~LeaseOverrun PROVE Spec => []HolderOwnsLease
  OBVIOUS
<1>1. TypeInv /\ LeaseInv /\ [Next]_vars => TypeInv' /\ LeaseInv'
  BY NextType, NextLease
<1>2. LeaseInv => HolderOwnsLease
  BY DEF LeaseInv, BatchOwned, Owned, HolderOwnsLease, Held
<1> QED
  BY <1>1, <1>2, InitType, InitLease, PTL DEF Spec

\* No queued job is out of attempts, so none is passed over by the claim and by
\* the recovery for ever, if no batch outlives its lease.
THEOREM NoJobStranded == ~LeaseOverrun => (Spec => []NothingStranded)
<1> SUFFICES ASSUME ~LeaseOverrun PROVE Spec => []NothingStranded
  OBVIOUS
<1>1. TypeInv /\ LeaseInv /\ [Next]_vars => TypeInv' /\ LeaseInv'
  BY NextType, NextLease
<1>2. LeaseInv => NothingStranded
  BY DEF LeaseInv
<1> QED
  BY <1>1, <1>2, InitType, InitLease, PTL DEF Spec
=============================================================================
