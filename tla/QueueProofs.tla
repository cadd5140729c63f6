----------------------------- MODULE QueueProofs -----------------------------
(***************************************************************************)
(* What the job queue does to a business process: theorems for every set   *)
(* of jobs and workers, every batch size, budget and timeout.              *)
(*                                                                         *)
(* First how a row (RowEvolves), the portal (PortalEvolves) and a worker   *)
(* inside the processor (ProcessorMoves) may change in one step; then the  *)
(* invariants over the three.                                              *)
(***************************************************************************)
EXTENDS JobsProofs

-----------------------------------------------------------------------------
(* Rows *)

\* What no step but an insertion changes.
Same(before, after) ==
  /\ after.robot = before.robot /\ after.deadline = before.deadline
  /\ after.requestDone = before.requestDone

LEMMA SettledRest ==
  ASSUME TypeInv, NEW w \in Worker, Settle(w), NEW j \in Job, j = Current(w),
         row[j].status = "processing"
  PROVE  /\ Same(row[j], row'[j])
         /\ row'[j].status \in Terminal \cup {"retry"}
         /\ row'[j].status \in Terminal => row'[j].attempts = row[j].attempts
         /\ \/ row'[j].values = row[j].values /\ row'[j].status # "completed"
            \/ /\ task[w].plan = "complete"
               /\ row'[j].values = task[w].values /\ row'[j].status = "completed"
<1> DEFINE Good(r) ==
      /\ Same(row[j], r)
      /\ r.status \in Terminal \cup {"retry"}
      /\ r.status \in Terminal => r.attempts = row[j].attempts
      /\ \/ r.values = row[j].values /\ r.status # "completed"
         \/ /\ task[w].plan = "complete"
            /\ r.values = task[w].values /\ r.status = "completed"
<1>1. row[j] \in Row /\ row \in [Job -> Row]
  BY DEF TypeInv, TypeOK
<1>2. ASSUME NEW s \in {"failed", "expired"}, NEW e PROVE Good(Released(row[j], s, e))
  BY <1>1, <1>2 DEF Released, Row, Same, Terminal
<1>3. ASSUME NEW r, Transition(j, r), Good(r) PROVE Good(row'[j])
  BY <1>1, <1>3 DEF Transition
<1>4. ASSUME NEW e, MarkFailed(j, e) PROVE Good(row'[j])
  BY <1>2, <1>3, <1>4 DEF MarkFailed
<1>5. ASSUME MarkExpired(j) PROVE Good(row'[j])
  BY <1>2, <1>3, <1>5 DEF MarkExpired
<1>6. ASSUME NEW e, NEW d, ScheduleRetry(j, e, d) PROVE Good(row'[j])
  <2>1. Good([Released(row[j], "retry", e) EXCEPT !.due = d])
    BY <1>1 DEF Released, Row, Same, Terminal
  <2> QED
    BY <1>3, <1>6, <2>1 DEF ScheduleRetry
<1>7. ASSUME SchedulePoll(j) PROVE Good(row'[j])
  <2> DEFINE n == IF row[j].attempts > 0 THEN row[j].attempts - 1 ELSE 0
             r == [Released(row[j], "retry", "none") EXCEPT !.due = PollInterval,
                     !.attempts = IF @ > 0 THEN @ - 1 ELSE 0]
  <2>1. Good([Released(row[j], "retry", "none") EXCEPT !.due = PollInterval, !.attempts = n])
    BY <1>1 DEF Released, Row, Same, Terminal
  <2>2. r = [Released(row[j], "retry", "none") EXCEPT !.due = PollInterval, !.attempts = n]
    BY <1>1 DEF Released, Row
  <2> QED
    BY <1>3, <1>7, <2>1, <2>2 DEF SchedulePoll
<1>8. ASSUME task[w].plan = "complete", MarkCompleted(j, task[w].values) PROVE Good(row'[j])
  <2>1. Good([Released(row[j], "completed", "none") EXCEPT !.values = task[w].values])
    BY <1>1, <1>8 DEF Released, Row, Same, Terminal
  <2> QED
    BY <1>3, <1>8, <2>1 DEF MarkCompleted
<1>9. ASSUME NEW e, Retry(j, task[w], e) PROVE Good(row'[j])
  BY <1>4, <1>6, <1>9 DEF Retry
<1>10. Good(row'[j])
  BY <1>4, <1>5, <1>7, <1>8, <1>9 DEF Settle
<1> QED
  BY <1>10

LEMMA AgedDates ==
  ASSUME NEW r \in Row
  PROVE  /\ Aged(r).deadline = Down(r.deadline)
         /\ Aged(r).due = IF r.due > -OverdueCap THEN r.due - 1 ELSE r.due
BY DEF Aged, Row

LEMMA CheckpointRow ==
  ASSUME TypeInv, NEW w \in Worker, Checkpoint(w), NEW j \in Job
  PROVE  \/ row'[j] = row[j]
         \/ /\ j = Current(w) /\ row[j].status = "processing"
            /\ row'[j] = [row[j] EXCEPT !.requestDone = TRUE, !.values = task[w].values]
<1>1. Current(w) \in Job
  BY FirstJob DEF Checkpoint, TypeInv, Busy, ProcessorSteps
<1> QED
  BY <1>1 DEF Checkpoint, SaveProcessingResult, Transition, TypeInv, TypeOK

\* Who may change a row.  There are no other writers.
LEMMA RowWriters ==
  ASSUME TypeInv, [Next]_vars, NEW j \in Job, row[j].status # "absent"
  PROVE  \/ row'[j] = row[j]
         \/ Tick /\ row'[j] = Aged(row[j])
         \/ Stale(row[j]) /\ row'[j] = Recovered(row[j])
         \/ \E w \in Worker : Claim(w) /\ Due(j) /\ row'[j] = Claimed(row[j], w)
         \/ \E w \in Worker : Checkpoint(w) /\ j = Current(w)
         \/ \E w \in Worker : Settle(w) /\ j = Current(w) /\ row[j].status = "processing"
<1> USE DEF TypeInv
<1>1. ASSUME NEW i \in Job, Create(i) \/ Terminate(i)
      PROVE  row'[j] = row[j]
  BY <1>1 DEF Create, Terminate, TypeOK
<1>2. ASSUME Tick
      PROVE  row'[j] = Aged(row[j])
  BY <1>2 DEF Tick
<1>3. ASSUME NEW w \in Worker, Recover(w)
      PROVE  row'[j] = row[j] \/ (Stale(row[j]) /\ row'[j] = Recovered(row[j]))
  BY <1>3 DEF Recover
<1>4. ASSUME NEW w \in Worker, Claim(w)
      PROVE  row'[j] = row[j] \/ (Due(j) /\ row'[j] = Claimed(row[j], w))
  BY <1>4, ClaimedRows DEF TypeOK
<1>5. ASSUME NEW w \in Worker, Checkpoint(w)
      PROVE  row'[j] = row[j] \/ j = Current(w)
  BY <1>5, CheckpointRow
<1>6. ASSUME NEW w \in Worker, Settle(w)
      PROVE  row'[j] = row[j] \/ (j = Current(w) /\ row[j].status = "processing")
  <2>1. Current(w) \in Job /\ task[w] \in Task
    BY <1>6, CurrentJob DEF Settle, Current, TypeOK, Busy, ProcessorSteps
  <2> QED
    BY <1>6, <2>1, SettledRow DEF TypeOK
<1>7. ASSUME NEW w \in Worker,
             \/ Start(w) \/ ShutDown(w) \/ SkipRecovery(w) \/ EndBatch(w) \/ Wake(w)
             \/ Load(w) \/ LoadNothing(w) \/ Request(w) \/ Poll(w) \/ Notify(w)
             \/ Deliver(w) \/ TransactionFails(w) \/ Signal(w) \/ Crash(w)
      PROVE  row' = row
  BY <1>7 DEF Start, ShutDown, SkipRecovery, EndBatch, Wake, Load, LoadNothing,
              Request, Poll, Notify, Deliver, TransactionFails, Signal, Crash, Leave
<1>8. ASSUME UNCHANGED vars
      PROVE  row' = row
  BY <1>8 DEF vars
<1> QED
  BY <1>1, <1>2, <1>3, <1>4, <1>5, <1>6, <1>7, <1>8 DEF Next, WorkerStep, Process

\* The life of a row after its insertion.
LEMMA RowEvolves ==
  ASSUME TypeInv, [Next]_vars, NEW j \in Job, row[j].status # "absent"
  PROVE  /\ row'[j].robot = row[j].robot
         /\ row'[j].status # "absent"
         /\ row'[j].status = "pending" =>
              /\ row[j].status = "pending"
              /\ \/ row'[j].deadline = row[j].deadline /\ row'[j].due = row[j].due
                 \/ /\ row'[j].deadline = Down(row[j].deadline)
                    /\ row'[j].due = IF row[j].due > -OverdueCap THEN row[j].due - 1
                                     ELSE row[j].due
         /\ row'[j].deadline \in {row[j].deadline, Down(row[j].deadline)}
         /\ \/ row'[j].requestDone = row[j].requestDone /\ row'[j].values = row[j].values
               /\ (row'[j].status = "completed" => row[j].status = "completed")
            \/ \E w \in Worker :
                 /\ Checkpoint(w) /\ j = Current(w) /\ row[j].status = "processing"
                 /\ row'[j].status = "processing"
                 /\ row'[j].requestDone = TRUE /\ row'[j].values = task[w].values
            \/ \E w \in Worker :
                 /\ Settle(w) /\ j = Current(w) /\ row[j].status = "processing"
                 /\ task[w].plan = "complete" /\ row'[j].status = "completed"
                 /\ row'[j].requestDone = row[j].requestDone
                 /\ row'[j].values = task[w].values
<1>1. row[j] \in Row
  BY DEF TypeInv, TypeOK
<1>2. CASE row'[j] = row[j]
  BY <1>2
<1>3. CASE row'[j] = Aged(row[j])
  BY <1>1, <1>3, AgedRow, AgedDates
<1>4. CASE Stale(row[j]) /\ row'[j] = Recovered(row[j])
  <2>1. /\ Recovered(row[j]).status \in {"failed", "retry"}
        /\ Recovered(row[j]).robot = row[j].robot
        /\ Recovered(row[j]).deadline = row[j].deadline
        /\ Recovered(row[j]).requestDone = row[j].requestDone
        /\ Recovered(row[j]).values = row[j].values
    BY <1>1 DEF Recovered, Released, Row
  <2> QED
    BY <1>4, <2>1
<1>5. ASSUME NEW w \in Worker, Due(j), row'[j] = Claimed(row[j], w)
      PROVE  /\ Same(row[j], row'[j]) /\ row'[j].status = "processing"
             /\ row'[j].values = row[j].values
  <2> DEFINE n == row[j].attempts + 1
  <2>1. row'[j] = [row[j] EXCEPT !.status = "processing", !.lease = 0,
                                 !.lockedBy = w, !.attempts = n]
    BY <1>5 DEF Claimed
  <2> HIDE DEF n
  <2> QED
    BY <1>1, <2>1 DEF Row, Same
<1>6. ASSUME NEW w \in Worker, Checkpoint(w), j = Current(w)
      PROVE  \/ row'[j] = row[j]
             \/ /\ row[j].status = "processing" /\ row'[j].status = "processing"
                /\ row'[j].requestDone = TRUE /\ row'[j].values = task[w].values
                /\ row'[j].robot = row[j].robot /\ row'[j].deadline = row[j].deadline
  <2>1. \/ row'[j] = row[j]
        \/ /\ row[j].status = "processing"
           /\ row'[j] = [row[j] EXCEPT !.requestDone = TRUE, !.values = task[w].values]
    BY <1>6, CheckpointRow
  <2>2. ASSUME row[j].status = "processing",
               row'[j] = [row[j] EXCEPT !.requestDone = TRUE, !.values = task[w].values]
        PROVE  /\ row'[j].status = "processing" /\ row'[j].requestDone = TRUE
               /\ row'[j].values = task[w].values
               /\ row'[j].robot = row[j].robot /\ row'[j].deadline = row[j].deadline
    <3> DEFINE v == task[w].values
    <3>1. row'[j] = [row[j] EXCEPT !.requestDone = TRUE, !.values = v]
      BY <2>2
    <3> HIDE DEF v
    <3>2. /\ row'[j].status = "processing" /\ row'[j].requestDone = TRUE
          /\ row'[j].values = v
          /\ row'[j].robot = row[j].robot /\ row'[j].deadline = row[j].deadline
      BY <1>1, <2>2, <3>1 DEF Row
    <3> QED
      BY <3>2 DEF v
  <2> QED
    BY <2>1, <2>2
<1>7. ASSUME NEW w \in Worker, Settle(w), j = Current(w), row[j].status = "processing"
      PROVE  /\ Same(row[j], row'[j]) /\ row'[j].status \in Terminal \cup {"retry"}
             /\ \/ row'[j].values = row[j].values /\ row'[j].status # "completed"
                \/ /\ task[w].plan = "complete"
                   /\ row'[j].values = task[w].values /\ row'[j].status = "completed"
  BY <1>7, SettledRest
<1>8. CASE \E w \in Worker : Claim(w) /\ Due(j) /\ row'[j] = Claimed(row[j], w)
  BY <1>5, <1>8 DEF Same
<1>9. CASE \E w \in Worker : Checkpoint(w) /\ j = Current(w)
  BY <1>2, <1>6, <1>9
<1>10. CASE \E w \in Worker : Settle(w) /\ j = Current(w) /\ row[j].status = "processing"
  BY <1>7, <1>10 DEF Same, Terminal
<1> QED
  BY <1>2, <1>3, <1>4, <1>8, <1>9, <1>10, RowWriters

\* Before the insertion of its row a job does not change.
LEMMA AbsentRow ==
  ASSUME TypeInv, [Next]_vars, NEW j \in Job, row[j].status = "absent"
  PROVE  row'[j] = row[j] \/ Create(j)
<1> USE DEF TypeInv
<1>1. ASSUME NEW i \in Job, Create(i) \/ Terminate(i)
      PROVE  row'[j] = row[j] \/ Create(j)
  BY <1>1 DEF Create, Terminate, TypeOK
<1>2. ASSUME Tick
      PROVE  row'[j] = row[j]
  BY <1>2 DEF Tick
<1>3. ASSUME NEW w \in Worker, Recover(w)
      PROVE  row'[j] = row[j]
  BY <1>3 DEF Recover, Stale
<1>4. ASSUME NEW w \in Worker, Claim(w)
      PROVE  row'[j] = row[j]
  BY <1>4, ClaimedRows DEF TypeOK, Due
<1>5. ASSUME NEW w \in Worker, Checkpoint(w)
      PROVE  row'[j] = row[j]
  BY <1>5, CheckpointRow
<1>6. ASSUME NEW w \in Worker, Settle(w)
      PROVE  row'[j] = row[j]
  <2>1. Current(w) \in Job /\ task[w] \in Task
    BY <1>6, CurrentJob DEF Settle, Current, TypeOK, Busy, ProcessorSteps
  <2> QED
    BY <1>6, <2>1, SettledRow DEF TypeOK
<1>7. ASSUME NEW w \in Worker,
             \/ Start(w) \/ ShutDown(w) \/ SkipRecovery(w) \/ EndBatch(w) \/ Wake(w)
             \/ Load(w) \/ LoadNothing(w) \/ Request(w) \/ Poll(w) \/ Notify(w)
             \/ Deliver(w) \/ TransactionFails(w) \/ Signal(w) \/ Crash(w)
      PROVE  row' = row
  BY <1>7 DEF Start, ShutDown, SkipRecovery, EndBatch, Wake, Load, LoadNothing,
              Request, Poll, Notify, Deliver, TransactionFails, Signal, Crash, Leave
<1>8. ASSUME UNCHANGED vars
      PROVE  row' = row
  BY <1>8 DEF vars
<1> QED
  BY <1>1, <1>2, <1>3, <1>4, <1>5, <1>6, <1>7, <1>8 DEF Next, WorkerStep, Process

-----------------------------------------------------------------------------
(* Workers and the portal *)

\* The batch of a worker is claimed, gets shorter, or stays.
LEMMA BatchMoves ==
  ASSUME TypeInv, [Next]_vars, NEW w \in Worker
  PROVE  \/ batch'[w] = batch[w]
         \/ batch'[w] = <<>>
         \/ batch[w] # <<>> /\ batch'[w] = Tail(batch[w])
         \/ Claim(w)
<1> USE DEF TypeInv, TypeOK
<1>1. ASSUME NEW v \in Worker, batch[v] # <<>>, NextJob(v)
      PROVE  batch'[w] = batch[w] \/ (batch[w] # <<>> /\ batch'[w] = Tail(batch[w]))
  BY <1>1 DEF NextJob
<1>2. ASSUME NEW v \in Worker, Leave(v)
      PROVE  batch'[w] = batch[w] \/ batch'[w] = <<>>
  BY <1>2 DEF Leave
<1>3. ASSUME NEW v \in Worker, Claim(v)
      PROVE  batch'[w] = batch[w] \/ Claim(w)
  BY <1>3, ClaimedRows
<1>4. ASSUME NEW v \in Worker, pc[v] \in ProcessorSteps \/ LoadNothing(v) \/ TransactionFails(v)
      PROVE  batch[v] # <<>>
  BY <1>4 DEF Busy, LoadNothing, TransactionFails, ProcessorSteps
<1>5. ASSUME NEW v \in Worker, Request(v)
      PROVE  NextJob(v) \/ batch' = batch
  BY <1>5 DEF Request, RequestEnds, Decide, Plan
<1>6. ASSUME NEW v \in Worker, Poll(v)
      PROVE  NextJob(v) \/ batch' = batch
  BY <1>6 DEF Poll, Decide, Plan
<1>7. ASSUME NEW v \in Worker, Deliver(v)
      PROVE  NextJob(v) \/ batch' = batch
  BY <1>7 DEF Deliver, Plan
<1>8. ASSUME NEW v \in Worker, Settle(v) \/ LoadNothing(v) \/ TransactionFails(v)
      PROVE  NextJob(v)
  BY <1>8 DEF Settle, LoadNothing, TransactionFails
<1>9. ASSUME NEW v \in Worker, Request(v) \/ Poll(v) \/ Deliver(v) \/ Settle(v)
      PROVE  pc[v] \in ProcessorSteps
  BY <1>9 DEF Request, Poll, Deliver, Settle, ProcessorSteps
<1>10. ASSUME NEW v \in Worker, ShutDown(v) \/ EndBatch(v) \/ Crash(v)
       PROVE  Leave(v) \/ batch' = batch
  BY <1>10 DEF ShutDown, EndBatch, Crash
<1>11. ASSUME NEW v \in Worker,
              \/ Start(v) \/ Recover(v) \/ SkipRecovery(v) \/ Wake(v) \/ Load(v)
              \/ Checkpoint(v) \/ Notify(v) \/ Signal(v)
       PROVE  batch' = batch
  BY <1>11 DEF Start, Recover, SkipRecovery, Wake, Load, Checkpoint, Notify, Signal
<1>12. ASSUME NEW j \in Job, Create(j) \/ Terminate(j)
       PROVE  batch' = batch
  BY <1>12 DEF Create, Terminate
<1>13. ASSUME Tick \/ UNCHANGED vars
       PROVE  batch' = batch
  BY <1>13 DEF Tick, vars
<1> QED
  BY <1>1, <1>2, <1>3, <1>4, <1>5, <1>6, <1>7, <1>8, <1>9, <1>10, <1>11, <1>12, <1>13
     DEF Next, WorkerStep, Process

\* How a worker comes to be where it is inside the processor.
LEMMA ProcessorMoves ==
  ASSUME TypeInv, [Next]_vars, NEW w \in Worker, pc'[w] \in ProcessorSteps
  PROVE  /\ batch'[w] = batch[w]
         /\ \/ pc'[w] = pc[w] /\ task'[w] = task[w]
            \/ Load(w) \/ Request(w) \/ Checkpoint(w) \/ Poll(w) \/ Notify(w) \/ Deliver(w)
<1> USE DEF TypeInv, TypeOK
<1> DEFINE Rest == batch'[w] = batch[w] /\ pc'[w] = pc[w] /\ task'[w] = task[w]
<1>1. ASSUME NEW v \in Worker, NextJob(v)
      PROVE  Rest
  BY <1>1 DEF NextJob, Goto, ProcessorSteps
<1>2. ASSUME NEW v \in Worker, Leave(v)
      PROVE  Rest
  BY <1>2 DEF Leave, Goto, ProcessorSteps
<1>3. ASSUME NEW v \in Worker, Claim(v)
      PROVE  Rest
  BY <1>3, ClaimedRows DEF Claim, Goto, ProcessorSteps
<1>4. ASSUME NEW v \in Worker, Request(v)
      PROVE  Rest \/ (v = w /\ batch'[w] = batch[w])
  BY <1>1, <1>4 DEF Request, RequestEnds, Decide, Plan, Goto
<1>5. ASSUME NEW v \in Worker, Poll(v)
      PROVE  Rest \/ (v = w /\ batch'[w] = batch[w])
  BY <1>1, <1>5 DEF Poll, Decide, Plan, Goto
<1>6. ASSUME NEW v \in Worker, Deliver(v)
      PROVE  Rest \/ (v = w /\ batch'[w] = batch[w])
  BY <1>1, <1>6 DEF Deliver, Plan, Goto
<1>7. ASSUME NEW v \in Worker, Load(v) \/ Checkpoint(v) \/ Notify(v)
      PROVE  Rest \/ (v = w /\ batch'[w] = batch[w])
  BY <1>7 DEF Load, Checkpoint, Notify, Goto
<1>8. ASSUME NEW v \in Worker, Settle(v) \/ LoadNothing(v) \/ TransactionFails(v)
      PROVE  Rest
  BY <1>1, <1>8 DEF Settle, LoadNothing, TransactionFails
<1>9. ASSUME NEW v \in Worker,
              \/ Start(v) \/ Recover(v) \/ SkipRecovery(v) \/ Wake(v) \/ Signal(v)
              \/ ShutDown(v) \/ EndBatch(v) \/ Crash(v)
       PROVE  Rest
  BY <1>2, <1>9 DEF Start, Recover, SkipRecovery, Wake, Signal, ShutDown, EndBatch, Crash,
                    Goto, ProcessorSteps
<1>10. ASSUME NEW j \in Job, Create(j) \/ Terminate(j)
       PROVE  Rest
  BY <1>10 DEF Create, Terminate
<1>11. ASSUME Tick \/ UNCHANGED vars
       PROVE  Rest
  BY <1>11 DEF Tick, vars
<1> QED
  BY <1>3, <1>4, <1>5, <1>6, <1>7, <1>8, <1>9, <1>10, <1>11
     DEF Next, WorkerStep, Process

\* Who may change what a job has done on the portal.
LEMMA PortalEvolves ==
  ASSUME TypeInv, [Next]_vars, NEW j \in Job
  PROVE  \/ portal'[j] = portal[j]
         \/ /\ Terminate(j) /\ portal[j].token = "live"
            /\ portal'[j] = [portal[j] EXCEPT !.token = "gone"]
         \/ \E w \in Worker :
              /\ pc[w] = "request" /\ Request(w) /\ j = Current(w)
              /\ portal'[j] = [portal[j] EXCEPT !.calls = @ + 1]
         \/ \E w \in Worker :
              /\ pc[w] = "notify" /\ Notify(w) /\ j = Current(w)
              /\ portal'[j] = [portal[j] EXCEPT
                                 !.notices = IF @ < NoticeCap THEN @ + 1 ELSE @]
         \/ \E w \in Worker :
              /\ pc[w] = "deliver" /\ Deliver(w) /\ j = Current(w)
              /\ portal[j].token = "live"
              /\ portal'[j] = [portal[j] EXCEPT !.token = "used", !.result = task[w].values]
<1> USE DEF TypeInv, TypeOK
<1>1. ASSUME NEW i \in Job, Terminate(i)
      PROVE  \/ portal'[j] = portal[j]
             \/ /\ Terminate(j) /\ portal[j].token = "live"
                /\ portal'[j] = [portal[j] EXCEPT !.token = "gone"]
  BY <1>1 DEF Terminate
<1>2. ASSUME NEW w \in Worker, Request(w)
      PROVE  \/ portal'[j] = portal[j]
             \/ /\ pc[w] = "request" /\ j = Current(w)
                /\ portal'[j] = [portal[j] EXCEPT !.calls = @ + 1]
  BY <1>2 DEF Request
<1>3. ASSUME NEW w \in Worker, Notify(w)
      PROVE  \/ portal'[j] = portal[j]
             \/ /\ pc[w] = "notify" /\ j = Current(w)
                /\ portal'[j] = [portal[j] EXCEPT
                                   !.notices = IF @ < NoticeCap THEN @ + 1 ELSE @]
  BY <1>3 DEF Notify
<1>4. ASSUME NEW w \in Worker, Deliver(w)
      PROVE  \/ portal'[j] = portal[j]
             \/ /\ pc[w] = "deliver" /\ j = Current(w)
                /\ portal[j].token = "live"
                /\ portal'[j] = [portal[j] EXCEPT !.token = "used", !.result = task[w].values]
  <2>1. PICK c \in PortalCalls :
          /\ c.done => portal[Current(w)].token = "live"
          /\ portal' = IF c.done
                       THEN [portal EXCEPT ![Current(w)].token = "used",
                                           ![Current(w)].result = task[w].values]
                       ELSE portal
    BY <1>4 DEF Deliver
  <2>2. CASE c.done /\ j = Current(w)
    <3>1. portal' = [portal EXCEPT ![j].token = "used", ![j].result = task[w].values]
      BY <2>1, <2>2
    <3>2. portal[j] \in Portal
      OBVIOUS
    <3>3. portal'[j] = [portal[j] EXCEPT !.token = "used", !.result = task[w].values]
      BY <3>1, <3>2
    <3> QED
      BY <1>4, <2>1, <2>2, <3>3 DEF Deliver
  <2>3. CASE ~(c.done /\ j = Current(w))
    BY <2>1, <2>3
  <2> QED
    BY <2>2, <2>3
<1>5. ASSUME NEW w \in Worker,
             \/ Start(w) \/ ShutDown(w) \/ Recover(w) \/ SkipRecovery(w) \/ Claim(w)
             \/ EndBatch(w) \/ Wake(w) \/ Load(w) \/ LoadNothing(w) \/ Checkpoint(w)
             \/ Poll(w) \/ Settle(w) \/ TransactionFails(w) \/ Signal(w) \/ Crash(w)
      PROVE  portal' = portal
  BY <1>5 DEF Start, ShutDown, Recover, SkipRecovery, Claim, EndBatch, Wake, Load,
              LoadNothing, Checkpoint, Poll, Settle, TransactionFails, Signal, Crash, Leave
<1>6. ASSUME NEW i \in Job, Create(i)
      PROVE  portal' = portal
  BY <1>6 DEF Create
<1>7. ASSUME Tick \/ UNCHANGED vars
      PROVE  portal' = portal
  BY <1>7 DEF Tick, vars
<1> QED
  BY <1>1, <1>2, <1>3, <1>4, <1>5, <1>6, <1>7 DEF Next, WorkerStep, Process

-----------------------------------------------------------------------------
(* The invariant of jobs, workers and the portal.  It needs no lease.      *)

\* Only a REST request saves an outcome, and a saved outcome has values.
OnlyRestIsSaved ==
  \A j \in Job : row[j].requestDone =>
    row[j].robot = "rest_request" /\ row[j].values # "pending"

BlankBeforeInsertion == \A j \in Job : row[j].status = "absent" => row[j].attempts = 0

\* Nothing is done for a job before its first claim.
UntouchedBeforeClaim ==
  \A j \in Job : row[j].status \in {"absent", "pending"} =>
    portal[j].token # "used" /\ portal[j].notices = 0

ResultIsOfUse == \A j \in Job : portal[j].token = "used" <=> portal[j].result # "pending"

\* A short pause is not due before its delay is over, and claimed only then.
PauseIsKept ==
  \A j \in Job : row[j].robot = "short_pause" =>
    /\ row[j].status = "pending" => row[j].deadline = 0 \/ row[j].deadline <= row[j].due
    /\ row[j].status \notin {"absent", "pending"} => row[j].deadline = 0

TimeoutIsDue ==
  \A j \in Job :
    row[j].robot = "wait_field" /\ portal[j].token = "used" /\ portal[j].result = "timeout" =>
      row[j].deadline = 0

\* Every job of a batch has been claimed.
Begun ==
  \A w \in Worker : \A i \in 1..Len(batch[w]) :
    row[batch[w][i]].status \notin {"absent", "pending"}

RightRobot ==
  \A w \in Worker :
    /\ pc[w] \in {"request", "checkpoint"} => row[Current(w)].robot = "rest_request"
    /\ pc[w] = "poll" => row[Current(w)].robot = "wait_field"

\* The copy has values to resume the process with, a timeout only when it is one.
ValuesDecided ==
  \A w \in Worker : pc[w] \in ProcessorSteps =>
    /\ task[w].values # "pending"
    /\ row[Current(w)].robot = "wait_field" /\ task[w].values = "timeout" =>
         row[Current(w)].deadline = 0

\* Whoever is about to write "completed" has resumed the process, or another
\* worker has, with the values that will be written.
CompletionIsTrue ==
  \A w \in Worker : pc[w] = "settle" /\ task[w].plan = "complete" =>
    portal[Current(w)].token = "used" /\ portal[Current(w)].result = task[w].values

QueueInv ==
  /\ BlankBeforeInsertion
  /\ OnlyRestIsSaved /\ UntouchedBeforeClaim /\ ResultIsOfUse /\ PauseIsKept
  /\ TimeoutIsDue /\ CompletedWasResumed
  /\ Begun /\ RightRobot /\ ValuesDecided /\ CompletionIsTrue

LEMMA InitQueue == Init => QueueInv
<1> SUFFICES ASSUME Init PROVE QueueInv
  OBVIOUS
<1>1. \A j \in Job : row[j] = NoRow /\ portal[j] = NewPortal
  BY DEF Init
<1>2. \A w \in Worker : pc[w] = "off" /\ batch[w] = <<>>
  BY DEF Init
<1>3. BlankBeforeInsertion /\ OnlyRestIsSaved /\ UntouchedBeforeClaim /\ ResultIsOfUse
      /\ PauseIsKept /\ TimeoutIsDue /\ CompletedWasResumed
  BY <1>1 DEF NoRow, NewPortal, BlankBeforeInsertion, OnlyRestIsSaved, UntouchedBeforeClaim,
              ResultIsOfUse, PauseIsKept, TimeoutIsDue, CompletedWasResumed
<1>4. Begun /\ RightRobot /\ ValuesDecided /\ CompletionIsTrue
  BY <1>2 DEF Begun, RightRobot, ValuesDecided, CompletionIsTrue, ProcessorSteps
<1> QED
  BY <1>3, <1>4 DEF QueueInv

\* The current job of a worker in the processor.
LEMMA CurrentBegun ==
  ASSUME TypeInv, Begun, NEW w \in Worker, batch[w] # <<>> \/ pc[w] \in ProcessorSteps
  PROVE  /\ Current(w) \in Job /\ batch[w] # <<>>
         /\ row[Current(w)].status \notin {"absent", "pending"}
<1>1. batch[w] # <<>>
  BY DEF TypeInv, Busy
<1>2. 1 \in 1..Len(batch[w]) /\ Current(w) = batch[w][1] /\ Current(w) \in Job
  BY <1>1, FirstJob
<1> QED
  BY <1>1, <1>2 DEF Begun

\* A process that was resumed stays resumed, with the same values.
LEMMA UsedStays ==
  ASSUME TypeInv, [Next]_vars, NEW j \in Job, portal[j].token = "used"
  PROVE  portal'[j].token = "used" /\ portal'[j].result = portal[j].result
<1>1. portal[j] \in Portal
  BY DEF TypeInv, TypeOK
<1>2. CASE portal'[j] = portal[j]
  BY <1>2
<1>3. ASSUME portal'[j] = [portal[j] EXCEPT !.calls = @ + 1]
      PROVE  portal'[j].token = "used" /\ portal'[j].result = portal[j].result
  <2> DEFINE n == portal[j].calls + 1
  <2>1. portal'[j] = [portal[j] EXCEPT !.calls = n]
    BY <1>3
  <2> HIDE DEF n
  <2> QED
    BY <1>1, <2>1 DEF Portal
<1>4. ASSUME portal'[j] = [portal[j] EXCEPT !.notices = IF @ < NoticeCap THEN @ + 1 ELSE @]
      PROVE  portal'[j].token = "used" /\ portal'[j].result = portal[j].result
  <2> DEFINE n == IF portal[j].notices < NoticeCap THEN portal[j].notices + 1
                  ELSE portal[j].notices
  <2>1. portal'[j] = [portal[j] EXCEPT !.notices = n]
    BY <1>4
  <2> HIDE DEF n
  <2> QED
    BY <1>1, <2>1 DEF Portal
<1> QED
  BY <1>2, <1>3, <1>4, PortalEvolves

\* What a step of the processor does to the worker itself.
LEMMA Turns ==
  ASSUME TypeInv, NEW w \in Worker
  PROVE  /\ \A p : Plan(w, p) => /\ pc'[w] = "settle" /\ task'[w].plan = p
                                 /\ task'[w].values = task[w].values
         /\ \A v, step : Decide(w, v, step) => pc'[w] = step /\ task'[w].values = v
         /\ NextJob(w) => pc'[w] = "next"
BY DEF TypeInv, TypeOK, Task, Plan, Decide, NextJob, Goto

LEMMA NextBlank ==
  ASSUME TypeInv, QueueInv, [Next]_vars
  PROVE  BlankBeforeInsertion'
<1> SUFFICES ASSUME NEW j \in Job, row'[j].status = "absent"
             PROVE  row'[j].attempts = 0
  BY DEF BlankBeforeInsertion
<1>1. Create(j) => row'[j].status = "pending"
  BY DEF Create, NoRow, TypeInv, TypeOK
<1>2. row[j].status = "absent" /\ row'[j] = row[j]
  BY <1>1, AbsentRow, RowEvolves
<1> QED
  BY <1>2 DEF QueueInv, BlankBeforeInsertion

LEMMA NextOnlyRest ==
  ASSUME TypeInv, QueueInv, [Next]_vars
  PROVE  OnlyRestIsSaved'
<1> SUFFICES ASSUME NEW j \in Job, row'[j].requestDone
             PROVE  row'[j].robot = "rest_request" /\ row'[j].values # "pending"
  BY DEF OnlyRestIsSaved
<1> USE DEF QueueInv
<1>1. CASE row[j].status = "absent"
  <2>1. ~Create(j)
    BY DEF Create, NoRow, TypeInv, TypeOK
  <2> QED
    BY <1>1, <2>1, AbsentRow DEF OnlyRestIsSaved
<1>2. CASE row[j].status # "absent"
  <2>1. ASSUME NEW w \in Worker, Checkpoint(w), j = Current(w), row'[j].values = task[w].values
        PROVE  row[j].robot = "rest_request" /\ row'[j].values # "pending"
    BY <2>1 DEF Checkpoint, RightRobot, ValuesDecided, ProcessorSteps
  <2>2. ASSUME NEW w \in Worker, Settle(w), row'[j].values = task[w].values
        PROVE  row'[j].values # "pending"
    BY <2>2 DEF Settle, ValuesDecided, ProcessorSteps
  <2> QED
    BY <1>2, <2>1, <2>2, RowEvolves DEF OnlyRestIsSaved
<1> QED
  BY <1>1, <1>2

LEMMA NextUntouched ==
  ASSUME TypeInv, QueueInv, [Next]_vars
  PROVE  UntouchedBeforeClaim'
<1> SUFFICES ASSUME NEW j \in Job, row'[j].status \in {"absent", "pending"}
             PROVE  portal'[j].token # "used" /\ portal'[j].notices = 0
  BY DEF UntouchedBeforeClaim
<1> USE DEF QueueInv
<1>1. row[j].status \in {"absent", "pending"}
  BY RowEvolves
<1>2. portal[j] \in Portal /\ portal[j].token # "used" /\ portal[j].notices = 0
  BY <1>1 DEF UntouchedBeforeClaim, TypeInv, TypeOK
<1>3. \A w \in Worker : pc[w] \in {"notify", "deliver"} => j # Current(w)
  BY <1>1, CurrentBegun DEF ProcessorSteps
<1>4. ASSUME portal'[j] = [portal[j] EXCEPT !.calls = @ + 1]
      PROVE  portal'[j].token # "used" /\ portal'[j].notices = 0
  <2> DEFINE n == portal[j].calls + 1
  <2>1. portal'[j] = [portal[j] EXCEPT !.calls = n]
    BY <1>4
  <2> HIDE DEF n
  <2> QED
    BY <1>2, <2>1 DEF Portal
<1>5. ASSUME portal'[j] = [portal[j] EXCEPT !.token = "gone"]
      PROVE  portal'[j].token # "used" /\ portal'[j].notices = 0
  BY <1>2, <1>5 DEF Portal
<1> QED
  BY <1>2, <1>3, <1>4, <1>5, PortalEvolves

LEMMA NextOfUse ==
  ASSUME TypeInv, QueueInv, [Next]_vars
  PROVE  ResultIsOfUse'
<1> SUFFICES ASSUME NEW j \in Job
             PROVE  portal'[j].token = "used" <=> portal'[j].result # "pending"
  BY DEF ResultIsOfUse
<1> USE DEF QueueInv
<1>1. portal[j] \in Portal /\ (portal[j].token = "used" <=> portal[j].result # "pending")
  BY DEF ResultIsOfUse, TypeInv, TypeOK
<1>2. CASE portal[j].token = "used"
  BY <1>1, <1>2, UsedStays
<1>3. CASE portal[j].token # "used"
  <2>1. ASSUME portal'[j] = [portal[j] EXCEPT !.token = "gone"]
        PROVE  portal'[j].token # "used" /\ portal'[j].result = "pending"
    BY <1>1, <1>3, <2>1 DEF Portal
  <2>2. ASSUME portal'[j] = [portal[j] EXCEPT !.calls = @ + 1]
        PROVE  portal'[j].token # "used" /\ portal'[j].result = "pending"
    <3> DEFINE n == portal[j].calls + 1
    <3>1. portal'[j] = [portal[j] EXCEPT !.calls = n]
      BY <2>2
    <3> HIDE DEF n
    <3> QED
      BY <1>1, <1>3, <3>1 DEF Portal
  <2>3. ASSUME portal'[j] = [portal[j] EXCEPT !.notices = IF @ < NoticeCap THEN @ + 1 ELSE @]
        PROVE  portal'[j].token # "used" /\ portal'[j].result = "pending"
    <3> DEFINE n == IF portal[j].notices < NoticeCap THEN portal[j].notices + 1
                    ELSE portal[j].notices
    <3>1. portal'[j] = [portal[j] EXCEPT !.notices = n]
      BY <2>3
    <3> HIDE DEF n
    <3> QED
      BY <1>1, <1>3, <3>1 DEF Portal
  <2>4. ASSUME NEW w \in Worker, pc[w] = "deliver",
               portal'[j] = [portal[j] EXCEPT !.token = "used", !.result = task[w].values]
        PROVE  portal'[j].token = "used" /\ portal'[j].result # "pending"
    <3>1. task[w].values # "pending"
      BY <2>4 DEF ValuesDecided, ProcessorSteps
    <3> QED
      BY <1>1, <2>4, <3>1 DEF Portal
  <2>5. CASE portal'[j] = portal[j]
    BY <1>1, <2>5
  <2> QED
    BY <2>1, <2>2, <2>3, <2>4, <2>5, PortalEvolves
<1> QED
  BY <1>2, <1>3

LEMMA NextPause ==
  ASSUME TypeInv, QueueInv, [Next]_vars
  PROVE  PauseIsKept'
<1> SUFFICES ASSUME NEW j \in Job, row'[j].robot = "short_pause"
             PROVE  /\ row'[j].status = "pending" =>
                         row'[j].deadline = 0 \/ row'[j].deadline <= row'[j].due
                    /\ row'[j].status \notin {"absent", "pending"} => row'[j].deadline = 0
  BY DEF PauseIsKept
<1> USE DEF QueueInv
<1>0. row[j] \in Row
  BY DEF TypeInv, TypeOK
<1>1. CASE row[j].status = "absent"
  <2>1. CASE row'[j] = row[j]
    BY <1>1, <2>1
  <2>2. CASE Create(j)
    <3>1. PICK robot \in Robots :
            row' = [row EXCEPT ![j] = [NoRow EXCEPT !.robot = robot,
                                                    !.status = "pending",
                                                    !.due = InitialDue(robot),
                                                    !.deadline = InitialDeadline(robot)]]
      BY <2>2 DEF Create
    <3> DEFINE due == InitialDue(robot)
               deadline == InitialDeadline(robot)
    <3>2. row'[j] = [NoRow EXCEPT !.robot = robot, !.status = "pending", !.due = due,
                                  !.deadline = deadline]
      BY <3>1 DEF TypeInv, TypeOK
    <3> HIDE DEF due, deadline
    <3>3. /\ row'[j].robot = robot /\ row'[j].status = "pending"
          /\ row'[j].due = due /\ row'[j].deadline = deadline
      BY <3>2 DEF NoRow
    <3>4. due = InitialDelay /\ deadline = InitialDelay
      BY <3>3 DEF due, deadline, InitialDue, InitialDeadline
    <3> QED
      BY <3>3, <3>4, JobsAssumption
  <2> QED
    BY <1>1, <2>1, <2>2, AbsentRow
<1>2. CASE row[j].status # "absent"
  <2>0. /\ row[j].robot = "short_pause" /\ row[j].deadline \in Nat /\ row[j].due \in Int
        /\ Down(0) = 0 /\ OverdueCap \in Nat
    <3>1. row[j].robot = "short_pause"
      BY <1>2, RowEvolves
    <3>2. row[j].deadline \in Nat /\ row[j].due \in Int
      BY <1>0 DEF Row
    <3> QED
      BY <3>1, <3>2, JobsAssumption DEF Down
  <2>1. CASE row[j].status # "pending"
    <3>1. row[j].deadline = 0
      BY <1>2, <2>0, <2>1 DEF PauseIsKept
    <3> QED
      BY <1>2, <2>0, <2>1, <3>1, RowEvolves
  <2>2. CASE row[j].status = "pending" /\ row'[j].status = "pending"
    <3>1. row[j].deadline = 0 \/ row[j].deadline <= row[j].due
      BY <2>0, <2>2 DEF PauseIsKept
    <3>2. \/ row'[j].deadline = row[j].deadline /\ row'[j].due = row[j].due
          \/ /\ row'[j].deadline = Down(row[j].deadline)
             /\ row'[j].due = IF row[j].due > -OverdueCap THEN row[j].due - 1
                              ELSE row[j].due
      BY <1>2, <2>2, RowEvolves
    <3> QED
      BY <2>0, <2>2, <3>1, <3>2 DEF Down
  <2>3. CASE row[j].status = "pending" /\ row'[j].status # "pending"
    <3>1. ASSUME NEW w \in Worker, Due(j), row'[j] = Claimed(row[j], w)
          PROVE  row'[j].deadline = 0
      <4>1. row[j].deadline = 0
        BY <2>0, <2>3, <3>1 DEF PauseIsKept, Due
      <4> DEFINE n == row[j].attempts + 1
      <4>2. row'[j] = [row[j] EXCEPT !.status = "processing", !.lease = 0,
                                     !.lockedBy = w, !.attempts = n]
        BY <3>1 DEF Claimed
      <4> HIDE DEF n
      <4> QED
        BY <1>0, <4>1, <4>2 DEF Row
    <3>2. \A w \in Worker : Checkpoint(w) => j # Current(w)
      BY <2>3, CurrentBegun DEF Checkpoint, ProcessorSteps
    <3>3. Aged(row[j]).status = row[j].status
      BY <1>0, AgedRow
    <3> QED
      BY <1>2, <2>3, <3>1, <3>2, <3>3, RowWriters DEF Stale
  <2> QED
    BY <2>1, <2>2, <2>3
<1> QED
  BY <1>1, <1>2

LEMMA NextTimeout ==
  ASSUME TypeInv, QueueInv, [Next]_vars
  PROVE  TimeoutIsDue'
<1> SUFFICES ASSUME NEW j \in Job, row'[j].robot = "wait_field",
                    portal'[j].token = "used", portal'[j].result = "timeout"
             PROVE  row'[j].deadline = 0
  BY DEF TimeoutIsDue
<1> USE DEF QueueInv
<1>1. row[j].status # "absent"
  <2>1. Create(j) => row'[j].status = "pending"
    BY DEF Create, NoRow, TypeInv, TypeOK
  <2>2. row'[j].status \notin {"absent", "pending"}
    BY NextUntouched DEF UntouchedBeforeClaim
  <2> QED
    BY <2>1, <2>2, AbsentRow
<1>2. /\ row[j].robot = "wait_field" /\ row[j].deadline \in Nat
      /\ row'[j].deadline \in {row[j].deadline, Down(row[j].deadline)} /\ Down(0) = 0
  <2>1. /\ row[j].robot = "wait_field"
        /\ row'[j].deadline \in {row[j].deadline, Down(row[j].deadline)}
    BY <1>1, RowEvolves
  <2>2. row[j].deadline \in Nat
    BY DEF TypeInv, TypeOK, Row
  <2> QED
    BY <2>1, <2>2 DEF Down
<1>3. CASE portal[j].token = "used"
  <2>1. portal[j].result = "timeout"
    BY <1>3, UsedStays
  <2>2. row[j].deadline = 0
    BY <1>2, <1>3, <2>1 DEF TimeoutIsDue
  <2> QED
    BY <1>2, <2>2
<1>4. CASE portal[j].token # "used"
  <2>1. portal[j] \in Portal /\ portal[j].result = "pending"
    BY <1>4 DEF ResultIsOfUse, TypeInv, TypeOK
  <2>2. portal'[j] # portal[j]
    BY <1>4
  <2>3. portal'[j] # [portal[j] EXCEPT !.token = "gone"]
    BY <2>1 DEF Portal
  <2>4. portal'[j] # [portal[j] EXCEPT !.calls = @ + 1]
    BY <1>4, <2>1 DEF Portal
  <2>5. portal'[j] # [portal[j] EXCEPT !.notices = IF @ < NoticeCap THEN @ + 1 ELSE @]
    BY <1>4, <2>1 DEF Portal
  <2>6. PICK w \in Worker :
          /\ pc[w] = "deliver" /\ j = Current(w)
          /\ portal'[j] = [portal[j] EXCEPT !.token = "used", !.result = task[w].values]
    BY <2>2, <2>3, <2>4, <2>5, PortalEvolves
  <2>7. task[w].values = "timeout"
    BY <2>1, <2>6 DEF Portal
  <2>8. row[j].deadline = 0
    BY <1>2, <2>6, <2>7 DEF ValuesDecided, ProcessorSteps
  <2> QED
    BY <1>2, <2>8
<1> QED
  BY <1>3, <1>4

LEMMA NextCompleted ==
  ASSUME TypeInv, QueueInv, [Next]_vars
  PROVE  CompletedWasResumed'
<1> SUFFICES ASSUME NEW j \in Job, row'[j].status = "completed"
             PROVE  portal'[j].token = "used" /\ portal'[j].result = row'[j].values
  BY DEF CompletedWasResumed
<1> USE DEF QueueInv
<1>1. row[j].status # "absent"
  <2>1. Create(j) => row'[j].status = "pending"
    BY DEF Create, NoRow, TypeInv, TypeOK
  <2> QED
    BY <2>1, AbsentRow
<1>2. CASE row'[j].values = row[j].values /\ row[j].status = "completed"
  BY <1>2, UsedStays DEF CompletedWasResumed
<1>3. ASSUME NEW w \in Worker, Settle(w), j = Current(w), task[w].plan = "complete",
             row'[j].values = task[w].values
      PROVE  portal'[j].token = "used" /\ portal'[j].result = row'[j].values
  BY <1>3, UsedStays DEF CompletionIsTrue, Settle
<1> QED
  BY <1>1, <1>2, <1>3, RowEvolves

LEMMA NextBegun ==
  ASSUME TypeInv, QueueInv, [Next]_vars
  PROVE  Begun'
<1> SUFFICES ASSUME NEW w \in Worker, NEW i \in 1..Len(batch'[w])
             PROVE  row'[batch'[w][i]].status \notin {"absent", "pending"}
  BY DEF Begun
<1> USE DEF QueueInv
<1>1. ASSUME NEW k \in 1..Len(batch[w])
      PROVE  row'[batch[w][k]].status \notin {"absent", "pending"}
  <2>1. batch[w][k] \in Job /\ row[batch[w][k]].status \notin {"absent", "pending"}
    BY <1>1, BatchJob DEF Begun
  <2> QED
    BY <2>1, RowEvolves
<1>2. CASE batch'[w] = batch[w]
  BY <1>1, <1>2
<1>3. CASE batch'[w] = <<>>
  BY <1>3
<1>4. CASE batch[w] # <<>> /\ batch'[w] = Tail(batch[w])
  <2>1. /\ Len(batch'[w]) = Len(batch[w]) - 1 /\ Len(batch[w]) \in Nat \ {0}
        /\ batch'[w][i] = batch[w][i + 1]
    BY <1>4, CurrentJob DEF TypeInv, TypeOK
  <2>2. i + 1 \in 1..Len(batch[w])
    BY <2>1
  <2> QED
    BY <1>1, <2>1, <2>2
<1>5. CASE Claim(w)
  <2>1. /\ batch'[w] \in Seq(Job)
        /\ \A j \in Job :
             \/ ~(\E k \in 1..Len(batch'[w]) : batch'[w][k] = j) /\ row'[j] = row[j]
             \/ Due(j) /\ row'[j] = Claimed(row[j], w)
    BY <1>5, ClaimedRows DEF TypeInv, TypeOK
  <2>2. batch'[w][i] \in Job
    BY <2>1
  <2>3. Due(batch'[w][i]) /\ row'[batch'[w][i]] = Claimed(row[batch'[w][i]], w)
    BY <2>1, <2>2
  <2> QED
    BY <2>2, <2>3, ClaimedRow DEF Due, TypeInv, TypeOK
<1> QED
  BY <1>2, <1>3, <1>4, <1>5, BatchMoves

\* A worker that stays in the processor keeps its job, and the job its robot.
LEMMA SameJob ==
  ASSUME TypeInv, Begun, [Next]_vars, NEW w \in Worker,
         batch[w] # <<>>, batch'[w] = batch[w]
  PROVE  /\ Current(w)' = Current(w) /\ Current(w) \in Job
         /\ row'[Current(w)].robot = row[Current(w)].robot
         /\ row[Current(w)].deadline = 0 => row'[Current(w)].deadline = 0
<1>1. Current(w) \in Job /\ row[Current(w)].status # "absent"
  BY CurrentBegun
<1>2. Current(w)' = Current(w) /\ Down(0) = 0
  BY DEF Current, Down
<1> QED
  BY <1>1, <1>2, RowEvolves

LEMMA NextRobot ==
  ASSUME TypeInv, QueueInv, [Next]_vars
  PROVE  RightRobot'
<1> SUFFICES ASSUME NEW w \in Worker, pc'[w] \in {"request", "checkpoint", "poll"}
             PROVE  /\ pc'[w] \in {"request", "checkpoint"} =>
                         row'[Current(w)'].robot = "rest_request"
                    /\ pc'[w] = "poll" => row'[Current(w)'].robot = "wait_field"
  BY DEF RightRobot
<1> USE DEF QueueInv
<1>1. pc'[w] \in ProcessorSteps
  BY DEF ProcessorSteps
<1>2. batch'[w] = batch[w] /\ batch'[w] # <<>>
  BY <1>1, ProcessorMoves, NextType DEF TypeInv, Busy
<1>3. Current(w)' = Current(w) /\ row'[Current(w)].robot = row[Current(w)].robot
  BY <1>2, SameJob
<1>4. CASE pc'[w] = pc[w]
  BY <1>3, <1>4 DEF RightRobot
<1>5. CASE Load(w)
  <2>1. pc'[w] = FirstStep(Current(w))
    BY <1>5 DEF Load, Goto, TypeInv, TypeOK
  <2>2. row[Current(w)].robot \in RobotCodes
    BY <1>2, FirstJob DEF TypeInv, TypeOK, Row
  <2> QED
    BY <1>3, <2>1, <2>2 DEF FirstStep, RobotCodes
<1>6. CASE Request(w)
  <2>1. pc'[w] = "checkpoint" /\ pc[w] = "request"
    BY <1>6, Turns DEF Request, RequestEnds
  <2> QED
    BY <1>3, <2>1 DEF RightRobot
<1>7. CASE Checkpoint(w) \/ Notify(w)
  BY <1>7 DEF Checkpoint, Notify, Goto, TypeInv, TypeOK
<1>8. CASE Poll(w)
  BY <1>8, Turns DEF Poll
<1>9. CASE Deliver(w)
  BY <1>9, Turns DEF Deliver
<1> QED
  BY <1>1, <1>4, <1>5, <1>6, <1>7, <1>8, <1>9, ProcessorMoves

LEMMA NextDecided ==
  ASSUME TypeInv, QueueInv, [Next]_vars
  PROVE  ValuesDecided'
<1> SUFFICES ASSUME NEW w \in Worker, pc'[w] \in ProcessorSteps
             PROVE  /\ task'[w].values # "pending"
                    /\ row'[Current(w)'].robot = "wait_field" /\ task'[w].values = "timeout" =>
                         row'[Current(w)'].deadline = 0
  BY DEF ValuesDecided
<1> USE DEF QueueInv
<1>1. batch'[w] = batch[w] /\ batch'[w] # <<>>
  BY ProcessorMoves, NextType DEF TypeInv, Busy
<1>2. /\ Current(w)' = Current(w) /\ row'[Current(w)].robot = row[Current(w)].robot
      /\ row[Current(w)].deadline = 0 => row'[Current(w)].deadline = 0
      /\ Current(w) \in Job
  BY <1>1, SameJob
<1>3. CASE pc[w] \in ProcessorSteps /\ task'[w].values = task[w].values
  BY <1>2, <1>3 DEF ValuesDecided
<1>4. CASE task'[w].values \in {"completed", "error"}
  BY <1>4
<1>5. CASE Load(w)
  <2>1. task'[w].values = IF row[Current(w)].requestDone THEN row[Current(w)].values
                          ELSE "completed"
    BY <1>5 DEF Load, TypeInv, TypeOK
  <2> QED
    BY <1>2, <2>1 DEF OnlyRestIsSaved
<1>6. CASE Request(w)
  <2>1. task'[w].values \in {"completed", "error", task[w].values} /\ pc[w] \in ProcessorSteps
    BY <1>6, Turns DEF Request, RequestEnds, ProcessorSteps
  <2> QED
    BY <1>3, <1>4, <2>1
<1>7. CASE Checkpoint(w) \/ Notify(w)
  <2>1. task'[w].values = task[w].values /\ pc[w] \in ProcessorSteps
    BY <1>7 DEF Checkpoint, Notify, ProcessorSteps
  <2> QED
    BY <1>3, <2>1
<1>8. CASE Poll(w)
  <2>1. /\ pc[w] \in ProcessorSteps
        /\ \/ task'[w].values \in {"completed", "error", task[w].values}
           \/ task'[w].values = "timeout" /\ row[Current(w)].deadline = 0
    BY <1>8, Turns DEF Poll, ProcessorSteps
  <2> QED
    BY <1>2, <1>3, <1>4, <2>1
<1>9. CASE Deliver(w)
  <2>1. task'[w].values = task[w].values /\ pc[w] \in ProcessorSteps
    BY <1>9, Turns DEF Deliver, ProcessorSteps
  <2> QED
    BY <1>3, <2>1
<1>10. CASE pc'[w] = pc[w] /\ task'[w] = task[w]
  BY <1>3, <1>10
<1> QED
  BY <1>5, <1>6, <1>7, <1>8, <1>9, <1>10, ProcessorMoves

LEMMA NextCompletion ==
  ASSUME TypeInv, QueueInv, [Next]_vars
  PROVE  CompletionIsTrue'
<1> SUFFICES ASSUME NEW w \in Worker, pc'[w] = "settle", task'[w].plan = "complete"
             PROVE  /\ portal'[Current(w)'].token = "used"
                    /\ portal'[Current(w)'].result = task'[w].values
  BY DEF CompletionIsTrue
<1> USE DEF QueueInv
<1>1. pc'[w] \in ProcessorSteps
  BY DEF ProcessorSteps
<1>2. batch'[w] = batch[w] /\ batch'[w] # <<>>
  BY <1>1, ProcessorMoves, NextType DEF TypeInv, Busy
<1>3. Current(w)' = Current(w) /\ Current(w) \in Job
  BY <1>2, SameJob
<1>4. CASE pc'[w] = pc[w] /\ task'[w] = task[w]
  BY <1>3, <1>4, UsedStays DEF CompletionIsTrue
<1>5. CASE Load(w)
  <2>1. FirstStep(Current(w)) # "settle"
    <3>1. row[Current(w)].robot \in RobotCodes
      BY <1>3 DEF TypeInv, TypeOK, Row
    <3> QED
      BY <3>1 DEF FirstStep, RobotCodes
  <2>2. task'[w].plan = "fail"
    BY <1>5, <2>1 DEF Load, Goto, TypeInv, TypeOK
  <2> QED
    BY <2>2
<1>6. CASE Request(w)
  BY <1>6, Turns DEF Request, RequestEnds
<1>7. CASE Checkpoint(w) \/ Notify(w)
  BY <1>7 DEF Checkpoint, Notify, Goto, TypeInv, TypeOK
<1>8. CASE Poll(w)
  BY <1>8, Turns DEF Poll
<1>9. CASE Deliver(w)
  <2> DEFINE j == Current(w)
  <2>1. PICK c \in PortalCalls :
          /\ portal' = IF c.done
                       THEN [portal EXCEPT ![j].token = "used", ![j].result = task[w].values]
                       ELSE portal
          /\ NextJob(w) \/ Plan(w, DeliveryPlan(j, task[w], c))
    BY <1>9 DEF Deliver
  <2>2. DeliveryPlan(j, task[w], c) = "complete" /\ task'[w].values = task[w].values
    BY <2>1, Turns
  <2>3. c.done
    BY <2>2, ResultMeansDone DEF DeliveryPlan, ShortPausePlan, SubscriptionPlan, Confirmed
  <2>4. portal' = [portal EXCEPT ![j].token = "used", ![j].result = task[w].values]
    BY <2>1, <2>3
  <2>5. portal[j] \in Portal /\ j \in Job
    BY <1>3 DEF TypeInv, TypeOK
  <2> HIDE DEF j
  <2>6. portal'[j].token = "used" /\ portal'[j].result = task[w].values
    BY <2>4, <2>5 DEF TypeInv, TypeOK, Portal
  <2> QED
    BY <1>3, <2>2, <2>6 DEF j
<1> QED
  BY <1>1, <1>4, <1>5, <1>6, <1>7, <1>8, <1>9, ProcessorMoves

LEMMA NextQueue == TypeInv /\ QueueInv /\ [Next]_vars => TypeInv' /\ QueueInv'
BY NextType, NextBlank, NextOnlyRest, NextUntouched, NextOfUse, NextPause, NextTimeout, NextCompleted,
   NextBegun, NextRobot, NextDecided, NextCompletion DEF QueueInv

\* A row says "completed" only of a process that was resumed with its values,
\* whatever was lost, retried or done by another worker, leases overrun included.
THEOREM CompletedIsTrue == Spec => []CompletedWasResumed
BY InitType, InitQueue, NextQueue, PTL DEF Spec, QueueInv

\* No process is resumed before its delay is over, and no field wait reports a
\* timeout before its deadline, for any delays, polls, retries and overruns.
THEOREM NotBeforeTime == Spec => []NotResumedEarly
<1>1. TypeInv /\ QueueInv => NotResumedEarly
  <2> SUFFICES ASSUME TypeInv, QueueInv, NEW j \in Job, portal[j].token = "used",
                      row[j].robot # "rest_request"
               PROVE  \/ row[j].deadline = 0
                      \/ row[j].robot = "wait_field" /\ portal[j].result # "timeout"
    BY DEF NotResumedEarly
  <2>1. row[j].status \notin {"absent", "pending"}
    BY DEF QueueInv, UntouchedBeforeClaim
  <2>2. row[j].robot \in {"short_pause", "wait_field"}
    BY DEF TypeInv, TypeOK, Row, RobotCodes
  <2> QED
    BY <2>1, <2>2 DEF QueueInv, PauseIsKept, TimeoutIsDue
<1> QED
  BY <1>1, InitType, InitQueue, NextQueue, PTL DEF Spec

\* A REST request that is sent again after a delay has not run its method, for
\* any number of workers and whatever the portal answers.
THEOREM RetriesAreUnsent == Spec => RetriesOnlyUnsent
<1>1. TypeInv /\ [Next]_vars =>
        \A w \in Worker : pc[w] = "request" /\ pc'[w] = "settle" =>
          portal'[Current(w)].calls = portal[Current(w)].calls
  <2> SUFFICES ASSUME TypeInv, [Next]_vars, NEW w \in Worker,
                      pc[w] = "request", pc'[w] = "settle"
               PROVE  portal' = portal
    OBVIOUS
  <2>1. Request(w)
    BY ProcessorMoves DEF ProcessorSteps, Load, Checkpoint, Poll, Notify, Deliver
  <2>2. PICK c \in PortalCalls :
          /\ portal' = IF c.done THEN [portal EXCEPT ![Current(w)].calls = @ + 1] ELSE portal
          /\ RequestEnds(w, c)
    BY <2>1 DEF Request
  <2>3. c.class \in {"BitrixRateLimitError", "BitrixOAuthTemporaryError"}
    BY <2>2, Turns DEF RequestEnds
  <2>4. ~c.done
    BY <2>3, RefusedIsNotDone DEF Refusals, LocalErrors, OAuthErrors
  <2> QED
    BY <2>2, <2>4
<1> QED
  BY <1>1, InitType, NextType, PTL DEF Spec, RetriesOnlyUnsent

-----------------------------------------------------------------------------
(* REST requests, when no batch outlives its lease.                        *)

\* A request is on its way, or about to be saved, only while nothing is saved.
RequestIsOpen ==
  \A w \in Worker : pc[w] \in {"request", "checkpoint"} => ~row[Current(w)].requestDone

\* What the users or the process are told is what the table says.
SavedBeforeUse ==
  \A w \in Worker : pc[w] \in {"notify", "deliver"} /\ row[Current(w)].robot = "rest_request" =>
    row[Current(w)].requestDone /\ row[Current(w)].values = task[w].values

NoticeIsDue ==
  \A w \in Worker : pc[w] = "notify" /\ row[Current(w)].robot = "rest_request" =>
    task[w].values = "error" /\ portal[Current(w)].notices = 0

NoticeIsSaved ==
  \A j \in Job : row[j].robot = "rest_request" /\ portal[j].notices > 0 =>
    row[j].requestDone /\ portal[j].notices = 1 /\ row[j].values = "error"

RestInv ==
  RequestIsOpen /\ SavedBeforeUse /\ NoticeIsDue /\ NoticeIsSaved /\ RestResultIsDurable

LEMMA InitRest == Init => RestInv
<1> SUFFICES ASSUME Init PROVE RestInv
  OBVIOUS
<1>1. \A j \in Job : portal[j] = NewPortal
  BY DEF Init
<1>2. \A w \in Worker : pc[w] = "off"
  BY DEF Init
<1>3. NoticeIsSaved /\ RestResultIsDurable
  BY <1>1 DEF NewPortal, NoticeIsSaved, RestResultIsDurable
<1> QED
  BY <1>2, <1>3 DEF RestInv, RequestIsOpen, SavedBeforeUse, NoticeIsDue

\* Two workers in the processor have different jobs.
LEMMA Alone ==
  ASSUME TypeInv, LeaseInv, NEW v \in Worker, NEW w \in Worker,
         pc[v] \in ProcessorSteps, pc[w] \in ProcessorSteps, Current(v) = Current(w)
  PROVE  v = w
<1>1. batch[v] # <<>> /\ batch[w] # <<>>
  BY DEF TypeInv, Busy
<1>2. /\ Current(v) = batch[v][1] /\ Current(w) = batch[w][1] /\ 1 \in 1..Len(batch[v])
  BY <1>1, FirstJob
<1> QED
  BY <1>1, <1>2, Apart

\* Only its own worker's checkpoint and settlement change a saved outcome.
LEMMA OwnRow ==
  ASSUME TypeInv, LeaseInv, QueueInv, [Next]_vars, NEW w \in Worker,
         pc[w] \in ProcessorSteps, ~Checkpoint(w), ~Settle(w)
  PROVE  /\ row'[Current(w)].requestDone = row[Current(w)].requestDone
         /\ row'[Current(w)].values = row[Current(w)].values
<1>1. Current(w) \in Job /\ row[Current(w)].status # "absent"
  BY CurrentBegun DEF QueueInv
<1>2. ASSUME NEW v \in Worker, Checkpoint(v) \/ Settle(v), Current(w) = Current(v)
      PROVE  FALSE
  <2>1. pc[v] \in ProcessorSteps
    BY <1>2 DEF Checkpoint, Settle, ProcessorSteps
  <2> QED
    BY <1>2, <2>1, Alone
<1> QED
  BY <1>1, <1>2, RowEvolves

LEMMA NextOpen ==
  ASSUME TypeInv, LeaseInv, QueueInv, RestInv, [Next]_vars
  PROVE  RequestIsOpen'
<1> SUFFICES ASSUME NEW w \in Worker, pc'[w] \in {"request", "checkpoint"}
             PROVE  ~row'[Current(w)'].requestDone
  BY DEF RequestIsOpen
<1>1. pc'[w] \in ProcessorSteps
  BY DEF ProcessorSteps
<1>2. batch'[w] = batch[w] /\ batch'[w] # <<>>
  BY <1>1, ProcessorMoves, NextType DEF TypeInv, Busy
<1>3. Current(w)' = Current(w) /\ Current(w) \in Job
  BY <1>2, SameJob DEF QueueInv
<1>4. CASE pc'[w] = pc[w] /\ task'[w] = task[w]
  <2>1. ~Checkpoint(w) /\ ~Settle(w)
    BY <1>4 DEF Checkpoint, Settle, Goto, TypeInv, TypeOK
  <2> QED
    BY <1>1, <1>3, <1>4, <2>1, OwnRow DEF RestInv, RequestIsOpen
<1>5. CASE Load(w)
  <2>1. row' = row /\ pc'[w] = FirstStep(Current(w))
    BY <1>5 DEF Load, Goto, TypeInv, TypeOK
  <2>2. row[Current(w)].robot \in RobotCodes
    BY <1>3 DEF TypeInv, TypeOK, Row
  <2> QED
    BY <1>3, <2>1, <2>2 DEF FirstStep, RobotCodes
<1>6. CASE Request(w)
  <2>1. row' = row /\ pc[w] = "request"
    BY <1>6 DEF Request
  <2> QED
    BY <1>3, <2>1 DEF RestInv, RequestIsOpen
<1>7. CASE Checkpoint(w) \/ Notify(w)
  BY <1>7 DEF Checkpoint, Notify, Goto, TypeInv, TypeOK
<1>8. CASE Poll(w)
  BY <1>8, Turns DEF Poll
<1>9. CASE Deliver(w)
  BY <1>9, Turns DEF Deliver
<1> QED
  BY <1>1, <1>4, <1>5, <1>6, <1>7, <1>8, <1>9, ProcessorMoves

LEMMA NextSaved ==
  ASSUME TypeInv, LeaseInv, QueueInv, RestInv, [Next]_vars
  PROVE  SavedBeforeUse'
<1> SUFFICES ASSUME NEW w \in Worker, pc'[w] \in {"notify", "deliver"},
                    row'[Current(w)'].robot = "rest_request"
             PROVE  row'[Current(w)'].requestDone /\ row'[Current(w)'].values = task'[w].values
  BY DEF SavedBeforeUse
<1>1. pc'[w] \in ProcessorSteps
  BY DEF ProcessorSteps
<1>2. batch'[w] = batch[w] /\ batch'[w] # <<>>
  BY <1>1, ProcessorMoves, NextType DEF TypeInv, Busy
<1>3. /\ Current(w)' = Current(w) /\ Current(w) \in Job
      /\ row[Current(w)].robot = "rest_request"
  BY <1>2, SameJob DEF QueueInv
<1>4. CASE pc'[w] = pc[w] /\ task'[w] = task[w]
  <2>1. ~Checkpoint(w) /\ ~Settle(w)
    BY <1>4 DEF Checkpoint, Settle
  <2> QED
    BY <1>1, <1>3, <1>4, <2>1, OwnRow DEF RestInv, SavedBeforeUse
<1>5. CASE Load(w)
  <2>1. /\ row' = row /\ pc'[w] = FirstStep(Current(w))
        /\ task'[w].values = IF row[Current(w)].requestDone THEN row[Current(w)].values
                             ELSE "completed"
    BY <1>5 DEF Load, Goto, TypeInv, TypeOK
  <2> QED
    BY <1>3, <2>1 DEF FirstStep
<1>6. CASE Request(w)
  BY <1>6, Turns DEF Request, RequestEnds
<1>7. CASE Checkpoint(w)
  <2> DEFINE j == Current(w)
             v == task[w].values
  <2>1. row[j].status = "processing"
    <3>1. 1 \in 1..Len(batch[w]) /\ j = batch[w][1]
      BY <1>2, FirstJob
    <3> QED
      BY <3>1 DEF LeaseInv, BatchOwned, Owned
  <2>2. row' = [row EXCEPT ![j] = [row[j] EXCEPT !.requestDone = TRUE, !.values = v]]
        /\ task' = task
    BY <1>7, <2>1 DEF Checkpoint, SaveProcessingResult, Transition
  <2>3. j \in Job /\ row \in [Job -> Row]
    BY <1>3 DEF TypeInv, TypeOK
  <2> HIDE DEF j, v
  <2>4. row'[j].requestDone /\ row'[j].values = v
    BY <2>2, <2>3 DEF Row
  <2> QED
    BY <1>3, <2>2, <2>4 DEF j, v
<1>8. CASE Notify(w)
  <2>1. row' = row /\ task' = task /\ pc[w] = "notify"
    BY <1>8 DEF Notify
  <2> QED
    BY <1>3, <2>1 DEF RestInv, SavedBeforeUse
<1>9. CASE Poll(w)
  BY <1>3, <1>9 DEF Poll, QueueInv, RightRobot
<1>10. CASE Deliver(w)
  BY <1>10, Turns DEF Deliver
<1> QED
  BY <1>1, <1>4, <1>5, <1>6, <1>7, <1>8, <1>9, <1>10, ProcessorMoves

\* Rows that just appear, and what REST requests were before.
LEMMA RestBefore ==
  ASSUME TypeInv, QueueInv, [Next]_vars, NEW j \in Job, row'[j].robot = "rest_request",
         portal'[j].token = "used" \/ portal'[j].notices > 0
  PROVE  row[j].robot = "rest_request" /\ row[j].status # "absent"
<1>1. row'[j].status \notin {"absent", "pending"}
  <2>1. portal'[j].token = "used" \/ portal'[j].notices # 0
    OBVIOUS
  <2> QED
    BY <2>1, NextUntouched DEF UntouchedBeforeClaim
<1>2. Create(j) => row'[j].status = "pending"
  BY DEF Create, NoRow, TypeInv, TypeOK
<1> QED
  BY <1>1, <1>2, AbsentRow, RowEvolves

\* An outcome that was saved, and used, is not saved again.
LEMMA SavedStays ==
  ASSUME TypeInv, QueueInv, RestInv, [Next]_vars, NEW j \in Job,
         row[j].robot = "rest_request", row[j].status # "absent", row[j].requestDone
  PROVE  /\ row'[j].requestDone
         /\ row'[j].values = row[j].values
<1>1. \A w \in Worker : Checkpoint(w) => j # Current(w)
  BY DEF Checkpoint, RestInv, RequestIsOpen
<1>2. ASSUME NEW w \in Worker, Settle(w), j = Current(w), task[w].plan = "complete",
             row'[j].values = task[w].values
      PROVE  row'[j].values = row[j].values
  BY <1>2 DEF Settle, QueueInv, CompletionIsTrue, RestInv, RestResultIsDurable
<1> QED
  BY <1>1, <1>2, RowEvolves

LEMMA NextNotice ==
  ASSUME TypeInv, LeaseInv, QueueInv, RestInv, [Next]_vars
  PROVE  NoticeIsDue'
<1> SUFFICES ASSUME NEW w \in Worker, pc'[w] = "notify", row'[Current(w)'].robot = "rest_request"
             PROVE  task'[w].values = "error" /\ portal'[Current(w)'].notices = 0
  BY DEF NoticeIsDue
<1>1. pc'[w] \in ProcessorSteps
  BY DEF ProcessorSteps
<1>2. batch'[w] = batch[w] /\ batch'[w] # <<>>
  BY <1>1, ProcessorMoves, NextType DEF TypeInv, Busy
<1>3. /\ Current(w)' = Current(w) /\ Current(w) \in Job
      /\ row[Current(w)].robot = "rest_request"
  BY <1>2, SameJob DEF QueueInv
<1>4. CASE pc'[w] = pc[w] /\ task'[w] = task[w]
  <2> DEFINE j == Current(w)
  <2>1. task[w].values = "error" /\ portal[j].notices = 0 /\ portal[j] \in Portal
    BY <1>3, <1>4 DEF RestInv, NoticeIsDue, TypeInv, TypeOK
  <2>2. ASSUME NEW v \in Worker, pc[v] = "notify", Notify(v), j = Current(v)
        PROVE  FALSE
    <3>1. v = w
      BY <1>1, <1>4, <2>2, Alone DEF ProcessorSteps
    <3> QED
      BY <1>4, <2>2, <3>1 DEF Notify, Goto, TypeInv, TypeOK
  <2> HIDE DEF j
  <2>3. ASSUME portal'[j] = [portal[j] EXCEPT !.calls = @ + 1]
        PROVE  portal'[j].notices = 0
    <3> DEFINE n == portal[j].calls + 1
    <3>1. portal'[j] = [portal[j] EXCEPT !.calls = n]
      BY <2>3
    <3> HIDE DEF n
    <3> QED
      BY <2>1, <3>1 DEF Portal
  <2>4. ASSUME NEW v \in Worker,
               \/ portal'[j] = [portal[j] EXCEPT !.token = "gone"]
               \/ portal'[j] = [portal[j] EXCEPT !.token = "used", !.result = task[v].values]
        PROVE  portal'[j].notices = 0
    BY <2>1, <2>4 DEF Portal
  <2>5. portal'[j].notices = 0
    BY <1>3, <2>1, <2>2, <2>3, <2>4, PortalEvolves DEF j
  <2> QED
    BY <1>3, <1>4, <2>1, <2>5 DEF j
<1>5. CASE Load(w)
  <2>1. pc'[w] = FirstStep(Current(w)) \/ pc'[w] = "settle"
    BY <1>5 DEF Load, Goto, TypeInv, TypeOK
  <2> QED
    BY <1>3, <2>1 DEF FirstStep
<1>6. CASE Request(w)
  BY <1>6, Turns DEF Request, RequestEnds
<1>7. CASE Checkpoint(w)
  <2>1. task[w].values = "error" /\ task' = task /\ portal' = portal /\ pc[w] = "checkpoint"
    BY <1>7 DEF Checkpoint, Goto, TypeInv, TypeOK
  <2>2. ~row[Current(w)].requestDone
    BY <2>1 DEF RestInv, RequestIsOpen
  <2>3. ~(portal[Current(w)].notices > 0) /\ portal[Current(w)].notices \in 0..NoticeCap
    BY <1>3, <2>2 DEF RestInv, NoticeIsSaved, TypeInv, TypeOK, Portal
  <2>4. portal[Current(w)].notices = 0
    BY <2>3, JobsAssumption
  <2> QED
    BY <1>3, <2>1, <2>4
<1>8. CASE Notify(w)
  BY <1>8 DEF Notify, Goto, TypeInv, TypeOK
<1>9. CASE Poll(w)
  BY <1>3, <1>9 DEF Poll, QueueInv, RightRobot
<1>10. CASE Deliver(w)
  BY <1>10, Turns DEF Deliver
<1> QED
  BY <1>1, <1>4, <1>5, <1>6, <1>7, <1>8, <1>9, <1>10, ProcessorMoves

LEMMA NextNoticed ==
  ASSUME TypeInv, QueueInv, RestInv, [Next]_vars
  PROVE  NoticeIsSaved'
<1> SUFFICES ASSUME NEW j \in Job, row'[j].robot = "rest_request", portal'[j].notices > 0
             PROVE  row'[j].requestDone /\ portal'[j].notices = 1 /\ row'[j].values = "error"
  BY DEF NoticeIsSaved
<1>1. row[j].robot = "rest_request" /\ row[j].status # "absent" /\ portal[j] \in Portal
  BY RestBefore DEF TypeInv, TypeOK
<1>2. CASE portal'[j].notices = portal[j].notices
  <2>1. row[j].requestDone /\ portal[j].notices = 1 /\ row[j].values = "error"
    BY <1>1, <1>2 DEF RestInv, NoticeIsSaved
  <2> QED
    BY <1>1, <1>2, <2>1, SavedStays
<1>3. ASSUME NEW w \in Worker, pc[w] = "notify", Notify(w), j = Current(w),
             portal'[j] = [portal[j] EXCEPT !.notices = IF @ < NoticeCap THEN @ + 1 ELSE @]
      PROVE  row'[j].requestDone /\ portal'[j].notices = 1 /\ row'[j].values = "error"
  <2>1. row' = row
    BY <1>3 DEF Notify
  <2>2. /\ row[j].requestDone /\ row[j].values = "error" /\ portal[j].notices = 0
    BY <1>1, <1>3 DEF RestInv, NoticeIsDue, SavedBeforeUse
  <2> DEFINE n == IF portal[j].notices < NoticeCap THEN portal[j].notices + 1
                  ELSE portal[j].notices
  <2>3. n = 1
    BY <2>2, JobsAssumption
  <2>4. portal'[j] = [portal[j] EXCEPT !.notices = n]
    BY <1>3
  <2> HIDE DEF n
  <2>5. portal'[j].notices = 1
    BY <1>1, <2>3, <2>4 DEF Portal
  <2> QED
    BY <2>1, <2>2, <2>5
<1>4. ASSUME portal'[j] = [portal[j] EXCEPT !.calls = @ + 1]
      PROVE  portal'[j].notices = portal[j].notices
  <2> DEFINE n == portal[j].calls + 1
  <2>1. portal'[j] = [portal[j] EXCEPT !.calls = n]
    BY <1>4
  <2> HIDE DEF n
  <2> QED
    BY <1>1, <2>1 DEF Portal
<1>5. ASSUME NEW w \in Worker,
             portal'[j] = [portal[j] EXCEPT !.token = "used", !.result = task[w].values]
      PROVE  portal'[j].notices = portal[j].notices
  BY <1>1, <1>5 DEF Portal
<1>6. ASSUME portal'[j] = [portal[j] EXCEPT !.token = "gone"]
      PROVE  portal'[j].notices = portal[j].notices
  BY <1>1, <1>6 DEF Portal
<1> QED
  BY <1>2, <1>3, <1>4, <1>5, <1>6, PortalEvolves

LEMMA NextDurable ==
  ASSUME TypeInv, QueueInv, RestInv, [Next]_vars
  PROVE  RestResultIsDurable'
<1> SUFFICES ASSUME NEW j \in Job, row'[j].robot = "rest_request", portal'[j].token = "used"
             PROVE  row'[j].requestDone /\ row'[j].values = portal'[j].result
  BY DEF RestResultIsDurable
<1>1. row[j].robot = "rest_request" /\ row[j].status # "absent" /\ portal[j] \in Portal
  BY RestBefore DEF TypeInv, TypeOK
<1>2. CASE portal[j].token = "used"
  <2>1. row[j].requestDone /\ row[j].values = portal[j].result
    BY <1>1, <1>2 DEF RestInv, RestResultIsDurable
  <2> QED
    BY <1>1, <1>2, <2>1, SavedStays, UsedStays
<1>3. CASE portal[j].token # "used"
  <2>1. portal'[j] # portal[j]
    BY <1>3
  <2>2. portal'[j] # [portal[j] EXCEPT !.token = "gone"]
    BY <1>1 DEF Portal
  <2>3. portal'[j] # [portal[j] EXCEPT !.calls = @ + 1]
    BY <1>1, <1>3 DEF Portal
  <2>4. portal'[j] # [portal[j] EXCEPT !.notices = IF @ < NoticeCap THEN @ + 1 ELSE @]
    BY <1>1, <1>3 DEF Portal
  <2>5. PICK w \in Worker :
          /\ pc[w] = "deliver" /\ Deliver(w) /\ j = Current(w)
          /\ portal'[j] = [portal[j] EXCEPT !.token = "used", !.result = task[w].values]
    BY <2>1, <2>2, <2>3, <2>4, PortalEvolves
  <2>6. row' = row /\ row[j].requestDone /\ row[j].values = task[w].values
    BY <1>1, <2>5 DEF Deliver, RestInv, SavedBeforeUse
  <2>7. portal'[j].result = task[w].values
    BY <1>1, <2>5 DEF Portal
  <2> QED
    BY <2>6, <2>7
<1> QED
  BY <1>2, <1>3

LEMMA NextRest ==
  ~LeaseOverrun /\ TypeInv /\ LeaseInv /\ QueueInv /\ RestInv /\ [Next]_vars =>
    TypeInv' /\ LeaseInv' /\ QueueInv' /\ RestInv'
BY NextQueue, NextLease, NextOpen, NextSaved, NextNotice, NextNoticed, NextDurable DEF RestInv

\* The outcome of a REST request is in the table before its process or its users
\* hear of it, so no crash, retry or recovery can tell them anything else.
THEOREM RestIsDurable == ~LeaseOverrun => (Spec => []RestResultIsDurable)
<1> SUFFICES ASSUME ~LeaseOverrun PROVE Spec => []RestResultIsDurable
  OBVIOUS
<1>1. TypeInv /\ LeaseInv /\ QueueInv /\ RestInv /\ [Next]_vars =>
        TypeInv' /\ LeaseInv' /\ QueueInv' /\ RestInv'
  BY NextRest
<1> QED
  BY <1>1, InitType, InitLease, InitQueue, InitRest, PTL DEF Spec, RestInv

\* One notification of a failed REST request, and only of a failure.
THEOREM RestIsNotifiedOnce == ~LeaseOverrun => (Spec => []RestNotifiesOnce)
<1> SUFFICES ASSUME ~LeaseOverrun PROVE Spec => []RestNotifiesOnce
  OBVIOUS
<1>1. TypeInv /\ LeaseInv /\ QueueInv /\ RestInv /\ [Next]_vars =>
        TypeInv' /\ LeaseInv' /\ QueueInv' /\ RestInv'
  BY NextRest
<1>2. RestInv => RestNotifiesOnce
  BY DEF RestInv, NoticeIsSaved, RestNotifiesOnce
<1> QED
  BY <1>1, <1>2, InitType, InitLease, InitQueue, InitRest, PTL DEF Spec

\* A saved outcome ends the calls of the application's method.
THEOREM NoCallAfterCheckpoint == ~LeaseOverrun => (Spec => CheckpointEndsRequests)
<1> SUFFICES ASSUME ~LeaseOverrun PROVE Spec => CheckpointEndsRequests
  OBVIOUS
<1>1. TypeInv /\ LeaseInv /\ QueueInv /\ RestInv /\ [Next]_vars =>
        TypeInv' /\ LeaseInv' /\ QueueInv' /\ RestInv'
  BY NextRest
<1>2. TypeInv /\ LeaseInv /\ QueueInv /\ RestInv /\ [Next]_vars =>
        \A j \in Job : row[j].requestDone => portal'[j].calls = portal[j].calls
  <2> SUFFICES ASSUME TypeInv, RestInv, [Next]_vars, NEW j \in Job, row[j].requestDone
               PROVE  portal'[j].calls = portal[j].calls
    OBVIOUS
  <2>1. portal[j] \in Portal
    BY DEF TypeInv, TypeOK
  <2>2. \A w \in Worker : pc[w] = "request" => j # Current(w)
    BY DEF RestInv, RequestIsOpen
  <2>3. ASSUME portal'[j] = [portal[j] EXCEPT !.notices = IF @ < NoticeCap THEN @ + 1 ELSE @]
        PROVE  portal'[j].calls = portal[j].calls
    <3> DEFINE n == IF portal[j].notices < NoticeCap THEN portal[j].notices + 1
                    ELSE portal[j].notices
    <3>1. portal'[j] = [portal[j] EXCEPT !.notices = n]
      BY <2>3
    <3> HIDE DEF n
    <3> QED
      BY <2>1, <3>1 DEF Portal
  <2>4. ASSUME NEW w \in Worker,
               portal'[j] = [portal[j] EXCEPT !.token = "used", !.result = task[w].values]
        PROVE  portal'[j].calls = portal[j].calls
    BY <2>1, <2>4 DEF Portal
  <2>5. ASSUME portal'[j] = [portal[j] EXCEPT !.token = "gone"]
        PROVE  portal'[j].calls = portal[j].calls
    BY <2>1, <2>5 DEF Portal
  <2> QED
    BY <2>2, <2>3, <2>4, <2>5, PortalEvolves
<1> QED
  BY <1>1, <1>2, InitType, InitLease, InitQueue, InitRest, PTL DEF Spec, CheckpointEndsRequests

-----------------------------------------------------------------------------
(* The queue keeps the promise of Subscription.                            *)

\* A process gets its result from a delivery of its job's worker, and only once.
LEMMA ResultMoves ==
  ASSUME TypeInv, [Next]_vars, NEW j \in Job, portal'[j].result # portal[j].result
  PROVE  \E w \in Worker :
           /\ pc[w] = "deliver" /\ Deliver(w) /\ j = Current(w)
           /\ portal[j].token = "live" /\ portal'[j].result = task[w].values
<1>1. portal[j] \in Portal
  BY DEF TypeInv, TypeOK
<1>2. portal'[j] # portal[j]
  OBVIOUS
<1>3. portal'[j] # [portal[j] EXCEPT !.token = "gone"]
  BY <1>1 DEF Portal
<1>4. portal'[j] # [portal[j] EXCEPT !.calls = @ + 1]
  BY <1>1 DEF Portal
<1>5. portal'[j] # [portal[j] EXCEPT !.notices = IF @ < NoticeCap THEN @ + 1 ELSE @]
  BY <1>1 DEF Portal
<1>6. PICK w \in Worker :
        /\ pc[w] = "deliver" /\ Deliver(w) /\ j = Current(w) /\ portal[j].token = "live"
        /\ portal'[j] = [portal[j] EXCEPT !.token = "used", !.result = task[w].values]
  BY <1>2, <1>3, <1>4, <1>5, PortalEvolves
<1>7. portal'[j].result = task[w].values
  BY <1>1, <1>6 DEF Portal
<1> QED
  BY <1>6, <1>7

\* The state of a subscription, as Promise maps it.
Phase(r) ==
  CASE r.status \in {"pending", "retry"} -> "waiting"
    [] r.status = "processing" -> "working"
    [] OTHER -> r.status

LEMMA PhaseOf ==
  ASSUME NEW r
  PROVE  /\ r.status \in {"pending", "retry"} => Phase(r) = "waiting"
         /\ r.status = "processing" => Phase(r) = "working"
         /\ r.status \in Terminal \cup {"absent"} => Phase(r) = r.status
BY DEF Phase, Terminal

\* Every step of the queue is a step of the subscription, or none.
LEMMA PromiseStep ==
  ASSUME TypeInv, LeaseInv, QueueInv, LeaseInv', [Next]_vars, NEW j \in Job
  PROVE  [Promise(j)!SubNext]_(Promise(j)!sub)
<1> DEFINE left(r) == MaxAttempts - r.attempts
<1>0. /\ row[j] \in Row /\ row'[j] \in Row /\ MaxAttempts \in Nat
      /\ row[j].attempts \in 0..MaxAttempts /\ row'[j].attempts \in 0..MaxAttempts
      /\ portal[j] \in Portal
  <2>1. row[j] \in Row /\ row'[j] \in Row /\ portal[j] \in Portal
    BY NextType DEF TypeInv, TypeOK
  <2> QED
    BY <2>1, JobsAssumption DEF Row
<1>1. ASSUME Phase(row'[j]) = Phase(row[j]), row'[j].attempts = row[j].attempts,
             portal'[j].result = portal[j].result
      PROVE  [Promise(j)!SubNext]_(Promise(j)!sub)
  BY <1>1 DEF Promise!sub, Phase
<1>2. ASSUME Phase(row[j]) = "absent", Phase(row'[j]) = "waiting",
             row'[j].attempts = row[j].attempts, portal'[j].result = portal[j].result
      PROVE  [Promise(j)!SubNext]_(Promise(j)!sub)
  BY <1>2 DEF Promise!SubNext, Promise!Open, Phase
<1>3. ASSUME Phase(row[j]) = "waiting", Phase(row'[j]) = "working",
             left(row[j]) > 0, left(row'[j]) = left(row[j]) - 1,
             portal'[j].result = portal[j].result
      PROVE  [Promise(j)!SubNext]_(Promise(j)!sub)
  BY <1>3 DEF Promise!SubNext, Promise!Take, Phase
<1>4. ASSUME Phase(row[j]) = "working", Phase(row'[j]) = "waiting",
             left(row'[j]) \in {left(row[j]), left(row[j]) + 1}, left(row'[j]) > 0,
             portal'[j].result = portal[j].result
      PROVE  [Promise(j)!SubNext]_(Promise(j)!sub)
  BY <1>4 DEF Promise!SubNext, Promise!GiveBack, Phase
<1>5. ASSUME Phase(row[j]) = "working", Phase(row'[j]) \in Terminal,
             Phase(row'[j]) = "completed" => portal[j].result # "pending",
             row'[j].attempts = row[j].attempts, portal'[j].result = portal[j].result
      PROVE  [Promise(j)!SubNext]_(Promise(j)!sub)
  BY <1>5 DEF Promise!SubNext, Promise!End, Promise!Ended, Phase, Terminal
<1>6. ASSUME Phase(row[j]) = "working", row'[j] = row[j], portal[j].result = "pending",
             portal'[j].result \in {"completed", "timeout", "error"}
      PROVE  [Promise(j)!SubNext]_(Promise(j)!sub)
  BY <1>6 DEF Promise!SubNext, Promise!Resume, Phase
<1>7. CASE portal'[j].result # portal[j].result
  <2>1. PICK w \in Worker :
          /\ pc[w] = "deliver" /\ Deliver(w) /\ j = Current(w)
          /\ portal[j].token = "live" /\ portal'[j].result = task[w].values
    BY <1>7, ResultMoves
  <2>2. portal[j].result = "pending"
    BY <2>1 DEF QueueInv, ResultIsOfUse
  <2>3. task[w].values \in {"completed", "timeout", "error"}
    BY <2>1 DEF QueueInv, ValuesDecided, ProcessorSteps, TypeInv, TypeOK, Task, Values
  <2>4. row[j].status = "processing"
    <3>1. batch[w] # <<>>
      BY <2>1 DEF TypeInv, Busy, ProcessorSteps
    <3>2. 1 \in 1..Len(batch[w]) /\ j = batch[w][1]
      BY <2>1, <3>1, FirstJob
    <3> QED
      BY <3>2 DEF LeaseInv, BatchOwned, Owned
  <2>5. row' = row
    BY <2>1 DEF Deliver
  <2> QED
    BY <1>6, <2>1, <2>2, <2>3, <2>4, <2>5, PhaseOf
<1>8. CASE portal'[j].result = portal[j].result
  <2>1. CASE row'[j] = row[j]
    BY <1>1, <1>8, <2>1
  <2>2. CASE row[j].status = "absent" /\ Create(j)
    <3>1. row'[j].status = "pending" /\ row'[j].attempts = 0
      BY <2>2 DEF Create, NoRow, TypeInv, TypeOK
    <3>2. row[j].attempts = 0
      BY <2>2 DEF QueueInv, BlankBeforeInsertion
    <3> QED
      BY <1>2, <1>8, <2>2, <3>1, <3>2, PhaseOf
  <2>3. CASE row'[j] = Aged(row[j])
    <3>1. row'[j].status = row[j].status /\ row'[j].attempts = row[j].attempts
      BY <1>0, <2>3, AgedRow
    <3> QED
      BY <1>1, <1>8, <3>1 DEF Phase
  <2>4. CASE Stale(row[j]) /\ row'[j] = Recovered(row[j])
    <3>1. /\ row'[j].status \in {"failed", "retry"} /\ row'[j].attempts = row[j].attempts
          /\ row'[j].status = "retry" => row[j].attempts < MaxAttempts
      BY <1>0, <2>4, RecoveredRow
    <3>2. Phase(row[j]) = "working"
      BY <2>4, PhaseOf DEF Stale
    <3>3. CASE row'[j].status = "retry"
      <4>1. Phase(row'[j]) = "waiting"
        BY <3>3, PhaseOf
      <4>2. left(row'[j]) = left(row[j]) /\ left(row'[j]) > 0
        BY <1>0, <3>1, <3>3
      <4> QED
        BY <1>4, <1>8, <3>2, <4>1, <4>2
    <3>4. CASE row'[j].status = "failed"
      <4>1. Phase(row'[j]) = "failed"
        BY <3>4, PhaseOf DEF Terminal
      <4> QED
        BY <1>5, <1>8, <3>1, <3>2, <4>1 DEF Terminal
    <3> QED
      BY <3>1, <3>3, <3>4
  <2>5. ASSUME NEW w \in Worker, Due(j), row'[j] = Claimed(row[j], w)
        PROVE  [Promise(j)!SubNext]_(Promise(j)!sub)
    <3>1. /\ row[j].status \in {"pending", "retry"} /\ row[j].attempts < MaxAttempts
          /\ row'[j].status = "processing" /\ row'[j].attempts = row[j].attempts + 1
      BY <1>0, <2>5, ClaimedRow DEF Due
    <3>2. Phase(row[j]) = "waiting" /\ Phase(row'[j]) = "working"
      BY <3>1, PhaseOf
    <3>3. left(row[j]) > 0 /\ left(row'[j]) = left(row[j]) - 1
      BY <1>0, <3>1
    <3> QED
      BY <1>3, <1>8, <3>2, <3>3
  <2>6. ASSUME NEW w \in Worker, Checkpoint(w), j = Current(w)
        PROVE  [Promise(j)!SubNext]_(Promise(j)!sub)
    <3> DEFINE v == task[w].values
    <3>1. \/ row'[j] = row[j]
          \/ row'[j] = [row[j] EXCEPT !.requestDone = TRUE, !.values = v]
      BY <2>6, CheckpointRow
    <3> HIDE DEF v
    <3>2. row'[j].status = row[j].status /\ row'[j].attempts = row[j].attempts
      BY <1>0, <3>1 DEF Row
    <3> QED
      BY <1>1, <1>8, <3>2 DEF Phase
  <2>7. ASSUME NEW w \in Worker, Settle(w), j = Current(w), row[j].status = "processing"
        PROVE  [Promise(j)!SubNext]_(Promise(j)!sub)
    <3>1. /\ row'[j].status \in Terminal \cup {"retry"}
          /\ row'[j].status \in Terminal => row'[j].attempts = row[j].attempts
          /\ row'[j].status = "completed" => task[w].plan = "complete"
      BY <2>7, SettledRest
    <3>2. Budgeted(row[j], row'[j])
      BY <2>7, SettledRow DEF TypeInv, TypeOK
    <3>3. Phase(row[j]) = "working"
      BY <2>7, PhaseOf
    <3>4. CASE row'[j].status = "retry"
      <4>1. Phase(row'[j]) = "waiting"
        BY <3>4, PhaseOf
      <4>2. row'[j].attempts < MaxAttempts
        BY <3>4 DEF LeaseInv, NothingStranded
      <4>3. left(row'[j]) \in {left(row[j]), left(row[j]) + 1} /\ left(row'[j]) > 0
        BY <1>0, <3>2, <4>2 DEF Budgeted
      <4> QED
        BY <1>4, <1>8, <3>3, <4>1, <4>3
    <3>5. CASE row'[j].status \in Terminal
      <4>1. Phase(row'[j]) = row'[j].status
        BY <3>5, PhaseOf
      <4>2. row'[j].status = "completed" => portal[j].result # "pending"
        BY <2>7, <3>1 DEF Settle, QueueInv, CompletionIsTrue, ResultIsOfUse
      <4> QED
        BY <1>5, <1>8, <3>1, <3>3, <3>5, <4>1, <4>2
    <3> QED
      BY <3>1, <3>4, <3>5
  <2> QED
    BY <2>1, <2>2, <2>3, <2>4, <2>5, <2>6, <2>7, AbsentRow, RowWriters
<1> QED
  BY <1>7, <1>8

\* Without an overrun lease the queue implements Subscription for every job: at
\* most max_attempts claims count, the process is resumed once and only by a worker
\* that holds the job, "completed" is said of a resumed process, and the end is final.
THEOREM PromiseIsKept == ~LeaseOverrun => (Spec => KeepsPromise)
<1> SUFFICES ASSUME ~LeaseOverrun PROVE Spec => KeepsPromise
  OBVIOUS
<1>1. TypeInv /\ LeaseInv /\ QueueInv /\ [Next]_vars => TypeInv' /\ LeaseInv' /\ QueueInv'
  BY NextQueue, NextLease
<1>2. TypeInv /\ LeaseInv /\ QueueInv /\ LeaseInv' /\ [Next]_vars =>
        \A j \in Job : [Promise(j)!SubNext]_(Promise(j)!sub)
  BY PromiseStep
<1>3. Init => \A j \in Job : Promise(j)!SubInit
  BY JobsAssumption DEF Init, NoRow, NewPortal, Promise!SubInit
<1> QED
  BY <1>1, <1>2, <1>3, InitType, InitLease, InitQueue, PTL DEF Spec, KeepsPromise
=============================================================================
