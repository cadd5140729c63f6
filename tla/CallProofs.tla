----------------------------- MODULE CallProofs -----------------------------
(***************************************************************************)
(* How often the portal runs the method of a REST request: a theorem for   *)
(* every set of jobs and workers, overrun leases included.                 *)
(*                                                                         *)
(* The inductive invariant counts, beside the calls that were made, the    *)
(* workers that may still make one for the job: each of them has paid for  *)
(* it with the attempt of its claim.                                       *)
(***************************************************************************)
EXTENDS QueueProofs, FiniteSetTheorems

\* Worker w has claimed j and has not yet got past its request of j: j waits in
\* the batch, or is its first job and the request has not been answered.
OwesCall(w, j) ==
  \E i \in 1..Len(batch[w]) :
    batch[w][i] = j /\ (i = 1 => pc[w] \in {"next", "request"})

Owing(j) == {w \in Worker : OwesCall(w, j)}

Budgets(j) ==
  /\ row[j].robot # "rest_request" => portal[j].calls = 0
  /\ row[j].robot = "rest_request" =>
       /\ IsFiniteSet(Owing(j))
       /\ portal[j].calls + Cardinality(Owing(j)) <= row[j].attempts

\* A poll gives its attempt back; no REST request is ever polled for.
PollsAreWaits ==
  \A w \in Worker : pc[w] = "settle" /\ task[w].plan = "poll" =>
    row[Current(w)].robot = "wait_field"

CallsInv == BatchDistinct /\ PollsAreWaits /\ \A j \in Job : Budgets(j)

LEMMA InitCalls == Init => CallsInv
<1> SUFFICES ASSUME Init PROVE CallsInv
  OBVIOUS
<1>1. \A w \in Worker : pc[w] = "off" /\ batch[w] = <<>>
  BY DEF Init
<1>2. BatchDistinct /\ PollsAreWaits
  BY <1>1 DEF BatchDistinct, PollsAreWaits
<1>3. ASSUME NEW j \in Job
      PROVE  Budgets(j)
  BY DEF Init, NoRow, NewPortal, Budgets
<1> QED
  BY <1>2, <1>3 DEF CallsInv

\* Whatever is left of a batch has moved up by one place.
LEMMA Shifted ==
  ASSUME TypeInv, NEW w \in Worker, batch[w] # <<>>, batch'[w] = Tail(batch[w]),
         NEW i \in 1..Len(batch'[w])
  PROVE  /\ i + 1 \in 1..Len(batch[w]) /\ 1 \in 1..Len(batch[w])
         /\ i + 1 # 1 /\ batch'[w][i] = batch[w][i + 1]
<1>1. /\ Len(batch'[w]) = Len(batch[w]) - 1 /\ Len(batch[w]) \in Nat \ {0}
      /\ batch'[w][i] = batch[w][i + 1]
  BY CurrentJob DEF TypeInv, TypeOK
<1> QED
  BY <1>1

LEMMA NextDistinct ==
  ASSUME TypeInv, BatchDistinct, [Next]_vars
  PROVE  BatchDistinct'
<1> SUFFICES ASSUME NEW w \in Worker, NEW i \in 1..Len(batch'[w]),
                    NEW k \in 1..Len(batch'[w]), i # k
             PROVE  batch'[w][i] # batch'[w][k]
  BY DEF BatchDistinct
<1>1. CASE batch'[w] = batch[w]
  BY <1>1 DEF BatchDistinct
<1>2. CASE batch'[w] = <<>>
  BY <1>2
<1>3. CASE batch[w] # <<>> /\ batch'[w] = Tail(batch[w])
  <2>1. /\ i + 1 \in 1..Len(batch[w]) /\ k + 1 \in 1..Len(batch[w])
        /\ batch'[w][i] = batch[w][i + 1] /\ batch'[w][k] = batch[w][k + 1]
    BY <1>3, Shifted
  <2>2. i + 1 # k + 1
    OBVIOUS
  <2> QED
    BY <2>1, <2>2 DEF BatchDistinct
<1>4. CASE Claim(w)
  BY <1>4, ClaimedRows DEF TypeInv, TypeOK
<1> QED
  BY <1>1, <1>2, <1>3, <1>4, BatchMoves

LEMMA NextPolls ==
  ASSUME TypeInv, QueueInv, PollsAreWaits, [Next]_vars
  PROVE  PollsAreWaits'
<1> SUFFICES ASSUME NEW w \in Worker, pc'[w] = "settle", task'[w].plan = "poll"
             PROVE  row'[Current(w)'].robot = "wait_field"
  BY DEF PollsAreWaits
<1> USE DEF QueueInv
<1>1. pc'[w] \in ProcessorSteps
  BY DEF ProcessorSteps
<1>2. batch'[w] = batch[w] /\ batch'[w] # <<>>
  BY <1>1, ProcessorMoves, NextType DEF TypeInv, Busy
<1>3. Current(w)' = Current(w) /\ row'[Current(w)].robot = row[Current(w)].robot
  BY <1>2, SameJob
<1>4. CASE pc'[w] = pc[w] /\ task'[w] = task[w]
  BY <1>3, <1>4 DEF PollsAreWaits
<1>5. CASE Load(w)
  <2>1. task'[w].plan \in {"none", "fail"}
    BY <1>5 DEF Load, TypeInv, TypeOK
  <2> QED
    BY <2>1
<1>6. CASE Request(w)
  BY <1>6, Turns DEF Request, RequestEnds
<1>7. CASE Checkpoint(w) \/ Notify(w)
  BY <1>7 DEF Checkpoint, Notify, Goto, TypeInv, TypeOK
<1>8. CASE Poll(w)
  <2>1. row[Current(w)].robot = "wait_field"
    BY <1>8 DEF Poll, RightRobot
  <2> QED
    BY <1>3, <2>1
<1>9. CASE Deliver(w)
  <2>1. PICK c \in PortalCalls :
          NextJob(w) \/ Plan(w, DeliveryPlan(Current(w), task[w], c))
    BY <1>9 DEF Deliver
  <2>2. DeliveryPlan(Current(w), task[w], c) # "poll"
    BY DEF DeliveryPlan, ShortPausePlan, SubscriptionPlan
  <2> QED
    BY <2>1, <2>2, Turns
<1> QED
  BY <1>1, <1>4, <1>5, <1>6, <1>7, <1>8, <1>9, ProcessorMoves

\* A worker comes to look at the first job of its batch by a claim, or by turning
\* away from the one before.
LEMMA ToNext ==
  ASSUME TypeInv, [Next]_vars, NEW w \in Worker, pc'[w] = "next", pc[w] # "next"
  PROVE  Claim(w) \/ NextJob(w)
<1> USE DEF TypeInv, TypeOK
<1>1. ASSUME NEW v \in Worker, NextJob(v)
      PROVE  NextJob(w)
  BY <1>1 DEF NextJob, Goto
<1>2. ASSUME NEW v \in Worker, Leave(v)
      PROVE  FALSE
  BY <1>2 DEF Leave, Goto
<1>3. ASSUME NEW v \in Worker, Claim(v)
      PROVE  Claim(w)
  <2>1. v = w
    BY <1>3 DEF Claim, Goto
  <2> QED
    BY <1>3, <2>1
<1>4. ASSUME NEW v \in Worker, Request(v)
      PROVE  NextJob(w)
  BY <1>1, <1>4 DEF Request, RequestEnds, Decide, Plan, Goto
<1>5. ASSUME NEW v \in Worker, Poll(v)
      PROVE  NextJob(w)
  BY <1>1, <1>5 DEF Poll, Decide, Plan, Goto
<1>6. ASSUME NEW v \in Worker, Deliver(v)
      PROVE  NextJob(w)
  BY <1>1, <1>6 DEF Deliver, Plan, Goto
<1>7. ASSUME NEW v \in Worker, Settle(v) \/ LoadNothing(v) \/ TransactionFails(v)
      PROVE  NextJob(w)
  BY <1>1, <1>7 DEF Settle, LoadNothing, TransactionFails
<1>8. ASSUME NEW v \in Worker, Load(v)
      PROVE  FALSE
  <2>1. FirstStep(Current(v)) # "next" \/ v # w
    BY <1>8 DEF Load
  <2> QED
    BY <1>8, <2>1 DEF Load, Goto
<1>9. ASSUME NEW v \in Worker,
             \/ Start(v) \/ Recover(v) \/ SkipRecovery(v) \/ Wake(v) \/ Signal(v)
             \/ ShutDown(v) \/ EndBatch(v) \/ Crash(v) \/ Checkpoint(v) \/ Notify(v)
      PROVE  FALSE
  BY <1>2, <1>9 DEF Start, Recover, SkipRecovery, Wake, Signal, ShutDown, EndBatch, Crash,
                    Checkpoint, Notify, Goto
<1>10. ASSUME NEW j \in Job, Create(j) \/ Terminate(j)
       PROVE  FALSE
  BY <1>10 DEF Create, Terminate
<1>11. ASSUME Tick \/ UNCHANGED vars
       PROVE  FALSE
  BY <1>11 DEF Tick, vars
<1> QED
  BY <1>3, <1>4, <1>5, <1>6, <1>7, <1>8, <1>9, <1>10, <1>11
     DEF Next, WorkerStep, Process

\* Only a claim of j makes a worker owe its request.
LEMMA OwingMoves ==
  ASSUME TypeInv, [Next]_vars, NEW w \in Worker, NEW j \in Job, OwesCall(w, j)'
  PROVE  \/ OwesCall(w, j)
         \/ Claim(w) /\ Due(j) /\ row'[j] = Claimed(row[j], w)
<1>1. PICK i \in 1..Len(batch'[w]) :
        batch'[w][i] = j /\ (i = 1 => pc'[w] \in {"next", "request"})
  BY DEF OwesCall
<1>2. CASE batch[w] # <<>> /\ batch'[w] = Tail(batch[w])
  <2>1. i + 1 \in 1..Len(batch[w]) /\ i + 1 # 1 /\ batch[w][i + 1] = j
    BY <1>1, <1>2, Shifted
  <2> QED
    BY <2>1 DEF OwesCall
<1>3. CASE Claim(w)
  <2>1. \/ ~(\E k \in 1..Len(batch'[w]) : batch'[w][k] = j) /\ row'[j] = row[j]
        \/ Due(j) /\ row'[j] = Claimed(row[j], w)
    BY <1>3, ClaimedRows DEF TypeInv, TypeOK
  <2> QED
    BY <1>1, <1>3, <2>1
<1>4. CASE batch'[w] = batch[w] /\ i # 1
  BY <1>1, <1>4 DEF OwesCall
<1>5. CASE batch'[w] = batch[w] /\ i = 1 /\ ~Claim(w)
  <2>1. batch[w] # <<>> /\ batch[w] \in Seq(Job)
    BY <1>1, <1>5 DEF TypeInv, TypeOK
  <2>2. ~NextJob(w)
    <3>1. Len(Tail(batch[w])) # Len(batch[w])
      BY <2>1, CurrentJob
    <3>2. NextJob(w) => batch'[w] = Tail(batch[w])
      BY DEF NextJob, TypeInv, TypeOK
    <3> QED
      BY <1>5, <3>1, <3>2
  <2>3. ASSUME pc'[w] = "request"
        PROVE  pc[w] \in {"next", "request"}
    <3>1. pc'[w] \in ProcessorSteps
      BY <2>3 DEF ProcessorSteps
    <3>2. CASE Load(w)
      BY <3>2 DEF Load
    <3>3. CASE Request(w)
      BY <3>3 DEF Request
    <3>4. CASE Checkpoint(w) \/ Notify(w)
      BY <2>3, <3>4 DEF Checkpoint, Notify, Goto, TypeInv, TypeOK
    <3>5. CASE Poll(w)
      BY <2>3, <3>5, Turns DEF Poll
    <3>6. CASE Deliver(w)
      BY <2>3, <3>6, Turns DEF Deliver
    <3> QED
      BY <2>3, <3>1, <3>2, <3>3, <3>4, <3>5, <3>6, ProcessorMoves
  <2>4. pc[w] \in {"next", "request"}
    BY <1>1, <1>5, <2>2, <2>3, ToNext
  <2> QED
    BY <1>1, <1>5, <2>4 DEF OwesCall
<1>6. CASE batch'[w] = <<>>
  BY <1>1, <1>6
<1> QED
  BY <1>2, <1>3, <1>4, <1>5, <1>6, BatchMoves

\* Only the plan to poll gives an attempt back.
LEMMA SettledAttempts ==
  ASSUME TypeInv, NEW w \in Worker, Settle(w), NEW j \in Job, j = Current(w),
         row[j].status = "processing", task[w].plan # "poll"
  PROVE  row'[j].attempts = row[j].attempts
<1> DEFINE Good(r) == r.attempts = row[j].attempts
<1>1. row[j] \in Row /\ row \in [Job -> Row]
  BY DEF TypeInv, TypeOK
<1>2. ASSUME NEW s, NEW e
      PROVE  /\ Good(Released(row[j], s, e))
             /\ \A d : Good([Released(row[j], s, e) EXCEPT !.due = d])
             /\ \A v : Good([Released(row[j], s, e) EXCEPT !.values = v])
  BY <1>1 DEF Released, Row
<1>3. ASSUME NEW r, Transition(j, r), Good(r)
      PROVE  Good(row'[j])
  BY <1>1, <1>3 DEF Transition
<1>4. ASSUME NEW e, MarkFailed(j, e)
      PROVE  Good(row'[j])
  BY <1>2, <1>3, <1>4 DEF MarkFailed
<1>5. ASSUME MarkExpired(j)
      PROVE  Good(row'[j])
  BY <1>2, <1>3, <1>5 DEF MarkExpired
<1>6. ASSUME NEW e, NEW d, ScheduleRetry(j, e, d)
      PROVE  Good(row'[j])
  <2>1. Good([Released(row[j], "retry", e) EXCEPT !.due = d])
    BY <1>2
  <2> QED
    BY <1>3, <1>6, <2>1 DEF ScheduleRetry
<1>7. ASSUME NEW v, MarkCompleted(j, v)
      PROVE  Good(row'[j])
  <2>1. Good([Released(row[j], "completed", "none") EXCEPT !.values = v])
    BY <1>2
  <2> QED
    BY <1>3, <1>7, <2>1 DEF MarkCompleted
<1>8. ASSUME NEW e, Retry(j, task[w], e)
      PROVE  Good(row'[j])
  BY <1>4, <1>6, <1>8 DEF Retry
<1>9. Good(row'[j])
  BY <1>4, <1>5, <1>7, <1>8 DEF Settle
<1> QED
  BY <1>9

\* The attempts of a REST request only grow.
LEMMA AttemptsGrow ==
  ASSUME TypeInv, QueueInv, PollsAreWaits, [Next]_vars, NEW j \in Job,
         row[j].status # "absent", row[j].robot = "rest_request"
  PROVE  row'[j].attempts >= row[j].attempts
<1>1. row[j] \in Row /\ row'[j] \in Row /\ row[j].attempts \in Int /\ row'[j].attempts \in Int
  <2>1. row[j] \in Row /\ row'[j] \in Row
    BY NextType DEF TypeInv, TypeOK
  <2> QED
    BY <2>1, JobsAssumption DEF Row
<1>2. CASE row'[j] = row[j]
  BY <1>1, <1>2
<1>3. CASE row'[j] = Aged(row[j])
  BY <1>1, <1>3, AgedRow
<1>4. CASE Stale(row[j]) /\ row'[j] = Recovered(row[j])
  BY <1>1, <1>4, RecoveredRow
<1>5. ASSUME NEW w \in Worker, Due(j), row'[j] = Claimed(row[j], w)
      PROVE  row'[j].attempts >= row[j].attempts
  <2>1. row'[j].attempts = row[j].attempts + 1
    BY <1>1, <1>5, ClaimedRow DEF Due
  <2> QED
    BY <1>1, <2>1
<1>6. ASSUME NEW w \in Worker, Checkpoint(w), j = Current(w)
      PROVE  row'[j].attempts >= row[j].attempts
  <2> DEFINE v == task[w].values
  <2>1. \/ row'[j] = row[j]
        \/ row'[j] = [row[j] EXCEPT !.requestDone = TRUE, !.values = v]
    BY <1>6, CheckpointRow
  <2> HIDE DEF v
  <2>2. row'[j].attempts = row[j].attempts
    BY <1>1, <2>1 DEF Row
  <2> QED
    BY <1>1, <2>2
<1>7. ASSUME NEW w \in Worker, Settle(w), j = Current(w), row[j].status = "processing"
      PROVE  row'[j].attempts >= row[j].attempts
  <2>1. task[w].plan # "poll"
    BY <1>7 DEF Settle, PollsAreWaits
  <2> QED
    BY <1>1, <1>7, <2>1, SettledAttempts
<1> QED
  BY <1>2, <1>3, <1>4, <1>5, <1>6, <1>7, RowWriters

\* Sets of workers that owe a request: fewer of them need no larger a budget.
LEMMA Smaller ==
  ASSUME NEW S, IsFiniteSet(S), NEW T, T \subseteq S
  PROVE  /\ IsFiniteSet(T) /\ Cardinality(T) \in Nat /\ Cardinality(S) \in Nat
         /\ Cardinality(T) <= Cardinality(S)
BY FS_Subset, FS_CardinalityType

LEMMA OneMore ==
  ASSUME NEW S, IsFiniteSet(S), NEW x, NEW T, T \subseteq S \cup {x}
  PROVE  /\ IsFiniteSet(T) /\ Cardinality(T) \in Nat /\ Cardinality(S) \in Nat
         /\ Cardinality(T) <= Cardinality(S) + 1
<1>1. /\ IsFiniteSet(S \cup {x}) /\ Cardinality(S) \in Nat
      /\ Cardinality(S \cup {x}) <= Cardinality(S) + 1
  <2>1. /\ Cardinality(S) \in Nat /\ IsFiniteSet(S \cup {x})
        /\ Cardinality(S \cup {x}) = IF x \in S THEN Cardinality(S) ELSE Cardinality(S) + 1
    BY FS_AddElement, FS_CardinalityType
  <2> QED
    BY <2>1
<1>2. /\ IsFiniteSet(T) /\ Cardinality(T) \in Nat /\ Cardinality(S \cup {x}) \in Nat
      /\ Cardinality(T) <= Cardinality(S \cup {x})
  BY <1>1, Smaller
<1> QED
  BY <1>1, <1>2

LEMMA OneLess ==
  ASSUME NEW S, IsFiniteSet(S), NEW x \in S, NEW T, T \subseteq S \ {x}
  PROVE  /\ IsFiniteSet(T) /\ Cardinality(T) \in Nat /\ Cardinality(S) \in Nat
         /\ Cardinality(T) + 1 <= Cardinality(S)
<1>1. /\ IsFiniteSet(S \ {x}) /\ Cardinality(S) \in Nat
      /\ Cardinality(S \ {x}) = Cardinality(S) - 1
  BY FS_RemoveElement, FS_CardinalityType
<1>2. /\ IsFiniteSet(T) /\ Cardinality(T) \in Nat /\ Cardinality(S \ {x}) \in Nat
      /\ Cardinality(T) <= Cardinality(S \ {x})
  BY <1>1, Smaller
<1> QED
  BY <1>1, <1>2

\* The calls of a job change only by its request.
LEMMA CallsMove ==
  ASSUME TypeInv, [Next]_vars, NEW j \in Job
  PROVE  /\ portal[j].calls \in Nat
         /\ \/ portal'[j].calls = portal[j].calls
            \/ /\ portal'[j].calls = portal[j].calls + 1
               /\ \E w \in Worker : pc[w] = "request" /\ Request(w) /\ j = Current(w)
<1>1. portal[j] \in Portal
  BY DEF TypeInv, TypeOK
<1>2. ASSUME portal'[j] = [portal[j] EXCEPT !.notices = IF @ < NoticeCap THEN @ + 1 ELSE @]
      PROVE  portal'[j].calls = portal[j].calls
  <2> DEFINE n == IF portal[j].notices < NoticeCap THEN portal[j].notices + 1
                  ELSE portal[j].notices
  <2>1. portal'[j] = [portal[j] EXCEPT !.notices = n]
    BY <1>2
  <2> HIDE DEF n
  <2> QED
    BY <1>1, <2>1 DEF Portal
<1>3. ASSUME portal'[j] = [portal[j] EXCEPT !.calls = @ + 1]
      PROVE  portal'[j].calls = portal[j].calls + 1
  <2> DEFINE n == portal[j].calls + 1
  <2>1. portal'[j] = [portal[j] EXCEPT !.calls = n]
    BY <1>3
  <2> HIDE DEF n
  <2>2. portal'[j].calls = n
    BY <1>1, <2>1 DEF Portal
  <2> QED
    BY <2>2 DEF n
<1>4. ASSUME NEW w \in Worker,
             portal'[j] = [portal[j] EXCEPT !.token = "used", !.result = task[w].values]
      PROVE  portal'[j].calls = portal[j].calls
  BY <1>1, <1>4 DEF Portal
<1>5. ASSUME portal'[j] = [portal[j] EXCEPT !.token = "gone"]
      PROVE  portal'[j].calls = portal[j].calls
  BY <1>1, <1>5 DEF Portal
<1>6. portal[j].calls \in Nat
  BY <1>1 DEF Portal
<1>7. CASE \E w \in Worker : /\ pc[w] = "request" /\ Request(w) /\ j = Current(w)
                             /\ portal'[j] = [portal[j] EXCEPT !.calls = @ + 1]
  BY <1>3, <1>6, <1>7
<1>8. CASE portal'[j] = portal[j]
  BY <1>6, <1>8
<1> QED
  BY <1>2, <1>4, <1>5, <1>6, <1>7, <1>8, PortalEvolves

\* Who has sent the request of a job does not owe it any more.
LEMMA SenderIsThrough ==
  ASSUME TypeInv, BatchDistinct, NEW w \in Worker, pc[w] = "request", Request(w),
         NEW j \in Job, j = Current(w)
  PROVE  OwesCall(w, j) /\ ~OwesCall(w, j)'
<1>1. batch[w] # <<>>
  BY DEF TypeInv, Busy, ProcessorSteps
<1>2. j = batch[w][1] /\ 1 \in 1..Len(batch[w])
  BY <1>1, FirstJob
<1>3. OwesCall(w, j)
  BY <1>2 DEF OwesCall
<1>4. \A i \in 1..Len(batch[w]) : i # 1 => batch[w][i] # j
  BY <1>2 DEF BatchDistinct
<1>5. CASE batch' = batch /\ (pc'[w] = "checkpoint" \/ pc'[w] = "settle")
  <2>1. ASSUME NEW i \in 1..Len(batch'[w]), batch'[w][i] = j, i = 1 => pc'[w] \in {"next", "request"}
        PROVE  FALSE
    <3>1. i = 1
      BY <1>4, <1>5, <2>1
    <3> QED
      BY <1>5, <2>1, <3>1
  <2> QED
    BY <1>3, <2>1 DEF OwesCall
<1>6. CASE NextJob(w)
  <2>1. batch'[w] = Tail(batch[w])
    BY <1>6 DEF NextJob, TypeInv, TypeOK
  <2>2. ASSUME NEW i \in 1..Len(batch'[w])
        PROVE  batch'[w][i] # j
    <3>1. i + 1 \in 1..Len(batch[w]) /\ i + 1 # 1 /\ batch'[w][i] = batch[w][i + 1]
      BY <1>1, <2>1, <2>2, Shifted
    <3> QED
      BY <1>4, <3>1
  <2> QED
    BY <1>3, <2>2 DEF OwesCall
<1>7. \/ NextJob(w)
      \/ batch' = batch /\ (pc'[w] = "checkpoint" \/ pc'[w] = "settle")
  BY Turns DEF Request, RequestEnds, Decide, Plan
<1> QED
  BY <1>3, <1>5, <1>6, <1>7

\* Before its first claim nobody owes the request of a job.
LEMMA NobodyOwesAbsent ==
  ASSUME TypeInv, QueueInv, NEW j \in Job, row[j].status = "absent"
  PROVE  Owing(j) = {}
BY DEF QueueInv, Begun, Owing, OwesCall

\* A job that is inserted has neither calls nor attempts.
LEMMA CreatedBlank ==
  ASSUME TypeInv, QueueInv, NEW j \in Job, row[j].status = "absent", Budgets(j), Create(j)
  PROVE  /\ portal[j].calls = 0 /\ portal' = portal
         /\ row'[j].attempts = 0 /\ Owing(j)' = {}
<1>1. row[j].attempts = 0 /\ Owing(j) = {}
  BY NobodyOwesAbsent DEF QueueInv, BlankBeforeInsertion
<1>2. Cardinality({}) = 0 /\ portal[j].calls \in Nat
  BY FS_EmptySet DEF TypeInv, TypeOK, Portal
<1>3. portal[j].calls = 0
  BY <1>1, <1>2 DEF Budgets
<1>4. row'[j].attempts = 0
  BY DEF Create, NoRow, TypeInv, TypeOK
<1>5. Owing(j)' = Owing(j)
  BY DEF Create, Owing, OwesCall
<1> QED
  BY <1>1, <1>3, <1>4, <1>5 DEF Create

LEMMA NextBudget ==
  ASSUME TypeInv, QueueInv, BatchDistinct, PollsAreWaits, [Next]_vars,
         NEW j \in Job, Budgets(j)
  PROVE  Budgets(j)'
<1>0. /\ row[j].attempts \in Int /\ row'[j].attempts \in Int
      /\ portal[j].calls \in Nat /\ portal'[j].calls \in Nat
  <2>1. row[j] \in Row /\ row'[j] \in Row /\ portal[j] \in Portal /\ portal'[j] \in Portal
    BY NextType DEF TypeInv, TypeOK
  <2> QED
    BY <2>1, JobsAssumption DEF Row, Portal
<1>1. CASE row[j].status = "absent" /\ Create(j)
  <2>1. /\ portal'[j].calls = 0 /\ row'[j].attempts = 0 /\ Owing(j)' = {}
    BY <1>1, CreatedBlank
  <2>2. IsFiniteSet({}) /\ Cardinality({}) = 0
    BY FS_EmptySet
  <2> QED
    BY <2>1, <2>2 DEF Budgets
<1>2. CASE row[j].robot # "rest_request" /\ ~(row[j].status = "absent" /\ Create(j))
  <2>1. portal[j].calls = 0
    BY <1>2 DEF Budgets
  <2>2. \A w \in Worker : ~(pc[w] = "request" /\ j = Current(w))
    BY <1>2 DEF QueueInv, RightRobot
  <2>3. portal'[j].calls = 0
    BY <2>1, <2>2, CallsMove
  <2>4. row'[j].robot # "rest_request"
    BY <1>2, AbsentRow, RowEvolves
  <2> QED
    BY <2>3, <2>4 DEF Budgets
<1>3. CASE row[j].robot = "rest_request" /\ ~(row[j].status = "absent" /\ Create(j))
  <2> DEFINE S == Owing(j)
             T == Owing(j)'
  <2>1. IsFiniteSet(S) /\ portal[j].calls + Cardinality(S) <= row[j].attempts
    BY <1>3 DEF Budgets
  <2>2. row'[j].robot = "rest_request" /\ row'[j].attempts >= row[j].attempts
    <3>1. CASE row[j].status = "absent"
      BY <1>0, <1>3, <3>1, AbsentRow
    <3>2. CASE row[j].status # "absent"
      BY <1>3, <3>2, RowEvolves, AttemptsGrow
    <3> QED
      BY <3>1, <3>2
  <2>3. ASSUME IsFiniteSet(T), portal'[j].calls + Cardinality(T) <= row'[j].attempts
        PROVE  Budgets(j)'
    BY <2>2, <2>3 DEF Budgets
  <2>4. \A w \in Worker : w \in T =>
          w \in S \/ (Claim(w) /\ Due(j) /\ row'[j] = Claimed(row[j], w))
    BY OwingMoves DEF Owing
  <2>5. T \subseteq Worker /\ S \subseteq Worker
    BY DEF Owing
  <2>6. ASSUME NEW w \in Worker, Claim(w), Due(j), row'[j] = Claimed(row[j], w)
        PROVE  Budgets(j)'
    <3>1. row'[j].attempts = row[j].attempts + 1
      BY <2>6, ClaimedRow DEF Due, TypeInv, TypeOK
    <3>2. ASSUME NEW v \in Worker, v \in T, v # w
          PROVE  v \in S
      <4>1. batch'[v] = batch[v] /\ pc'[v] = pc[v]
        BY <2>6, <3>2 DEF Claim, Goto, TypeInv, TypeOK
      <4> QED
        BY <3>2, <4>1 DEF Owing, OwesCall
    <3>3. T \subseteq S \cup {w}
      BY <2>5, <3>2
    <3> HIDE DEF S, T
    <3>4. IsFiniteSet(T) /\ Cardinality(T) \in Nat /\ Cardinality(S) \in Nat
          /\ Cardinality(T) <= Cardinality(S) + 1
      BY <2>1, <3>3, OneMore
    <3>5. portal'[j].calls = portal[j].calls
      BY <2>6 DEF Claim
    <3> QED
      BY <1>0, <2>1, <2>3, <3>1, <3>4, <3>5
  <2>7. CASE T \subseteq S /\ portal'[j].calls = portal[j].calls
    <3> HIDE DEF S, T
    <3>1. IsFiniteSet(T) /\ Cardinality(T) \in Nat /\ Cardinality(S) \in Nat
          /\ Cardinality(T) <= Cardinality(S)
      BY <2>1, <2>7, Smaller
    <3> QED
      BY <1>0, <2>1, <2>2, <2>3, <2>7, <3>1
  <2>8. ASSUME T \subseteq S, portal'[j].calls = portal[j].calls + 1,
               NEW w \in Worker, pc[w] = "request", Request(w), j = Current(w)
        PROVE  Budgets(j)'
    <3>1. w \in S /\ w \notin T
      BY <2>8, SenderIsThrough DEF Owing
    <3>2. T \subseteq S \ {w}
      BY <2>8, <3>1
    <3> HIDE DEF S, T
    <3>3. IsFiniteSet(T) /\ Cardinality(T) \in Nat /\ Cardinality(S) \in Nat
          /\ Cardinality(T) + 1 <= Cardinality(S)
      BY <2>1, <3>1, <3>2, OneLess
    <3> QED
      BY <1>0, <2>1, <2>2, <2>3, <2>8, <3>3
  <2>9. T \subseteq S \/ \E w \in Worker : Claim(w) /\ Due(j) /\ row'[j] = Claimed(row[j], w)
    BY <2>4, <2>5
  <2> QED
    BY <2>6, <2>7, <2>8, <2>9, CallsMove
<1> QED
  BY <1>1, <1>2, <1>3

LEMMA NextCalls ==
  TypeInv /\ QueueInv /\ CallsInv /\ [Next]_vars => TypeInv' /\ QueueInv' /\ CallsInv'
<1> SUFFICES ASSUME TypeInv, QueueInv, CallsInv, [Next]_vars PROVE CallsInv'
  BY NextQueue
<1>1. BatchDistinct' /\ PollsAreWaits'
  BY NextDistinct, NextPolls DEF CallsInv
<1>2. ASSUME NEW j \in Job
      PROVE  Budgets(j)'
  BY NextBudget DEF CallsInv
<1> QED
  BY <1>1, <1>2 DEF CallsInv

\* The portal runs the method of a REST request at most once for every claim of its
\* job, and so max_attempts times at most: no lost answer, crash, overrun lease or
\* recovery gets a call for free.
THEOREM CallsCostAttempts == Spec => []CallsArePaid
<1>1. TypeInv /\ QueueInv /\ CallsInv => CallsArePaid
  <2> SUFFICES ASSUME TypeInv, CallsInv, NEW j \in Job
               PROVE  portal[j].calls <= row[j].attempts
    BY DEF CallsArePaid
  <2>1. /\ portal[j].calls \in Nat /\ row[j].attempts \in Nat
    <3>1. row[j] \in Row /\ portal[j] \in Portal
      BY DEF TypeInv, TypeOK
    <3> QED
      BY <3>1, JobsAssumption DEF Row, Portal
  <2>2. CASE row[j].robot # "rest_request"
    BY <2>1, <2>2 DEF CallsInv, Budgets
  <2>3. CASE row[j].robot = "rest_request"
    <3>1. IsFiniteSet(Owing(j)) /\ portal[j].calls + Cardinality(Owing(j)) <= row[j].attempts
      BY <2>3 DEF CallsInv, Budgets
    <3>2. Cardinality(Owing(j)) \in Nat
      BY <3>1, FS_CardinalityType
    <3> QED
      BY <2>1, <3>1, <3>2
  <2> QED
    BY <2>2, <2>3
<1> QED
  BY <1>1, InitType, InitQueue, InitCalls, NextCalls, PTL DEF Spec
=============================================================================
