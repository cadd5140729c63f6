-------------------------------- MODULE Jobs --------------------------------
(***************************************************************************)
(* The durable job queue of app/jobs: the automation_jobs table            *)
(* (repository.py), the polling loop of every worker process (worker.py)   *)
(* and the processing of the three robots (processor.py), against a        *)
(* Bitrix24 portal that answers, refuses, or loses an answer.              *)
(*                                                                         *)
(* One SQL transaction is one action: each of the repository's methods     *)
(* runs in a transaction of its own.  Every await between two of them (an  *)
(* HTTP call, a clock tick, another worker) is a point where any other     *)
(* actor may step.                                                         *)
(*                                                                         *)
(* Timestamps are kept relative to the present, because the code only ever *)
(* compares them with the clock: `due' is run_at - now, `lease' is         *)
(* now - locked_at, `deadline' is the instant before which the robot may   *)
(* not resume the process (scheduled_at + requested delay of the short     *)
(* pause, created_at + timeout of the field wait) minus now.               *)
(***************************************************************************)
EXTENDS Integers, Sequences, FiniteSets, BitrixClient

CONSTANTS
  Job,               \* possible rows, one per (portal_id, event_token_hash)
  Robots,            \* the robots the portal's processes use
  Worker,            \* worker process incarnations, each with its worker_id
  OnceWorker,        \* the incarnations started with --once
  NoWorker,          \* locked_by IS NULL
  Replicas,          \* how many workers the deployment runs at a time
  BatchSize,         \* worker_batch_size
  MaxAttempts,       \* max_attempts
  LeaseTimeout,      \* worker_lock_timeout_seconds
  RecoveryInterval,  \* worker_recovery_interval_seconds
  InitialDelay,      \* delay_seconds of a short pause
  FieldTimeout,      \* timeout_seconds of a field wait
  PollInterval,      \* poll_interval_seconds of a field wait
  RetryDelays,       \* what retry_at may add to the clock
  OverdueCap,        \* bound: how far in the past run_at is still told apart
  NoticeCap,         \* bound: rounds of notifications counted
  LeaseOverrun       \* may a worker still be busy with a batch when its lease ends?

RobotCodes == {"short_pause", "rest_request", "wait_field"}

ASSUME JobsAssumption ==
  /\ Robots \subseteq RobotCodes
  /\ OnceWorker \subseteq Worker
  /\ NoWorker \notin Worker
  /\ Replicas \in Nat /\ BatchSize \in Nat \ {0} /\ MaxAttempts \in Nat \ {0}
  /\ LeaseTimeout \in Nat /\ RecoveryInterval \in Nat
  /\ InitialDelay \in Nat /\ FieldTimeout \in Nat /\ PollInterval \in Nat
  /\ RetryDelays \subseteq Nat /\ RetryDelays # {}
  /\ OverdueCap \in Nat /\ NoticeCap \in Nat \ {0}
  /\ LeaseOverrun \in BOOLEAN

VARIABLES
  row,        \* row[j]: the row of automation_jobs
  pc,         \* pc[w]: where worker w is in worker_loop or in the processor
  stop,       \* stop[w]: the shutdown event, set by SIGTERM or SIGINT
  recoverIn,  \* recoverIn[w]: next_recovery - now
  batch,      \* batch[w]: the claimed jobs not yet processed, the current one first
  task,       \* task[w]: the processor's local variables for the current job
  portal      \* portal[j]: what job j has done on the portal

vars == <<row, pc, stop, recoverIn, batch, task, portal>>

(***************************************************************************)
(* Types.                                                                  *)
(***************************************************************************)
Status == {"absent", "pending", "processing", "retry", "completed", "failed", "expired"}
Terminal == {"completed", "failed", "expired"}
Values == {"pending", "completed", "timeout", "error"}
Errors == {"none", "outcome_unknown", "temporary", "stale_recovered",
           "attempts_exhausted", "stale_exhausted", "failed",
           "manual_review", "token_expired"}

Row == [robot : RobotCodes, status : Status, attempts : 0..MaxAttempts, due : Int,
        lease : 0..(LeaseTimeout + 1), lockedBy : Worker \cup {NoWorker},
        error : Errors, requestDone : BOOLEAN, values : Values, deadline : Nat]

Plans == {"none", "complete", "retry_unknown", "retry_temporary", "poll",
          "fail", "review", "expire"}
Task == [attempts : 0..MaxAttempts, error : Errors, requestDone : BOOLEAN,
         values : Values, plan : Plans]

ProcessorSteps == {"request", "poll", "checkpoint", "notify", "deliver", "settle"}
Steps == {"off", "loop", "claim", "next", "sleep", "ended"} \cup ProcessorSteps

(* token: EVENT_TOKEN is live, was used by us, or is gone with its process; *)
(* result: the values the process was resumed with; calls: runs of the      *)
(* application's REST method; notices: rounds of user notifications.        *)
Portal == [token : {"live", "used", "gone"}, result : Values,
           calls : Nat, notices : 0..NoticeCap]

TypeOK ==
  /\ row \in [Job -> Row]
  /\ pc \in [Worker -> Steps]
  /\ stop \in [Worker -> BOOLEAN]
  /\ recoverIn \in [Worker -> 0..RecoveryInterval]
  /\ batch \in [Worker -> Seq(Job)]
  /\ task \in [Worker -> Task]
  /\ portal \in [Job -> Portal]

(***************************************************************************)
(* The automation_jobs table.                                              *)
(***************************************************************************)
NoRow == [robot |-> "short_pause", status |-> "absent", attempts |-> 0, due |-> 0, lease |-> 0,
          lockedBy |-> NoWorker, error |-> "none", requestDone |-> FALSE,
          values |-> "pending", deadline |-> 0]

\* Mutant: an UPDATE by id only.
Transition_by_id(j, r) == row' = [row EXCEPT ![j] = r]

\* _transition: an UPDATE guarded by the id and by status = 'processing' alone.
Transition(j, r) ==
  row' = IF row[j].status = "processing" THEN [row EXCEPT ![j] = r] ELSE row

\* Leaving 'processing' clears locked_at and locked_by.
Released(r, s, e) ==
  [r EXCEPT !.status = s, !.error = e, !.lease = 0, !.lockedBy = NoWorker]

MarkCompleted(j, v) ==
  Transition(j, [Released(row[j], "completed", "none") EXCEPT !.values = v])

MarkFailed(j, e) == Transition(j, Released(row[j], "failed", e))

MarkExpired(j) == Transition(j, Released(row[j], "expired", "token_expired"))

ScheduleRetry(j, e, d) ==
  Transition(j, [Released(row[j], "retry", e) EXCEPT !.due = d])

\* Mutant: a poll gives the whole budget back.
SchedulePoll_resets(j) ==
  Transition(j, [Released(row[j], "retry", "none") EXCEPT
                   !.due = PollInterval, !.attempts = 0])

\* A field poll gives the attempt of its claim back: greatest(attempts - 1, 0).
SchedulePoll(j) ==
  Transition(j, [Released(row[j], "retry", "none") EXCEPT
                   !.due = PollInterval,
                   !.attempts = IF @ > 0 THEN @ - 1 ELSE 0])

\* Mutants: return_values is not part of the checkpoint; errors are not saved.
SaveProcessingResult_flag(j, v) == Transition(j, [row[j] EXCEPT !.requestDone = TRUE])

SaveProcessingResult_ok(j, v) ==
  Transition(j, IF v = "error" THEN row[j]
                ELSE [row[j] EXCEPT !.requestDone = TRUE, !.values = v])

SaveProcessingResult(j, v) ==
  Transition(j, [row[j] EXCEPT !.requestDone = TRUE, !.values = v])

\* Mutants: the lease's age is not looked at; rows out of attempts are left alone.
Stale_any(r) == r.status = "processing"

Stale_in_budget(r) ==
  r.status = "processing" /\ r.lease > LeaseTimeout /\ r.attempts < MaxAttempts

\* The rows recover_stale_jobs selects: locked_at < now - lock_timeout.
Stale(r) == r.status = "processing" /\ r.lease > LeaseTimeout

\* Mutant: every recovered row is retried.
Recovered_retry(r) == [Released(r, "retry", "stale_recovered") EXCEPT !.due = 0]

\* Mutant: a recovered row gets the attempt of its claim back, as a poll does.
Recovered_free(r) ==
  IF r.attempts >= MaxAttempts
  THEN Released(r, "failed", "stale_exhausted")
  ELSE [Released(r, "retry", "stale_recovered") EXCEPT
          !.due = 0, !.attempts = IF @ > 0 THEN @ - 1 ELSE 0]

Recovered(r) ==
  IF r.attempts >= MaxAttempts
  THEN Released(r, "failed", "stale_exhausted")
  ELSE [Released(r, "retry", "stale_recovered") EXCEPT !.due = 0]

\* Mutants: without the test of attempts, without the test of run_at.
Due_any_attempts(j) == row[j].status \in {"pending", "retry"} /\ row[j].due <= 0

Due_any_time(j) ==
  row[j].status \in {"pending", "retry"} /\ row[j].attempts < MaxAttempts

\* The rows claim_due_jobs selects, and one of them once it is claimed.
Due(j) ==
  row[j].status \in {"pending", "retry"} /\ row[j].due <= 0
  /\ row[j].attempts < MaxAttempts

Claimed(r, w) ==
  [r EXCEPT !.status = "processing", !.lease = 0, !.lockedBy = w, !.attempts = @ + 1]

\* ORDER BY run_at LIMIT batch_size: s lists as many due jobs as fit, none
\* due later than one that is left out (equal run_at: created_at is abstracted).
ClaimOrder(s) ==
  LET chosen == {s[i] : i \in 1..Len(s)}
      due == {j \in Job : Due(j)}
  IN  /\ chosen \subseteq due
      /\ Len(s) = BatchSize \/ chosen = due
      /\ \A i, k \in 1..Len(s) :
           i < k => s[i] # s[k] /\ row[s[i]].due <= row[s[k]].due
      /\ \A j \in chosen, k \in due \ chosen : row[j].due <= row[k].due

(***************************************************************************)
(* Initial state: an empty table and no worker yet.                        *)
(***************************************************************************)
NoTask == [attempts |-> 0, error |-> "none", requestDone |-> FALSE,
           values |-> "pending", plan |-> "none"]

NewPortal == [token |-> "live", result |-> "pending", calls |-> 0, notices |-> 0]

Init ==
  /\ row = [j \in Job |-> NoRow]
  /\ pc = [w \in Worker |-> "off"]
  /\ stop = [w \in Worker |-> FALSE]
  /\ recoverIn = [w \in Worker |-> 0]
  /\ batch = [w \in Worker |-> <<>>]
  /\ task = [w \in Worker |-> NoTask]
  /\ portal = [j \in Job |-> NewPortal]

(***************************************************************************)
(* The intake and the portal's users.                                      *)
(***************************************************************************)
InitialDue(robot) == IF robot = "short_pause" THEN InitialDelay ELSE 0

InitialDeadline(robot) ==
  CASE robot = "short_pause"  -> InitialDelay
    [] robot = "wait_field"   -> FieldTimeout
    [] robot = "rest_request" -> 0

\* A robot's callback inserts the row; ON CONFLICT DO NOTHING keeps an existing one.
Create(j) ==
  /\ row[j].status = "absent"
  /\ \E robot \in Robots :
       row' = [row EXCEPT ![j] = [NoRow EXCEPT !.robot = robot,
                                               !.status = "pending",
                                               !.due = InitialDue(robot),
                                               !.deadline = InitialDeadline(robot)]]
  /\ UNCHANGED <<pc, stop, recoverIn, batch, task, portal>>

\* A user terminates the business process: its EVENT_TOKEN is gone.
Terminate(j) ==
  /\ row[j].status # "absent" /\ portal[j].token = "live"
  /\ portal' = [portal EXCEPT ![j].token = "gone"]
  /\ UNCHANGED <<row, pc, stop, recoverIn, batch, task>>

(***************************************************************************)
(* Time.  Every relative timestamp moves; those that are past saturate.    *)
(***************************************************************************)
Held(w) == {batch[w][i] : i \in 1..Len(batch[w])}

Down(n) == IF n > 0 THEN n - 1 ELSE 0

Aged(r) ==
  [r EXCEPT !.due = IF @ > -OverdueCap THEN @ - 1 ELSE @,
            !.lease = IF r.status = "processing" /\ @ <= LeaseTimeout THEN @ + 1 ELSE @,
            !.deadline = Down(@)]

Tick ==
  /\ LeaseOverrun \/ \A w \in Worker : \A j \in Held(w) : row[j].lease < LeaseTimeout
  /\ row' = [j \in Job |-> IF row[j].status = "absent" THEN row[j] ELSE Aged(row[j])]
  /\ recoverIn' = [w \in Worker |-> Down(recoverIn[w])]
  /\ UNCHANGED <<pc, stop, batch, task, portal>>

(***************************************************************************)
(* worker_loop.                                                            *)
(***************************************************************************)
Running == {w \in Worker : pc[w] \notin {"off", "ended"}}

Goto(w, step) == pc' = [pc EXCEPT ![w] = step]

Start(w) ==
  /\ pc[w] = "off" /\ Cardinality(Running) < Replicas
  /\ Goto(w, "loop")
  /\ UNCHANGED <<row, stop, recoverIn, batch, task, portal>>

\* The process is gone, and with it all it kept in memory.
Leave(w) ==
  /\ Goto(w, "ended")
  /\ batch' = [batch EXCEPT ![w] = <<>>]
  /\ task' = [task EXCEPT ![w] = NoTask]
  /\ UNCHANGED <<row, stop, recoverIn, portal>>

\* The three tests of the shutdown event; the third drops what is left of the batch.
ShutDown(w) == stop[w] /\ pc[w] \in {"loop", "claim", "next"} /\ Leave(w)

Recover(w) ==
  /\ pc[w] = "loop" /\ ~stop[w] /\ recoverIn[w] = 0
  /\ row' = [j \in Job |-> IF Stale(row[j]) THEN Recovered(row[j]) ELSE row[j]]
  /\ recoverIn' = [recoverIn EXCEPT ![w] = RecoveryInterval]
  /\ Goto(w, "claim")
  /\ UNCHANGED <<stop, batch, task, portal>>

SkipRecovery(w) ==
  /\ pc[w] = "loop" /\ ~stop[w] /\ recoverIn[w] > 0
  /\ Goto(w, "claim")
  /\ UNCHANGED <<row, stop, recoverIn, batch, task, portal>>

\* claim_due_jobs: one transaction claims the whole batch under one lease.
Claim(w) ==
  /\ pc[w] = "claim" /\ ~stop[w]
  /\ \E n \in 0..BatchSize : \E s \in [1..n -> Job] :
       /\ ClaimOrder(s)
       /\ batch' = [batch EXCEPT ![w] = s]
       /\ row' = [j \in Job |-> IF \E i \in 1..n : s[i] = j
                                THEN Claimed(row[j], w) ELSE row[j]]
  /\ Goto(w, "next")
  /\ UNCHANGED <<stop, recoverIn, task, portal>>

\* The batch is done: --once returns, otherwise the worker sleeps.
EndBatch(w) ==
  /\ pc[w] = "next" /\ ~stop[w] /\ batch[w] = <<>>
  /\ IF w \in OnceWorker
     THEN Leave(w)
     ELSE Goto(w, "sleep") /\ UNCHANGED <<row, stop, recoverIn, batch, task, portal>>

\* The sleep ends; its length only matters through the ticks it lets pass.
Wake(w) ==
  /\ pc[w] = "sleep"
  /\ Goto(w, "loop")
  /\ UNCHANGED <<row, stop, recoverIn, batch, task, portal>>

(***************************************************************************)
(* The processor.                                                          *)
(***************************************************************************)
Current(w) == Head(batch[w])

\* The processor returns or raises: the loop turns to the next job of the batch.
NextJob(w) ==
  /\ batch' = [batch EXCEPT ![w] = Tail(@)]
  /\ task' = [task EXCEPT ![w] = NoTask]
  /\ Goto(w, "next")

\* Mutant: request_completed is not looked at.
FirstStep_again(j) ==
  CASE row[j].robot = "short_pause"  -> "deliver"
    [] row[j].robot = "wait_field"   -> "poll"
    [] row[j].robot = "rest_request" -> "request"

FirstStep(j) ==
  CASE row[j].robot = "short_pause"  -> "deliver"
    [] row[j].robot = "wait_field"   -> "poll"
    [] row[j].robot = "rest_request" -> IF row[j].requestDone THEN "deliver" ELSE "request"

\* process and _load: the row is read once; what follows works on this copy.
Load(w) ==
  LET j == Current(w)
      copy == [attempts |-> row[j].attempts, error |-> row[j].error,
               requestDone |-> row[j].requestDone,
               values |-> IF row[j].requestDone THEN row[j].values ELSE "completed",
               plan |-> "none"]
  IN  /\ pc[w] = "next" /\ ~stop[w] /\ batch[w] # <<>>
      /\ row[j].status = "processing"
      /\ \/ /\ Goto(w, FirstStep(j))
            /\ task' = [task EXCEPT ![w] = copy]
         \/ \* inactive portal, unreadable token or payload: invalid_persisted_job
            /\ Goto(w, "settle")
            /\ task' = [task EXCEPT ![w] = [copy EXCEPT !.plan = "fail"]]
      /\ UNCHANGED <<row, stop, recoverIn, batch, portal>>

\* The row is no longer 'processing' by the time it is loaded.
LoadNothing(w) ==
  /\ pc[w] = "next" /\ ~stop[w] /\ batch[w] # <<>>
  /\ row[Current(w)].status # "processing"
  /\ NextJob(w)
  /\ UNCHANGED <<row, stop, recoverIn, portal>>

Plan(w, p) ==
  /\ task' = [task EXCEPT ![w].plan = p]
  /\ Goto(w, "settle")
  /\ UNCHANGED batch

\* The values to resume the process with are known; `step' comes next.
Decide(w, v, step) ==
  /\ task' = [task EXCEPT ![w].values = v]
  /\ Goto(w, step)
  /\ UNCHANGED batch

\* What ends a call for good: the except clause of the last resort in
\* _process_rest_request and _process_wait_field.
FinalErrors ==
  TransportErrors \cup
  {"BitrixPermissionError", "BitrixPermanentError", "BitrixInvalidResponseError",
   "BitrixAuthenticationError", "BitrixConfigurationError",
   "BitrixOAuthConfigurationError", "BitrixOAuthRefreshRejectedError"}

\* _process_rest_request: the application's method.  Rate limiting and OAuth
\* outages retry it; a lost answer or a refusal is an error the process gets; a
\* 5xx (BitrixTemporaryError) and an error of JSONPath escape the processor.
RequestEnds(w, c) ==
  \/ c.class = "result" /\ (Decide(w, "completed", "checkpoint") \/ NextJob(w))
  \/ c.class \in FinalErrors /\ Decide(w, "error", "checkpoint")
  \/ /\ c.class \in {"BitrixRateLimitError", "BitrixOAuthTemporaryError"}
     /\ Plan(w, "retry_temporary")
  \/ c.class \in {"BitrixTemporaryError"} \cup NotBitrixErrors /\ NextJob(w)

Request(w) ==
  LET j == Current(w)
  IN  /\ pc[w] = "request"
      /\ \E c \in PortalCalls :
           /\ portal' = IF c.done THEN [portal EXCEPT ![j].calls = @ + 1] ELSE portal
           /\ RequestEnds(w, c)
      /\ UNCHANGED <<row, stop, recoverIn>>

\* save_processing_result; whether the UPDATE matched a row is not looked at.
Checkpoint(w) ==
  /\ pc[w] = "checkpoint"
  /\ SaveProcessingResult(Current(w), task[w].values)
  /\ Goto(w, IF task[w].values = "error" THEN "notify" ELSE "deliver")
  /\ UNCHANGED <<stop, recoverIn, batch, task, portal>>

\* _process_wait_field: crm.item.get and the test of the deadline.  A result
\* without an item is invalid; an error that is no BitrixError fails the job if it
\* is a ValueError (or of the payload), and else escapes.
Poll(w) ==
  LET j == Current(w)
  IN  /\ pc[w] = "poll"
      /\ \E c \in PortalCalls :
           \/ Obtained(c) /\ Decide(w, "completed", "deliver")
           \/ Obtained(c) /\ row[j].deadline > 0 /\ Plan(w, "poll")
           \/ Obtained(c) /\ row[j].deadline = 0 /\ Decide(w, "timeout", "notify")
           \/ c.class = "result" /\ ~c.expected /\ Decide(w, "error", "notify")
           \/ /\ c.class \in {"BitrixRateLimitError", "BitrixTemporaryError",
                              "BitrixOAuthTemporaryError"}
              /\ Plan(w, "retry_temporary")
           \/ c.class \in FinalErrors /\ Decide(w, "error", "notify")
           \/ c.class \in NotBitrixErrors /\ Plan(w, "fail")
           \/ c.class = "Exception" /\ NextJob(w)
      /\ UNCHANGED <<row, stop, recoverIn, portal>>

\* _notify: best effort, never an error.
Notify(w) ==
  LET j == Current(w)
  IN  /\ pc[w] = "notify"
      /\ portal' = [portal EXCEPT ![j].notices = IF @ < NoticeCap THEN @ + 1 ELSE @]
      /\ Goto(w, "deliver")
      /\ UNCHANGED <<row, stop, recoverIn, batch, task>>

\* Mutant: any result confirms.
Confirmed_by_any(c) == c.class = "result"

\* response.result is True
Confirmed(c) == Obtained(c)

\* What the robots do about the answer to bizproc.event.send: process, and
\* _deliver_subscription, where `except Exception' gives up.
ShortPausePlan(copy, c) ==
  CASE Confirmed(c) -> "complete"
    [] c.denied -> IF copy.error = "outcome_unknown" THEN "review" ELSE "expire"
    [] c.class \in {"BitrixRateLimitError", "BitrixTemporaryError",
                    "BitrixInvalidResponseError", "BitrixOAuthTemporaryError"} -> "retry_temporary"
    [] c.class \in TransportErrors -> "retry_unknown"
    [] OTHER -> "fail"

SubscriptionPlan(c) ==
  CASE Confirmed(c) -> "complete"
    [] c.class \in TransportErrors \cup
                   {"BitrixRateLimitError", "BitrixTemporaryError",
                    "BitrixOAuthTemporaryError", "BitrixInvalidResponseError"} -> "retry_temporary"
    [] OTHER -> "fail"

DeliveryPlan(j, copy, c) ==
  IF row[j].robot = "short_pause" THEN ShortPausePlan(copy, c) ELSE SubscriptionPlan(c)

\* bizproc.event.send: the portal resumes the process once per live token, and
\* denies access to a token that is not.  What is no BitrixError of the short
\* pause's call, and no EncryptionError, escapes.
Deliver(w) ==
  LET j == Current(w)
  IN  /\ pc[w] = "deliver"
      /\ \E c \in PortalCalls :
           /\ c.done => portal[j].token = "live"
           /\ c.denied => portal[j].token # "live"
           /\ portal' = IF c.done
                        THEN [portal EXCEPT ![j].token = "used", ![j].result = task[w].values]
                        ELSE portal
           /\ IF row[j].robot = "short_pause" /\ c.class = "Exception"
              THEN NextJob(w)
              ELSE Plan(w, DeliveryPlan(j, task[w], c))
      /\ UNCHANGED <<row, stop, recoverIn>>

\* _retry: the budget is read from the copy, not from the row.
Retry(j, copy, e) ==
  IF copy.attempts >= MaxAttempts
  THEN MarkFailed(j, "attempts_exhausted")
  ELSE \E d \in RetryDelays : ScheduleRetry(j, e, d)

\* The transaction that ends the processing of a job.
Settle(w) ==
  LET j == Current(w)
      plan == task[w].plan
  IN  /\ pc[w] = "settle"
      /\ \/ plan = "complete" /\ MarkCompleted(j, task[w].values)
         \/ plan = "retry_unknown" /\ Retry(j, task[w], "outcome_unknown")
         \/ plan = "retry_temporary" /\ Retry(j, task[w], "temporary")
         \/ plan = "poll" /\ SchedulePoll(j)
         \/ plan = "fail" /\ MarkFailed(j, "failed")
         \/ plan = "review" /\ MarkFailed(j, "manual_review")
         \/ plan = "expire" /\ MarkExpired(j)
      /\ NextJob(w)
      /\ UNCHANGED <<stop, recoverIn, portal>>

\* A transaction of the processor fails: worker_loop logs the exception and
\* turns to the next job; the row stays 'processing'.
TransactionFails(w) ==
  /\ \/ pc[w] \in {"checkpoint", "settle"}
     \/ pc[w] = "next" /\ ~stop[w] /\ batch[w] # <<>>
  /\ NextJob(w)
  /\ UNCHANGED <<row, stop, recoverIn, portal>>

(***************************************************************************)
(* What happens to a worker process.                                       *)
(***************************************************************************)
Signal(w) ==
  /\ w \in Running /\ ~stop[w]
  /\ stop' = [stop EXCEPT ![w] = TRUE]
  /\ UNCHANGED <<row, pc, recoverIn, batch, task, portal>>

Crash(w) == w \in Running /\ Leave(w)

(***************************************************************************)
(* The specification.                                                      *)
(***************************************************************************)
Process(w) ==
  \/ Load(w) \/ LoadNothing(w) \/ Request(w) \/ Checkpoint(w) \/ Poll(w)
  \/ Notify(w) \/ Deliver(w) \/ Settle(w) \/ TransactionFails(w)

WorkerStep(w) ==
  \/ Start(w) \/ ShutDown(w) \/ Recover(w) \/ SkipRecovery(w) \/ Claim(w)
  \/ EndBatch(w) \/ Wake(w) \/ Process(w)

Next ==
  \/ \E j \in Job : Create(j) \/ Terminate(j)
  \/ \E w \in Worker : WorkerStep(w) \/ Signal(w) \/ Crash(w)
  \/ Tick

Spec == Init /\ [][Next]_vars

\* Every await of a running worker ends (HTTP and SQL calls time out), the
\* supervisor starts the next incarnation, and the clock goes on.
Fairness == WF_vars(Tick) /\ \A w \in Worker : WF_vars(WorkerStep(w))

FairSpec == Spec /\ Fairness

(***************************************************************************)
(* Properties.                                                             *)
(***************************************************************************)

\* A worker that still has a job in its batch owns the row: status is
\* 'processing' and locked_by is that worker, so no two workers process one job
\* (FOR UPDATE SKIP LOCKED, and the lease).  Holds as long as no lease is overrun.
HolderOwnsLease ==
  \A w \in Worker : \A j \in Held(w) :
    row[j].status = "processing" /\ row[j].lockedBy = w

\* No two workers have the same job in hand.
OneHolder == \A v, w \in Worker : v # w => Held(v) \cap Held(w) = {}

\* A queued job can be claimed: claim_due_jobs and recover_stale_jobs both pass
\* over a 'retry' row that has used up its attempts, so it would wait forever.
NothingStranded ==
  \A j \in Job : row[j].status \in {"pending", "retry"} => row[j].attempts < MaxAttempts

\* A row says "completed" only of a process that was resumed, with the values it
\* was resumed with, whatever was lost, retried or done by another worker.
CompletedWasResumed ==
  \A j \in Job : row[j].status = "completed" =>
    portal[j].token = "used" /\ portal[j].result = row[j].values

\* The outcome of an ended job is final: no late worker, retry or recovery
\* changes its status, error or return values (the guard of _transition).
TerminalIsFinal ==
  [][\A j \in Job : row[j].status \in Terminal =>
       /\ row'[j].status = row[j].status /\ row'[j].error = row[j].error
       /\ row'[j].values = row[j].values]_vars

\* What a REST request's process is resumed with is in the table first: a crash
\* or a retry after the delivery cannot resume it with anything else.
RestResultIsDurable ==
  \A j \in Job : row[j].robot = "rest_request" /\ portal[j].token = "used" =>
    row[j].requestDone /\ row[j].values = portal[j].result

\* Once the outcome of a REST request is saved, no retry, crash or recovery
\* makes a worker call the application's method again.
CheckpointEndsRequests ==
  [][\A j \in Job : row[j].requestDone => portal'[j].calls = portal[j].calls]_vars

\* Every run of the application's method is paid for by a claim of the job, so
\* there are at most max_attempts of them: also when leases are overrun, several
\* workers have the job in hand and recovery queues it behind their backs.
CallsArePaid == \A j \in Job : portal[j].calls <= row[j].attempts

\* A REST request is sent again after a delay only when the portal has certainly
\* not run its method: nothing that leaves the outcome open - a lost answer, a
\* failure inside the portal, an unreadable body - is retried for its error class.
RetriesOnlyUnsent ==
  [][\A w \in Worker : pc[w] = "request" /\ pc'[w] = "settle" =>
       portal'[Current(w)].calls = portal[Current(w)].calls]_vars

\* The users of a REST request are told of its failure once, and only of the
\* failure its process gets as well.
RestNotifiesOnce ==
  \A j \in Job : row[j].robot = "rest_request" /\ portal[j].notices > 0 =>
    portal[j].notices = 1 /\ row[j].values = "error"

\* No process is resumed ahead of time: a short pause lasts its delay, a field
\* wait does not report a timeout before its deadline, across polls and retries.
NotResumedEarly ==
  \A j \in Job : portal[j].token = "used" =>
    \/ row[j].deadline = 0
    \/ row[j].robot = "rest_request"
    \/ row[j].robot = "wait_field" /\ portal[j].result # "timeout"

\* Every row keeps the promise of Subscription.
Promise(j) ==
  INSTANCE Subscription WITH
    Budget <- MaxAttempts,
    state  <- CASE row[j].status \in {"pending", "retry"} -> "waiting"
                [] row[j].status = "processing" -> "working"
                [] OTHER -> row[j].status,
    left   <- MaxAttempts - row[j].attempts,
    result <- portal[j].result

KeepsPromise ==
  /\ \A j \in Job : Promise(j)!SubInit
  /\ [][\A j \in Job : [Promise(j)!SubNext]_(Promise(j)!sub)]_vars

\* Every job ends, through lost answers, crashes and recoveries, if a worker
\* always comes back: nothing stays 'processing' or waits for ever.
WorkerAlwaysBack == []<>(\E w \in Worker : pc[w] # "ended")

EveryJobEnds ==
  WorkerAlwaysBack => \A j \in Job : Promise(j)!Ends

(***************************************************************************)
(* What the documentation says and the code does not keep.                 *)
(***************************************************************************)

\* docs/PROJECT.md:145: the chosen users are notified once of a timeout or error.
NotifiesOnce == \A j \in Job : portal[j].notices <= 1

\* A job recorded as "token invalid or expired" has not resumed its process: an
\* ambiguous delivery asks for manual review (docs/PROJECT.md:142-143).
ExpiredWasNotResumed ==
  \A j \in Job : row[j].status = "expired" => portal[j].token # "used"

\* docs/PROJECT.md:134-135: temporary errors get a retry with backoff, so the
\* error that says so does not just turn a worker to its next job.
RequestErrorsAreHandled ==
  [][\A w \in Worker : \A c \in PortalCalls :
       pc[w] = "request" /\ c.class = "BitrixTemporaryError" /\ RequestEnds(w, c)
         => pc'[w] # "next"]_vars
=============================================================================
