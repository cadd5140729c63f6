# Verification of b24_sinedis

b24_sinedis is a Bitrix24 application: it registers business-process robots
("short pause", "REST request", "wait for a field"), takes their callbacks,
queues one durable job per callback in PostgreSQL, and lets worker processes
carry the jobs out and resume the business process with `bizproc.event.send`.
It also installs itself in portals, keeps their OAuth tokens, and launches
workflows from buttons on a deal.

This directory holds TLA+ models of it, TLC configurations for small instances,
and proofs checked by TLAPS. `PROJECT.json` ties each definition to the lines it
models and each property to a run.

    tlc -workers 2 -config jobs_leased.cfg MCJobs.tla
    tlapm JobsProofs.tla

## 1. Inventory

### Components, their state and operations

| Component | Sources | State | Operations | Status |
|---|---|---|---|---|
| Job queue | `app/jobs/repository.py`, `recovery.py`, `models/job.py` | table `automation_jobs`: status, attempts, run_at, locked_at, locked_by, last_error, request_completed, return_values | insert on conflict do nothing, claim, mark completed / failed / expired, schedule retry, schedule poll, save a processing result, recover | modelled: `Jobs` |
| Worker loop | `app/jobs/worker.py` | `next_recovery`, the claimed batch, the shutdown event | recover, claim, process a batch one job after another, sleep, stop on a signal, `--once` | modelled: `Jobs` |
| Job processor | `app/jobs/processor.py` | one detached copy of the row per job | short pause, REST request, field wait, notification, delivery, retry | modelled: `Jobs` |
| Job intake | `app/jobs/service.py`, `app/api/robots.py` | none of its own | check the portal and its application token, insert the job, commit, answer | modelled: `Intake` |
| Portal OAuth | `app/bitrix/oauth.py`, `models/portal.py` | table `bitrix_portals`: token pair, expiry, status | get / refresh a token under the row lock, call with one forced refresh and one retry, mark `auth_error` | modelled: `PortalOAuth` |
| Installation | `app/api/installation.py` | the same rows | install (calls first, upsert after), uninstall | modelled: `PortalOAuth` |
| Registration | `app/bitrix/registration.py`, `workflow_fields.py`, `register_extensions.py` | robots, activities, events in the portal | list, then add, update, delete or bind; synchronise all portals | partly: `Registration`; the loop over portals is not modelled |
| Workflow buttons | `app/api/workflow_buttons.py`, `models/workflow_button.py` | tables of buttons and launches | save, launch (check, reserve, commit, call, record), release, journal | modelled: `WorkflowLaunch`, and their connections in `Intake` |
| Button pages | `app/web/*.js` | none | send a press, any number of times under one `request_id` | not modelled |
| REST client | `app/bitrix/client.py`, `exceptions.py` | none | classify an answer | modelled: `BitrixClient` |
| Database pool | `app/database.py` | 5 + 10 connections | check out, wait, give up, return | modelled: `ConnectionPool`, composed in `Intake` |
| Callback parsing, secrets, configuration, health, logging, schema | rest of `app/`, `migrations/` | none, or declarative | sequential parsing, cryptography, wiring | not modelled |

### How they interact

* A robot's **callback** arrives over HTTP. The intake inserts a row; the unique
  key on portal and event token makes a repeated callback a no-op.
* Any number of **worker processes** share the table. A claim locks the due rows
  with `FOR UPDATE SKIP LOCKED`, marks them `processing`, counts an attempt and
  commits: from then on only `status`, `locked_at` (the lease) and `locked_by`
  protect the job. Nobody renews a lease, and the transitions ask for
  `status = 'processing'` only.
* The **processor** reads the row once into a copy, then alternates HTTP calls to
  the portal and short transactions. Anything may happen between two of them.
* The **intake** and the **buttons** run in one process and share its pool of
  connections; a new job references the portal's row by a foreign key, so its
  insertion waits for whoever holds that row `FOR UPDATE`.
* Every portal call of workers and buttons goes through **Portal OAuth**, which
  may refresh the token pair under a row lock held across the call to the OAuth
  server; installation and uninstallation write the same row.
* A **button** reserves a launch in a transaction, commits, and only then asks the
  portal to start the workflow, so that a lost answer leaves a record.
* Every answer of the portal passes the **client**, which turns it into a result or
  one of its exceptions; all retry decisions are about this class.

### What is hard

Two workers on one job after a lease has ended; a copy of the row that is stale
when it is used; a lost answer to a call that was carried out; a crash or a
shutdown signal between two transactions or in the middle of a batch; exceptions
nobody catches; budgets counted up by claims and down by polls; repeated
callbacks; a commit whose answer is lost; a refresh racing an installation; a
reservation racing a launch; requests that wait for a second connection with the
first in hand. `PROJECT.json` lists each of them as a hazard at its line; a hazard
no property covers has a note that says why.

### What makes each component correct

* **Queue, workers, processor.** A job in a worker's hands belongs to it; the
  outcome of a job is final; "completed" means the process was resumed, once, with
  the recorded values; what was saved before the delivery is what is delivered;
  a REST method whose outcome is saved is not called again; no process is resumed
  early; the attempts stay in their bounds; no job is forgotten.
* **Intake.** What is answered 200 is committed; one job per token, the first one
  inserted; no job of a callback whose application token was never in force while
  it was handled, no refusal of one whose token always was.
* **Pool.** No request keeps a connection or a lock when it is over; requests do not
  all wait for one another's connections; every request ends.
* **Portal OAuth and installation.** One refresh for concurrent callers of an
  expiring token; the stored refresh token is still good; an uninstalled portal
  stays inactive until it is installed; `auth_error` is about the tokens now
  stored; nobody waits for ever for the lock of a caller that died.
* **Registration.** A run that ends well has registered everything, from any partial
  failure and with other runs at a time; runs do not all block one another.
* **Workflow buttons.** At most one remote start per press; a repeated request
  starts nothing; the journal is true; a launch in flight or of unknown outcome
  blocks its deal until it is released; no launch in flight is released.
* **Client.** Every answer has one class, and a class that callers take for a
  refusal is never the answer to a call that was carried out.

## 2. Plan

The first row is used by most of the others and is small; after it the most
important behaviour came first.

| Module | Content | Checked, proved |
|---|---|---|
| `BitrixClient`, `ClientProofs` | the classes of a portal call, used by `Jobs` and `WorkflowLaunch` | 1 theorem |
| `Jobs`, `MCJobs` | queue, workers and processor | 6 runs |
| `Subscription` | what the queue promises about one job | refinement, checked and proved |
| `JobsProofs`, `QueueProofs`, `CallProofs` | types, final outcomes, leases, no stranded job; what "completed" means, REST requests, the refinement; how often a REST method runs | 4, 7 and 1 theorems |
| `PortalOAuth`, `MCPortalOAuth`, `PortalProofs` | refresh, forced refresh and retry, `auth_error`, installation, uninstallation | 2 runs, 6 theorems |
| `LockedRow` | what the two modules that write the portal's row promise about its status and its lock | refinement of `PortalOAuth` and of `Intake`, checked and proved |
| `WorkflowLaunch`, `MCWorkflowLaunch`, `LaunchProofs` | checks, reservation, call, record, release | 2 runs, 6 theorems |
| `DealGate` | what a button promises about one deal | refinement, checked and proved |
| `ConnectionPool`, `Intake`, `MCIntake`, `IntakeProofs` | callbacks at a time, button requests, connections, the portal's row | 1 run, 8 theorems |
| `Registration`, `MCRegistration`, `RegistrationProofs` | list-then-add under failure, repetition and at a time | 1 run, 3 theorems |

All of the plan is done. Two of its former rows were dropped, for the reasons in
section 10: the loop of `register_extensions` over the portals, and the backoff
formula.

## 3. The job queue: `Jobs`

### State

| Variable | In the code |
|---|---|
| `row[j]` | the row of `automation_jobs` of one event token; `"absent"` before its callback |
| `pc[w]` | where worker `w` is in `worker_loop` or in the processor |
| `stop[w]` | the `asyncio.Event` the signal handlers set |
| `recoverIn[w]` | `next_recovery` minus the clock |
| `batch[w]` | the claimed jobs not yet done; the head is being processed |
| `task[w]` | the processor's local variables: the copy of the row, the values to deliver, what to do at the end |
| `portal[j]` | outside the program: whether the event token is live, what the process was resumed with, runs of the REST method, rounds of notifications |

A worker is an *incarnation* of a process: its `worker_id` contains a fresh UUID,
so a restarted worker is another member of `Worker`. `Replicas` bounds how many
run at a time, `OnceWorker` is the set of those started with `--once`.

Timestamps are relative to the clock, because the code only ever compares them
with it: `due` is `run_at - now`, `lease` is `now - locked_at`, `deadline` is the
instant before which a short pause or the timeout of a field wait may not resume
the process, minus now. `Tick` moves all of them; past values saturate at the
point beyond which no guard tells them apart (`OverdueCap`, `LeaseTimeout + 1`, 0).

### Actions

One SQL transaction is one action, one HTTP call is one action; between any two
of them every other actor may step.

| Action | Code |
|---|---|
| `Create` | a callback: `create_idempotent` |
| `Start`, `Signal`, `ShutDown`, `Crash` | the process: `run_worker`, its signal handlers, the three tests of the event |
| `Recover`, `SkipRecovery` | `recover_stale_jobs` when `next_recovery` is due |
| `Claim` | `claim_due_jobs`: a whole batch under one lease |
| `Load`, `LoadNothing` | `process`, `_load`: the copy, or nothing when the row is no longer `processing`; an unreadable job is failed |
| `Request`, `Checkpoint` | `_process_rest_request`: the application's method, then `save_processing_result` |
| `Poll` | `_process_wait_field`: `crm.item.get` and the test of the timeout |
| `Notify` | `_notify`, best effort |
| `Deliver` | `bizproc.event.send` by `process` or `_deliver_subscription` |
| `Settle` | the transaction that ends the processing: `mark_*`, `schedule_*` through `_retry`, `_failed`, `_expired` |
| `TransactionFails` | a transaction of the processor raises: the loop logs it and goes on with the next job |
| `EndBatch`, `Wake` | the end of a turn of the loop |
| `Terminate`, `Tick` | a user ends the process; the clock |

A call of the portal is a member of `PortalCalls` of `BitrixClient` (section 4): the
class the processor sees and, beside it, whether the portal has carried the call
out. The processor's decisions (`RequestEnds`, `Poll`, `DeliveryPlan`) look at the
class alone; the effect on `portal` depends on what was done. So a 5xx answer, an
unreadable one or a lost one to `bizproc.event.send` may or may not have resumed
the process. A live token is never denied, and resumes its process once. A
result of the delivery other than `true` sends the job to `failed`.

### Abstracted

The order of equal `run_at` (`created_at`), the lengths of the backoff
(`RetryDelays` is any set of delays), return values beyond
completed / timeout / error, recipients and texts, `started_at` and
`completed_at`, and the error messages beyond those the code compares.

### Subscription

`Subscription` says what the queue promises about one job, without workers,
leases or time: a budget of takings, at most one resumption and only while the
job is worked on, "completed" only of a resumed process, no way out of an ended
state, no waiting job without a taking left. `Jobs` refines it for every `j`:
`pending` and `retry` are `waiting`, `left` is `MaxAttempts - attempts`, and
`result` is what the portal got. A poll may give its taking back; this is why the
promise says nothing of the number of polls, and why it takes the clock and the
field wait's deadline for every job to end (`Ends`).

### The runs

| Run | Instance | Shows |
|---|---|---|
| `jobs_leased` | 1 job of any robot, 2 workers, one of them `--once`; no batch outlives its lease; fairness | ownership, durability of the saved result, one notification of a REST failure, no second call after a checkpoint, no retry of a REST method that may have run, the refinement, and that every job ends |
| `jobs_overrun` | the same, 2 workers at once on one job because leases are overrun | types, final outcomes, "completed" means resumed with those values, nothing resumed early, no more runs of a REST method than claims of its job |
| `jobs_stranded` | leases overrun | counterexample: a late worker writes `retry` over a row whose attempts are used up; nothing ever selects it again |
| `jobs_notified_again` | no overrun, no crash needed | counterexample: a field wait whose delivery is retried notifies its users again |
| `jobs_expired` | no overrun | counterexample: an accepted delivery with an unreadable answer ends as `expired` |
| `jobs_unhandled` | no overrun | counterexample: a 5xx answer to a REST request leaves the processor as an exception and gets no backoff |

The last four check what the documentation says; `PROJECT.json` quotes it under
"findings".

**`LeaseOverrun`.** The default configuration claims 50 jobs under one lease of
120 s and processes them one after another with HTTP timeouts of their own, so
nothing in the code keeps a batch within its lease. `LeaseOverrun = FALSE` is
therefore an assumption (`Tick` does not pass the lease of a job in hand), and
each run says which side of it it is on. A crashed worker's lease always ends.

**Bounds.** Two workers are what it takes for a stale worker and a new owner;
a third adds no kind of conflict, as a row has one owner and every transition
tests the row alone. `MaxAttempts = 2` lets a retry happen and the budget run
out; `LeaseTimeout = 1`, delays of 1 and a poll of 1 make every timestamp be in
the future, just due, and overdue; `FieldTimeout = 2` lets a field wait poll
before its deadline and again at it. `RecoveryInterval = 1` separates turns with a
recovery from turns without. Workers do not come back under the same name, so a
run sees at most two incarnations: enough for one crash and one recovery, and
the liveness property says so in its premise. `NoticeCap = 2` counts rounds of
notifications as none, one, several. The runs have one job and batches of one.
What a batch adds, an interruption between its jobs under one lease, is covered
for any size by the theorems `LeaseProtects` and `PromiseIsKept` below.

**Fairness.** `Tick`: the clock goes on. `WorkerStep(w)`: every await of a running
worker ends, because HTTP calls and SQL statements have timeouts, the event loop
runs one task, and the container's restart policy starts the next incarnation.
No fairness for crashes, signals, callbacks, terminations, nor for any
particular answer of the portal: a portal that never answers well is a
behaviour, and the job then ends by its budget. `EveryJobEnds` has the premise
that some worker always comes back, since `Worker` is finite.

### Proved

`JobsProofs`, for every set of jobs, workers and robots and every value of the
other constants that satisfies `JobsAssumption`:

* `TypeCorrect`: `Spec => []TypeOK`. The invariant is `TypeInv`, the types with
  `Busy`: a worker in a step of the processor has a job in its batch. Without it
  `Head(batch[w])` would have no type. The heart is that attempts stay within
  `0..MaxAttempts`: a claim tests the budget, a poll subtracts with a floor.
* `OutcomeIsFinal`: `Spec => TerminalIsFinal`, overrun leases included. Every
  write to a row is the guarded transition, a recovery of `processing` rows, a
  claim of waiting rows, or the clock.
* `LeaseProtects`: `~LeaseOverrun => (Spec => []HolderOwnsLease)`. Ownership is not
  inductive alone: `LeaseInv` adds that no job is in two batches or twice in one
  (`BatchOwned`, `BatchDistinct`), so that one worker's transition cannot
  disturb another's job, and that the copy's attempts are the row's while it is
  in hand (`CopyIsFresh`). A recovery cannot touch a held row, whose lease is
  within the timeout.
* `NoJobStranded`: `~LeaseOverrun => (Spec => []NothingStranded)`, from the same
  invariant: by `CopyIsFresh` the retry decided on the copy is right about the
  row. `jobs_stranded` shows that the hypothesis is needed.

`QueueProofs` adds the portal to these invariants. `QueueInv` needs no lease: only a
REST request saves an outcome (`OnlyRestIsSaved`), nothing happens to a job before
its first claim (`UntouchedBeforeClaim`, `Begun`), a process is resumed with
something (`ResultIsOfUse`), a short pause is claimed only when its delay is over
(`PauseIsKept`), a timeout only reported at the deadline (`TimeoutIsDue`,
`ValuesDecided`), and whoever is about to write "completed" finds the process
resumed with the values it will write (`CompletionIsTrue`). From it, overrun
leases included:

* `CompletedIsTrue`: `Spec => []CompletedWasResumed`;
* `NotBeforeTime`: `Spec => []NotResumedEarly`;
* `RetriesAreUnsent`: `Spec => RetriesOnlyUnsent`, from `RefusedIsNotDone` of the
  client: the classes that get a retry are among the refusals.

`RestInv` is about REST requests: one is only open while nothing is saved
(`RequestIsOpen`), and what users and process are told is what the row says
(`SavedBeforeUse`, `NoticeIsDue`, `NoticeIsSaved`). It is inductive together with
`LeaseInv`, so the theorems assume `~LeaseOverrun`: `RestIsDurable`,
`RestIsNotifiedOnce`, `NoCallAfterCheckpoint`. `PromiseIsKept` is the refinement,
`~LeaseOverrun => (Spec => KeepsPromise)`: every step of the queue is a step or a
stutter of every job's `Subscription` (`PromiseStep`), with `QueueInv` and
`LeaseInv` saying when.

`CallProofs` has one theorem, `CallsCostAttempts`: `Spec => []CallsArePaid`, the
portal runs the method of a REST request at most once per claim of its job, so
`max_attempts` times at most. It needs no lease. With overrun leases several
workers have the job in hand, and each may still call; so the invariant counts
them. `Owing(j)` is the set of workers that have claimed `j` and not yet got past
its request; `Budgets(j)` says that the calls made and the workers in `Owing(j)`
together are no more than the attempts. A claim adds one to both sides; a call
moves a worker from one term to the other; a recovery changes neither. No batch
has a job twice (`BatchDistinct`), or a worker would owe two calls for one claim;
and only field waits are polled for (`PollsAreWaits`), since a poll gives its
attempt back.

## 4. Calls of the portal: `BitrixClient`

The client keeps no state; the module is a set of operators. An answer is a
status, an error code and a body. The codes are those of the client's five sets,
one that is in none (`OTHER_CODE`), or none at all; the body holds the result the
caller hopes for, another one, or nothing `_parse_response` can use.
`ParseResponse`, `ApiError` and `UnknownError` give the class in the order of the
code: an error code counts whatever the status, a status before the body.

`Done(a)` says what the portal may have done when it answers so. This is outside
the program: an error that has a name, and any other refusal, is given before
anything is done; 5xx, the two temporary codes and an unreadable 200 tell nothing;
the result hoped for means done. `PortalCalls` adds the calls without an answer
(`Lost`: done or not) and the errors raised before anything is sent (`Unsent`:
OAuth, configuration, an unreadable stored token). `call_portal`'s own retry after
a rejected token is in `PortalOAuth`; here a rejection is the second one.

`ClientProofs` proves `RefusedIsNotDone`: an authentication, permission or
permanent error, a rate limit, an OAuth error or one found locally is never the
end of a call that was carried out. It is what makes retrying a rate-limited REST
request right, and would fail for a class that mixes both kinds of answer (the
mutant of `UnknownError` puts 503 among the rate limits). `ResultMeansDone` is its
counterpart, which `CompletionIsTrue` rests on. No run is about this module
alone: the runs of `Jobs` and `WorkflowLaunch` explore all its outcomes.

## 5. The portal's row: `PortalOAuth`

### State and actions

A token pair is a number, in the order in which the authorization server issues
pairs; access token, refresh token and expiry are written by one statement, so
one number stands for all three. `portal` is the row (status and pair), `lock`
the transaction that holds the row across an HTTP call, `call[c]` the program
counter of an invocation of `call_portal`, the pair whose token it holds and the
rejections it has met, `event[i]` an `ONAPPINSTALL` callback with its own new
pair. `issued`, `spent` (pairs whose refresh token was exchanged) and `lost`
(a pair that nobody could store was issued) belong to the authorization server;
`expired` is the clock: the pairs within the skew of their expiry.

| Action | Code |
|---|---|
| `Arrive`, `Abandon`, `Upsert` | `install`: credentials, calls of the portal without a lock, the upsert |
| `Uninstall` | `uninstall` with the stored application token; with another nothing changes |
| `Invoke`, `GetAccessToken` | `call_portal`, the plain read before any lock |
| `Lock` | `refresh_access_token` under `FOR UPDATE`: the status again, and whether another caller has refreshed meanwhile (a forced refresh does not look) |
| `Exchange`, `Store` | the call of the authorization server with the row locked; the commit of a new pair or of `auth_error`; an outage rolls back |
| `Check`, `Call` | `_call_once`: the status a third time, the REST call |
| `MarkAuthError` | `_mark_auth_error` after the second rejection |
| `Crash` | the process of a caller dies at any step; the database frees the row |

A REST call may be rejected at any time. The branch for a row without a refresh
token is left out: an installation always stores one (`installation.py:72-77`),
and nothing removes it. Each installation callback is delivered once: a late
second delivery would bring back its old pair, and the code does not look. A
crash is also what an unexpected error of the database
does to a call.

### The runs

`portal`: two calls, two installations, four pairs, so that both calls can be in
each other's way, one of them forced, with a reinstallation and an uninstallation
in between; two callers are what the lock is about, and a third only waits as
the second does. All calls and callbacks are finite in number, hence no deadlock
check. `KeepsLock` is the refinement of `LockedRow`: whoever holds the row found the
portal active and keeps everybody else from writing it until it lets go, and no
refresh brings a portal back. `CallsGetOn` gives every invocation a rank that each
of its steps raises and a ceiling for it: it asks the authorization server and the
portal twice at most, whatever they answer. Fairness: `CallerStep(c)`, as every await of a caller has a timeout and
the database serves those who wait for a row; none for callbacks, the clock or
any outcome. `StoredPairUsable` holds between refreshes and unless an answer of
the authorization server was lost: a crash between exchange and commit does
leave a spent token behind, which nothing in the code can prevent.

`portal_auth_error`: counterexample to what the documentation says of
`auth_error`: it is written over a pair stored after the rejections.

### Proved

`PortalProofs`, for any sets of callers and installations and any `MaxPair`:
`TypeCorrect` (with `Counted`: only the step before `auth_error` has met two
rejections), `StoredPair`, `Refreshes`, `Revival`, `RowIsLocked` and
`CallsAreFinite`. Their invariant `PairInv`
says who may be where while the row is locked (`LockHeld`), that the row stays
active meanwhile because everybody else waits (`ActiveWhileLocked`), that what is
exchanged is the stored pair, near its expiry or after a rejection
(`ExchangesStored`), that a new pair is unlike every pair in use (`Numbered`),
that pairs on their way to the row are unspent and in one place each (`Waiting`),
and that the stored one is unspent unless its successor is in a caller's hands
or lost (`Usable`).

`RowIsLocked` is `Spec => KeepsLock`, one case per action: a step of the module is
a step of `LockedRow` or a stutter, by `LockHeld` and `ActiveWhileLocked`.
`CallsAreFinite` is `Spec => CallsGetOn`; it rests on `Counted`, since a rejection may
take an invocation back to the lock only once. With it, what `EveryCallEnds` leaves
to fairness is that the next step of an invocation is taken at all.

## 6. Launches from a button: `WorkflowLaunch`

### State and actions

One button. `launch[k]` is the row of the press with `request_id` `k`;
`request[r]` one POST to `/launch`, of which several may carry the same press;
`settings` what the administrator saved, `started[k]` the workflows the portal
started for a press, and `now` the clock. `Deal` stands for the deal and user of
a press: a press repeated for another deal or user is turned away.

| Action | Code |
|---|---|
| `Save`, `Release` | the administrator's `/save` and `/release` |
| `Begin` | `actor` looks the portal up: here the transaction starts, and `now()` of PostgreSQL is fixed |
| `Reserve` | everything under the locks of portal and button up to the commit: the press is unused, the latest launch of the deal does not block, the row is inserted with `created_at = began` |
| `TurnAway` | any refusal, and the saved result of a press already used |
| `StartWorkflow` | `bizproc.workflow.start`: an id, something unreadable, or an error, after which the workflow may be running |
| `Record` | the second commit |
| `Crash` | the process dies, the portal asked or not |

Here too, a call is a member of `PortalCalls`: a result that is no
id, and every `BitrixError`, is recorded as `unknown`; what is no `BitrixError` ends
the request and leaves the row `starting`.

Two launches may have equal `created_at` in the model; either may then be the
latest. The checks of identity and permission are one nondeterministic refusal.

### The runs

`CheckTime` bounds the time from the start of a request to its reservation, and
`RequestTime` the time to the end of its call. The code has timeouts per HTTP
operation and no limit on the whole, so both are assumptions, and `Tick` stops
where they would be broken.

`launch`: three requests, three presses, one deal (launches of other deals take
no part in the guard; the theorems have any number), a pause of 2, checks of at
most 1, calls of at most 2, a release after 3, until instant 5: long enough for
a pause to end, a launch to be released and another to follow. Requests are finite
in number, hence no deadlock check.

`DealGate` is what a button promises about one deal, without requests, clocks and
administrators: the presses go through a gate one at a time and each once, and a
workflow is started once per press and only for the press inside. `inside` are the
presses of the deal whose launch is unresolved (`Open`): `starting`, `unknown` or
`blocked`, and not released.
`KeepsGate` says that the launches of every deal do this: the second commit, a
release or a late answer never opens the gate to a press twice, and none is
started from outside it.

`launch_overlap`: the checks may take longer than the pause (20 s per HTTP read,
a pause of 10 s at least). Counterexample: a press whose request began earlier
reserves after another has come and gone, with the earlier `created_at`; the
third press looks at the other one and starts although the first is unresolved.

### Proved

`LaunchProofs`, for any requests, presses, deals and pauses:

* `TypeCorrect`, `OneStart`, `Journal` without any assumption on times. The
  invariant `FlightInv`: a request in flight owns its row, which says `starting`
  (`FlightOwned`); no two share one (`FlightAlone`); nothing was started for a
  row whose call is still to be made (`NotYetStarted`); what is about to be
  recorded is true (`OutcomeIsTrue`).
* `ReleaseWaits`, if `RequestTime < ReleaseAge`: with `InTime`, the age of every
  request, since `created_at` is the start of the request that owns the row.
* `OpenAlone`, if `CheckTime` is less than every pause: `OpenIsLatest`, the
  unresolved launch of a deal is its latest by `created_at`, is inductive
  because the next reservation finds the latest one older than the pause, and
  itself began within `CheckTime`. `launch_overlap` shows that the hypothesis is
  needed.
* `GateIsKept`, `Spec => KeepsGate`, under both hypotheses. `GateInv` joins
  `FlightInv`, `InTime` and `OpenIsLatest` with `ReleasedIsNotInFlight`: a released
  launch has no request that could still start it, which is where
  `RequestTime < ReleaseAge` comes in. `InsideIsOne`: one press at most is inside, as
  two unresolved launches of a deal would both be its latest. There is a lemma for
  each step of the gate (`GateEnter`, `GateStart`, `GateLeave`), and `GateStep` puts
  them together for every action and every deal.

## 7. Registration: `Registration`

### State and actions

One portal: whether it has the field type of the buttons (`fieldType`), which
`robots` of the registry and which duplicate `activities` of earlier versions it
has, and whether the uninstall event is `bound`. `run[r]` is one run of
`ensure_all`, from an installation or from `register_extensions`: its step, what
the last list said (`seen`), the codes left in the loop (`todo`), and whether it
has misread a list (`blind`).

| Action | Code |
|---|---|
| `Begin` | `ensure_all` |
| `ListFieldTypes`, `WriteFieldType` | `ensure_workflow_field_type`, with the buttons enabled |
| `ListRobots`, `WriteRobot`, `RobotsDone` | `ensure_robots_registered`: the loop in the order of the registry |
| `ListActivities`, `DeleteActivity`, `ActivitiesDone` | `ensure_activities_registered`: the loop over the sorted codes |
| `ListEvents`, `BindEvent` | `ensure_uninstall_event_registered` |
| `Fail` | any call fails, or the process dies: the exception ends the run where it is |

Each call is one action, so another run may step between a list and what is done
about it. `_robot_codes` and `_items` read an answer without a list as an empty
one (`Read` with `blind`); a mapping without any of the keys they know raises, in
`_robot_codes` by endless recursion, which is a `Fail`. `ensure_workflow_field_type`
alone raises for every answer that is not a list.

The portal is outside the program. It refuses to add what exists, to delete what
does not, and to bind a handler twice; an update or an add that is carried out
may lose its answer. Robots do not disappear by themselves.

### The run

`registration`: three runs at a time, with the three robots and the two
duplicates of the code, from every state of the portal: an interrupted earlier
run leaves one of these states. Three runs are what it takes for two to be
overtaken by different ones. A run is not restarted, but the next
installation is another member of `Run`; when all have ended nothing happens,
hence no deadlock check.

`Complete` says what success means. With a misread list the duplicates may stay
although the run succeeds, and this is the only thing that may be missing.
`NotAllOvertaken` says that runs at a time do not all fail because of one
another. It depends on all of them taking the codes in one order: when the codes
are taken in any order, each of two runs may add the robot the other is about
to add, and both fail.

### Proved

`RegistrationProofs`, for any runs, robots and duplicates: `TypeCorrect`,
`Completes` and `OneGetsThrough`. The invariant `Progress` says for every step what is behind it:
the robots not in `todo` are registered, the duplicates still there are in `todo`.
It survives the other runs because the portal only gains robots and bindings and
only loses duplicates (`Monotone`, `DoneStays`).

`OneGetsThrough` is `Spec => []NotAllOvertaken`. `Stage` is how far a run has come,
0 for one that was overtaken; the invariant `Order` says that whoever is overtaken,
or is about to be although it has read its list well (`Behind`), has another run
ahead of it: in a later stage, or in the same loop with the code in question done
(`Beyond`). Every step has one of four shapes, and `OneStep` shows that these keep
`Order`: the run that moves gets on (`Advances`) or is itself refused
(`Overtakes`), it does not fall behind by its own step (`Own`), and if it changes
the portal it has passed that point (`Causes`). The common order of the codes is
what makes the last hold in a loop.

## 8. Callbacks, buttons and connections: `Intake`

### State and actions

One process of the API, with the pool of `ConnectionPool`: `main` is the set of
requests whose own session holds a connection, `inner` those whose portal call
holds one. `at[r]` is where a request is in its handler, `call[b]` where a button
request is in `call_portal`, `rejected` the requests whose token was rejected
once. The portal's row is its stored application token (`installed`, the number of
the installation), whether it is `active`, and who holds it locked across an HTTP
call (`locker`). `job[t]` is the committed job of an event token, `answer[c]` the
reply to a callback; `carried[c]` records the application token of a callback in
work and, for the properties only, every truth value `InForce` has had of it since
its arrival.

| Action | Code |
|---|---|
| `Arrive` | the request is parsed; it may be turned away here |
| `Create` | the services' `create`: a connection, the portal's row, `verify_application_token` |
| `Insert` | `create_idempotent`: the insertion, which waits for an uncommitted job of the same token (unique key) and for the locked portal (foreign key), or the row that is there |
| `Commit`, `CommitFails` | the end of the session: 200; or the connection is lost, the job committed or not |
| `Open`, `Begin` | a button request: `actor` takes the connection the request keeps |
| `Write`, `Reserve`, `Record` | the transactions of `save` and `launch` under the row lock |
| `GetAccessToken`, `BeginRefresh`, `LockRow`, `Exchange` | a portal call: the stored token, or a refresh with a connection of its own and the row locked over the call |
| `CallOnce`, `Send` | `_call_once` and its answer; one rejection is followed by a forced refresh |
| `BeginMark`, `MarkAuthError` | `_mark_auth_error` |
| `TimeOut` | no connection within the pool's timeout: the request fails |
| `Fail`, `Crash` | any exception; the death of the process. All sessions close, the database rolls back |
| `Install`, `Uninstall` | other requests that write the portal's row |

A session whose work is one statement takes and returns its connection within one
action. `save` and `launch` run under the row lock of the portal without an HTTP
call, so each is one action. `config`, `journal` and `release` end after the
identification as far as connections go. Replies 400, 500, 503 and no reply are
one (`"none"`). Worker processes have pools of their own and make their calls
without a session open. The HTTP calls that `actor` and `launch` make with the
user's own token need no connection, and are part of the step or a `Fail`.

### The run

`intake`: two deliveries of one callback (a third waits as the second does), two
button requests over two connections, two installations and any uninstallations.
Two buttons over two connections is the least with which the pool fills up with
requests that hold one and wait for another: they get out by the pool's timeout
only, and the premise of the first half of `NeverStuck`, fewer buttons at work than
connections, is false there and true while one is. With the default 15 connections the same takes 15
button requests at once. Fairness: every step of a request, or its timeout, for
each request on its own: HTTP calls, SQL statements and the wait for a connection
all have timeouts, and the event loop serves every task; none for arrivals,
failures, crashes, installations or any particular answer. `EveryRequestEnds` says
`<>[]` because requests are finite in number, for which reason deadlock is not
checked.

`NeverStuck` is about the two things a request waits for with a connection in hand:
another connection, and the portal's row. Its first half says that with fewer
button requests than connections some request with a connection is waiting for
neither; its second half, without that premise, that whoever waits for the row
waits for a request that holds it and is itself not waiting: the holder of the row
has all the connections it will need. `KeepsLock` is the refinement of `LockedRow`
that `PortalOAuth` keeps as well, with the callbacks that have inserted a job as
those who share the row; so what the two modules assume of the row, each with its
own part of the requests, is the same. `RequestsGetOn` is `CallsGetOn` for the
handlers: each step takes a request on in its handler, or within one step of it in
its portal call.

### Proved

`IntakeProofs`, for any finite sets of callbacks and buttons, any tokens and
capacity, everything the run checks but liveness: `TypeCorrect`, `Durable`, `NoLeak`,
`NoDeadlock`, `FirstWins`, `RightlyDecided`, `RowIsLocked`, `RequestsAreFinite`. The invariant `IntakeInv` says what a request holds by where it
is (`ButtonHolds`, `CallbackHolds`), that the row's present state has been noted
of every callback in work (`Noted`), and that there is one uncommitted job per
token and none beside a committed one (`Committed`). `NoDeadlock` counts: when the
pool is stuck, nobody holds a connection for a portal call and no callback holds
any, so that each connection belongs to a different button request. Its second
half is the lemma `HolderGoesOn`.

`RowIsLocked` needs that whoever holds the row has seen the portal active, and
shares it with nobody (`LockInv`); `RequestsAreFinite` that a rejected token is
forgotten with the portal call it was rejected in (`RejectedInv`), or the second
call of a request would begin one floor up.

## 9. Only model-checked

The liveness properties `EveryJobEnds`, `EveryCallEnds` and `EveryRequestEnds`:
liveness under fairness is beyond the proof system used. Of the last two the half
that does not need fairness is proved: a call and a request make a bounded number
of steps (`CallsAreFinite`, `RequestsAreFinite`), and those who hold the row are not
waiting for it or for a connection (`NoDeadlock`). For jobs, `PromiseIsKept` bounds
the claims but not the polls of a field wait, which end by the clock. Every other property of
the passing runs is also a theorem. The six counterexamples are runs alone.

## 10. Not modelled

* **Callback parsing, secrets, configuration, health probes, logging** keep no state
  that several actors share: sequential functions of one request or of the
  environment, whose models would repeat their code.
* **The loop of `register_extensions`** over the portals: an administrative script
  over portals that do not depend on one another. That one portal's exception
  ends it is plain in the code; what it does in each portal is in `Registration`,
  the refresh it begins with in `PortalOAuth`.
* **A late second delivery of an installation callback**: it would bring back its
  old token pair, and the code does not look. Nothing in the repository says that
  installations are repeated.
* **The backoff formula and the text of `Retry-After`**: `RetryDelays` is any set of
  delays, so the properties do not depend on them; a `Retry-After` no `int()` can
  read is among the exceptions of a call.
* **The browser code of the button pages** is presentation. That a press may be sent
  any number of times is in `WorkflowLaunch`.
* **Migrations** are declarative; the constraints they create (the bounds of
  `attempts`, the unique key, the foreign key) are used in `Jobs` and `Intake`.
