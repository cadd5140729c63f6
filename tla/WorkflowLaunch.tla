--------------------------- MODULE WorkflowLaunch ---------------------------
(***************************************************************************)
(* One workflow button (app/api/workflow_buttons.py): requests to launch   *)
(* its workflow on deals, the launches they reserve in workflow_launches,  *)
(* the administrator's settings and releases.                              *)
(*                                                                         *)
(* A request opens its transaction when it looks the portal up, makes some *)
(* HTTP calls to check who asks and for which deal, locks portal and       *)
(* button, and reserves: everything under the locks is one action.  The    *)
(* column created_at of what it reserves is the start of the transaction   *)
(* (server_default now()), not the time of the reservation.  After the     *)
(* commit it starts the workflow, and records what came of it.             *)
(***************************************************************************)
EXTENDS Integers, BitrixClient

CONSTANTS
  Request,      \* POST /launch requests, repeated ones included
  Id,           \* request_id: one per press of the button
  Deal,         \* whom a press is for: deal and user
  Cooldowns,    \* possible values of cooldown_seconds
  ReleaseAge,   \* the five minutes before a release
  CheckTime,    \* how long after its start a request may reach its reservation
  RequestTime,  \* how long after its start a request may wait for the workflow's start
  MaxTime       \* bound: the last instant

ASSUME LaunchAssumption ==
  /\ Cooldowns \subseteq Nat /\ Cooldowns # {}
  /\ ReleaseAge \in Nat /\ RequestTime \in Nat /\ MaxTime \in Nat
  /\ CheckTime \in 0..RequestTime

VARIABLES
  settings,  \* the button's settings; not enabled until it is configured
  launch,    \* launch[k]: the row of press k
  request,   \* a request: its step and local variables
  now,       \* the clock
  started    \* started[k]: workflows the portal has started for press k

vars == <<settings, launch, request, now, started>>

Status == {"none", "starting", "started", "blocked", "unknown"}
Settings == [enabled : BOOLEAN, block : BOOLEAN, cooldown : Cooldowns]
Launch == [status : Status, deal : Deal, created : 0..MaxTime, released : BOOLEAN]
Local == [step : {"idle", "checks", "call", "record", "done"}, id : Id, deal : Deal,
          began : 0..MaxTime, block : BOOLEAN, outcome : Status]

TypeOK ==
  /\ settings \in Settings
  /\ launch \in [Id -> Launch]
  /\ request \in [Request -> Local]
  /\ now \in 0..MaxTime
  /\ started \in [Id -> Nat]

Init ==
  /\ settings \in [enabled : {FALSE}, block : {FALSE}, cooldown : Cooldowns]
  /\ \E d \in Deal :
       launch = [k \in Id |-> [status |-> "none", deal |-> d, created |-> 0, released |-> FALSE]]
  /\ \E k \in Id, d \in Deal :
       request = [r \in Request |-> [step |-> "idle", id |-> k, deal |-> d, began |-> 0,
                                     block |-> FALSE, outcome |-> "none"]]
  /\ now = 0
  /\ started = [k \in Id |-> 0]

(***************************************************************************)
(* The administrator.                                                      *)
(***************************************************************************)

\* POST /save, under the portal's lock.
Save ==
  /\ settings' \in Settings
  /\ UNCHANGED <<launch, request, now, started>>

\* Mutant: without the age.
Releasable_any(k) == launch[k].status # "none"

Releasable(k) == launch[k].status # "none" /\ launch[k].created <= now - ReleaseAge

\* POST /release
Release(k) ==
  /\ Releasable(k)
  /\ launch' = [launch EXCEPT ![k].released = TRUE]
  /\ UNCHANGED <<settings, request, now, started>>

(***************************************************************************)
(* POST /launch.                                                           *)
(***************************************************************************)
\* The request is answered, or dropped; its local variables are gone.
End(r) == request' = [request EXCEPT ![r].step = "done", ![r].began = 0,
                                     ![r].block = FALSE, ![r].outcome = "none"]

\* The request looks up the portal: the transaction begins.
Begin(r) ==
  /\ request[r].step = "idle"
  /\ \E k \in Id, d \in Deal :
       request' = [request EXCEPT ![r].step = "checks", ![r].id = k, ![r].deal = d,
                                  ![r].began = now]
  /\ UNCHANGED <<settings, launch, now, started>>

\* A launch that is in flight, of unknown outcome, or kept blocked.
Open(k) == launch[k].status \in {"starting", "unknown", "blocked"} /\ ~launch[k].released

\* Mutant: a launch in flight does not block.
Blocks_resolved(k) ==
  \/ launch[k].status \in {"unknown", "blocked"} /\ ~launch[k].released
  \/ launch[k].created > now - settings.cooldown

\* Why the most recent launch may forbid the next.
Blocks(k) == Open(k) \/ launch[k].created > now - settings.cooldown

Of(d) == {k \in Id : launch[k].status # "none" /\ launch[k].deal = d}

\* ORDER BY created_at DESC LIMIT 1
MostRecent(d) == {k \in Of(d) : \A m \in Of(d) : launch[m].created <= launch[k].created}

\* Mutant: a press of unknown outcome may be repeated.
Unused_unknown(k) == launch[k].status \in {"none", "unknown"}

Unused(k) == launch[k].status = "none"

\* Everything between the locks and the commit, when nothing speaks against it.
Reserve(r) ==
  LET q == request[r]
  IN  /\ q.step = "checks" /\ settings.enabled
      /\ Unused(q.id)
      /\ Of(q.deal) = {} \/ \E k \in MostRecent(q.deal) : ~Blocks(k)
      /\ launch' = [launch EXCEPT ![q.id] = [status |-> "starting", deal |-> q.deal,
                                             created |-> q.began, released |-> FALSE]]
      /\ request' = [request EXCEPT ![r].step = "call", ![r].block = settings.block]
      /\ UNCHANGED <<settings, now, started>>

\* Without a reservation: a check fails, the user may not launch, the id is used
\* (its saved result is returned, or 409 for another deal), or the launch is blocked.
TurnAway(r) ==
  /\ request[r].step = "checks"
  /\ End(r)
  /\ UNCHANGED <<settings, launch, now, started>>

\* Mutants: a result that is no id counts as a start; an error has a status of
\* its own, which nothing blocks.
Outcome_any(call, block) ==
  IF call.class = "result"
  THEN IF block THEN "blocked" ELSE "started"
  ELSE "unknown"

Outcome_error(call, block) ==
  CASE Obtained(call) -> IF block THEN "blocked" ELSE "started"
    [] call.class = "result" /\ ~call.expected -> "unknown"
    [] OTHER -> "error"

\* What is recorded of a call of bizproc.workflow.start that obtained the
\* workflow's id, another result, or a BitrixError.
Outcome(call, block) ==
  IF Obtained(call)
  THEN IF block THEN "blocked" ELSE "started"
  ELSE "unknown"

\* bizproc.workflow.start.  What is no BitrixError - a failed session, an
\* unreadable token - ends the request and leaves the row 'starting'.
StartWorkflow(r) ==
  LET q == request[r]
  IN  /\ q.step = "call"
      /\ \E c \in PortalCalls :
           /\ started' = IF c.done THEN [started EXCEPT ![q.id] = @ + 1] ELSE started
           /\ IF c.class \in NotBitrixErrors
              THEN End(r)
              ELSE request' = [request EXCEPT ![r].step = "record",
                                              ![r].outcome = Outcome(c, q.block)]
      /\ UNCHANGED <<settings, launch, now>>

\* The second commit: an UPDATE of the status, by the primary key.
Record(r) ==
  /\ request[r].step = "record"
  /\ launch' = [launch EXCEPT ![request[r].id].status = request[r].outcome]
  /\ End(r)
  /\ UNCHANGED <<settings, now, started>>

\* The server dies; the portal may have been asked already.
Crash(r) ==
  /\ request[r].step \in {"checks", "call", "record"}
  /\ End(r)
  /\ \/ started' = started
     \/ /\ request[r].step = "call"
        /\ started' = [started EXCEPT ![request[r].id] = @ + 1]
  /\ UNCHANGED <<settings, launch, now>>

(***************************************************************************)
(* The clock, which no request outlives by more than its limits.           *)
(***************************************************************************)
Age(r) == now - request[r].began

Tick ==
  /\ now < MaxTime
  /\ \A r \in Request :
       /\ request[r].step = "checks" => Age(r) < CheckTime
       /\ request[r].step \in {"call", "record"} => Age(r) < RequestTime
  /\ now' = now + 1
  /\ UNCHANGED <<settings, launch, request, started>>

Next ==
  \/ Save \/ Tick
  \/ \E k \in Id : Release(k)
  \/ \E r \in Request :
       \/ Begin(r) \/ Reserve(r) \/ TurnAway(r) \/ StartWorkflow(r) \/ Record(r) \/ Crash(r)

Spec == Init /\ [][Next]_vars

(***************************************************************************)
(* Properties.                                                             *)
(***************************************************************************)

\* One press starts one workflow at most, however often its request is repeated,
\* whatever is lost and whoever else presses (docs/WORKFLOW_BUTTONS.md:78-79).
StartedOnce == \A k \in Id : started[k] <= 1

\* The journal is true: "started" and "blocked" are said only of a workflow that
\* was started, and no workflow was started without a row.
JournalIsTrue ==
  \A k \in Id :
    /\ launch[k].status \in {"started", "blocked"} => started[k] > 0
    /\ started[k] > 0 => launch[k].status # "none"

\* A launch in flight, of unknown outcome, or kept blocked is the only one of its
\* deal until it is released: the next is not reserved, a pause later either
\* (test_unresolved_launch_blocks_even_after_cooldown).
AtMostOneOpen ==
  \A k, m \in Id : k # m /\ launch[k].deal = launch[m].deal => ~(Open(k) /\ Open(m))

\* "A request in flight must not be unlocked while its HTTP operation may still
\* finish" (workflow_buttons.py:410).
ReleasedIsNotInFlight ==
  \A r \in Request : request[r].step \in {"call", "record"} => ~launch[request[r].id].released

\* Every deal keeps the promise of DealGate: its presses go through one at a time, and
\* a workflow is only started by the one whose launch is unresolved - never by a press
\* that was released, or overtaken by the next (workflow_buttons.py:303-345).
Gate(d) ==
  INSTANCE DealGate WITH
    Press  <- Id,
    inside <- {k \in Of(d) : Open(k)},
    used   <- Of(d),
    starts <- [k \in Id |-> IF launch[k].deal = d THEN started[k] ELSE 0]

KeepsGate ==
  /\ \A d \in Deal : Gate(d)!GateInit
  /\ [][\A d \in Deal : [Gate(d)!GateNext]_(Gate(d)!gate)]_vars
=============================================================================
