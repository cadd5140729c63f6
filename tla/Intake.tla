------------------------------- MODULE Intake -------------------------------
(***************************************************************************)
(* The API process: callbacks of robots (app/api/robots.py, app/jobs/      *)
(* service.py, AutomationJobRepository.create_idempotent) and requests of  *)
(* the workflow buttons (app/api/workflow_buttons.py), which share the     *)
(* process's connections and the portal's row.                             *)
(*                                                                         *)
(* A callback inserts one job per event token, in one transaction.  A      *)
(* button request keeps the connection of its own session while its portal *)
(* calls ask for further ones; a refresh of the tokens keeps the portal's  *)
(* row locked across an HTTP call, and the foreign key of a new job needs  *)
(* that row.                                                               *)
(***************************************************************************)
EXTENDS ConnectionPool

CONSTANTS
  Callback,       \* deliveries of callbacks; one token may be delivered often
  Button,         \* requests of the buttons' pages
  Token,          \* event tokens
  TokenOf,        \* the event token of a callback
  MaxInstalls,    \* bound: installations of the application
  Nobody          \* no job, no holder of the lock

Request == Callback \cup Button

ASSUME IntakeAssumption ==
  /\ IsFiniteSet(Callback) /\ IsFiniteSet(Button)
  /\ Callback \cap Button = {}
  /\ Nobody \notin Request
  /\ TokenOf \in [Callback -> Token]
  /\ MaxInstalls \in Nat

VARIABLES
  at,          \* where a request is in its handler
  call,        \* where a button request is in call_portal
  rejected,    \* the requests whose token this call_portal saw rejected
  installed,   \* the application token stored, as the number of its installation
  active,      \* the portal's status is 'active'
  locker,      \* who holds the portal's row FOR UPDATE across an HTTP call
  carried,     \* the application token of a callback, and whether it was in force:
               \* all that was true of it since the arrival
  job,         \* the committed job of a token, named by the callback it is from
  answer       \* what a callback was answered

press == <<call, rejected>>
row == <<installed, active, locker>>
intake == <<carried, job, answer>>
vars == <<pool, at, press, row, intake>>

-----------------------------------------------------------------------------
CallbackSteps == {"idle", "create", "insert", "created", "found", "end"}

\* The portal calls of the handlers; and all their steps.
Calls == {"identify", "field", "owner", "type", "start"}
ButtonSteps == Calls \cup {"idle", "begin", "write", "reserve", "record", "end"}

CallSteps == {"none", "token", "refresh", "refreshing", "exchange", "once", "send", "mark",
              "marking"}

\* 200 is "accepted", 403 "refused".  400, 500, 503 and no answer at all are "none".
Reply(status) == [status |-> status, job |-> Nobody, existing |-> FALSE]
Accepted(j, existing) == [status |-> "accepted", job |-> j, existing |-> existing]

\* No callback, or none any more.
Nothing == [token |-> 0, force |-> {}]

Running(r) == at[r] \notin {"idle", "end"}

\* verify_application_token, and the status of the portal.
InForce(g) == active /\ g = installed

\* Mutant: the status of the portal is not looked at.
Credential_hash(g) == g = installed

Credential(g) == InForce(g)

\* The insertion of another callback for this token is not committed yet.
Conflicts(c) ==
  \E d \in Callback \ {c} : TokenOf[d] = TokenOf[c] /\ at[d] = "created"

\* Mutant: no unique key; only committed rows are seen.
MayInsert_committed(c) == locker = Nobody

\* INSERT waits for the unique key, and its foreign key for the portal's row.
MayInsert(c) == locker = Nobody /\ ~Conflicts(c)

\* Mutant: only those who insert a job are waited for.
Unlocked_shared == \A c \in Callback : at[c] # "created"

\* FOR UPDATE of the portal also waits for those who have inserted a job.
Unlocked == locker = Nobody /\ \A c \in Callback : at[c] # "created"

\* Who is waiting for a connection.
Waits(r) ==
  \/ at[r] \in {"create", "begin", "record"}
  \/ r \in Button /\ call[r] \in {"token", "refresh", "once", "mark"}

\* To be said by whoever changes the portal's row.
Observed ==
  carried' = [c \in Callback |->
                IF Running(c)
                THEN [carried[c] EXCEPT !.force = @ \cup {active' /\ carried[c].token = installed'}]
                ELSE carried[c]]

\* A callback that is over.
Forget(c) == carried' = [carried EXCEPT ![c] = Nothing]

-----------------------------------------------------------------------------
(* Callbacks of robots *)

\* The body is read and parsed before the database is asked.
Arrive(c) ==
  /\ at[c] = "idle"
  /\ \/ /\ at' = [at EXCEPT ![c] = "create"]
        /\ \E g \in 1..installed :
             carried' = [carried EXCEPT ![c] = [token |-> g, force |-> {InForce(g)}]]
     \/ /\ at' = [at EXCEPT ![c] = "end"]
        /\ UNCHANGED carried
  /\ UNCHANGED <<pool, press, row, job, answer>>

\* ShortPauseJobService.create and SubscriptionJobService.create: the portal is read.
Create(c) ==
  /\ at[c] = "create" /\ Free
  /\ \/ /\ Credential(carried[c].token)
        /\ at' = [at EXCEPT ![c] = "insert"]
        /\ TakeMain(c)
        /\ UNCHANGED <<answer, carried>>
     \/ /\ ~Credential(carried[c].token)
        /\ at' = [at EXCEPT ![c] = "end"]
        /\ answer' = [answer EXCEPT ![c] = Reply("refused")]
        /\ Forget(c)
        /\ UNCHANGED pool
  /\ UNCHANGED <<press, row, job>>

\* create_idempotent: ON CONFLICT DO NOTHING, and the row that is there.
InsertRow(c) ==
  /\ at[c] = "insert"
  /\ \/ /\ job[TokenOf[c]] # Nobody
        /\ at' = [at EXCEPT ![c] = "found"]
     \/ /\ job[TokenOf[c]] = Nobody /\ MayInsert(c)
        /\ at' = [at EXCEPT ![c] = "created"]
  /\ UNCHANGED <<pool, press, row, carried, job>>

\* Mutant: the callback is answered before the transaction is committed.
Insert_answers(c) ==
  InsertRow(c) /\ answer' = [answer EXCEPT ![c] = Accepted(c, FALSE)]

Insert(c) == InsertRow(c) /\ UNCHANGED answer

Commit(c) ==
  /\ \/ /\ at[c] = "created"
        /\ job' = [job EXCEPT ![TokenOf[c]] = c]
        /\ answer' = [answer EXCEPT ![c] = Accepted(c, FALSE)]
     \/ /\ at[c] = "found"
        /\ answer' = [answer EXCEPT ![c] = Accepted(job[TokenOf[c]], TRUE)]
        /\ UNCHANGED job
  /\ at' = [at EXCEPT ![c] = "end"]
  /\ Close(c) /\ Forget(c)
  /\ UNCHANGED <<press, row>>

\* The connection is lost during the commit: the row may be there or not.
CommitFails(c) ==
  /\ at[c] = "created"
  /\ \E j \in {Nobody, c} : job' = [job EXCEPT ![TokenOf[c]] = j]
  /\ at' = [at EXCEPT ![c] = "end"]
  /\ Close(c) /\ Forget(c)
  /\ UNCHANGED <<press, row, answer>>

-----------------------------------------------------------------------------
(* Requests of the buttons *)

Open(b) ==
  /\ at[b] = "idle"
  /\ at' = [at EXCEPT ![b] = "begin"]
  /\ UNCHANGED <<pool, press, row, intake>>

\* The handler goes on at s, which may be a portal call, or its end.
Proceed(b, s) ==
  /\ at' = [at EXCEPT ![b] = s]
  /\ call' = [call EXCEPT ![b] = IF s \in Calls THEN "token" ELSE "none"]
  /\ rejected' = rejected \ {b}

\* actor: the portal's row, with the connection the request keeps from here on.
Begin(b) ==
  /\ at[b] = "begin" /\ Free
  /\ \/ active /\ TakeMain(b) /\ Proceed(b, "identify")
     \/ ~active /\ UNCHANGED pool /\ Proceed(b, "end")
  /\ UNCHANGED <<row, intake>>

\* save, after validate_field.
Write(b) ==
  /\ at[b] = "write" /\ Unlocked
  /\ Close(b) /\ Proceed(b, "end")
  /\ UNCHANGED <<row, intake>>

\* launch: turned away, or reserved and committed.
Reserve(b) ==
  /\ at[b] = "reserve" /\ Unlocked
  /\ \E s \in {"start", "end"} : Proceed(b, s)
  /\ GiveMain(b)
  /\ UNCHANGED <<row, intake>>

\* launch: what became of it.
Record(b) ==
  /\ at[b] = "record" /\ Free
  /\ Proceed(b, "end")
  /\ UNCHANGED <<pool, row, intake>>

-----------------------------------------------------------------------------
(* call_portal within a button request *)

\* Where a handler goes on after a result.  What only reads (config, journal), or
\* needs no other row than its own (release), ends; so does what is turned away.
AfterResult(b) ==
  CASE at[b] = "identify" -> {"end", "field", "reserve"}
    [] at[b] = "field" -> {"owner"}
    [] at[b] = "owner" -> {"type", "write", "end"}
    [] at[b] = "type"  -> {"write", "end"}
    [] at[b] = "start" -> {"record"}

\* Mutant: a launch that was not confirmed is tried again.
AfterError_again(b) == IF at[b] = "start" THEN {"record", "start"} ELSE {"end"}

\* After a BitrixError only a launch goes on.
AfterError(b) == IF at[b] = "start" THEN {"record"} ELSE {"end"}

\* call_portal returns or raises; it leaves no session open.
Return(b, steps) ==
  \E s \in steps :
    /\ Proceed(b, s)
    /\ IF s = "end" THEN Close(b) ELSE GiveInner(b)

Goes(b, step) == call' = [call EXCEPT ![b] = step] /\ UNCHANGED <<at, rejected>>

\* Mutant: the session of get_access_token is open while the refresh opens its own.
NearExpiry_nested(b) == Goes(b, "refresh") /\ TakeInner(b)

NearExpiry(b) == Goes(b, "refresh") /\ UNCHANGED pool

GetAccessToken(b) ==
  /\ call[b] = "token" /\ Free
  /\ \/ ~active /\ Return(b, AfterError(b))
     \/ active /\ Goes(b, "once") /\ UNCHANGED pool
     \/ active /\ NearExpiry(b)
  /\ UNCHANGED <<row, intake>>

\* refresh_access_token: a second connection, kept while it waits for the row.
BeginRefresh(b) ==
  /\ call[b] = "refresh" /\ Free
  /\ Goes(b, "refreshing") /\ TakeInner(b)
  /\ UNCHANGED <<row, intake>>

LockRow(b) ==
  /\ call[b] = "refreshing" /\ Unlocked
  /\ \/ ~active /\ Return(b, AfterError(b)) /\ UNCHANGED locker
     \/ active /\ b \notin rejected /\ Goes(b, "once") /\ GiveInner(b) /\ UNCHANGED locker
     \/ active /\ Goes(b, "exchange") /\ locker' = b /\ UNCHANGED pool
  /\ UNCHANGED <<installed, active, intake>>

\* The authorization server has answered: a pair, a rejection, or an outage.
Exchange(b) ==
  /\ call[b] = "exchange"
  /\ locker' = Nobody
  /\ \/ Goes(b, "once") /\ GiveInner(b) /\ UNCHANGED <<active, carried>>
     \/ active' = FALSE /\ Return(b, AfterError(b)) /\ Observed
     \/ Return(b, AfterError(b)) /\ UNCHANGED <<active, carried>>
  /\ UNCHANGED <<installed, job, answer>>

CallOnce(b) ==
  /\ call[b] = "once" /\ Free
  /\ \/ ~active /\ Return(b, AfterError(b))
     \/ active /\ Goes(b, "send") /\ UNCHANGED pool
  /\ UNCHANGED <<row, intake>>

\* The answer of the portal: one rejected token is refreshed, a second one is final.
Send(b) ==
  /\ call[b] = "send"
  /\ \/ Return(b, AfterResult(b))
     \/ Return(b, AfterError(b))
     \/ /\ b \notin rejected
        /\ rejected' = rejected \cup {b}
        /\ call' = [call EXCEPT ![b] = "refresh"]
        /\ UNCHANGED <<at, pool>>
     \/ b \in rejected /\ Goes(b, "mark") /\ UNCHANGED pool
  /\ UNCHANGED <<row, intake>>

BeginMark(b) ==
  /\ call[b] = "mark" /\ Free
  /\ Goes(b, "marking") /\ TakeInner(b)
  /\ UNCHANGED <<row, intake>>

MarkAuthError(b) ==
  /\ call[b] = "marking" /\ Unlocked
  /\ active' = FALSE
  /\ Return(b, AfterError(b)) /\ Observed
  /\ UNCHANGED <<installed, locker, job, answer>>

-----------------------------------------------------------------------------
(* Everything that ends a request at once *)

\* Its sessions are closed, its row is unlocked.
Abort(r) ==
  /\ at' = [at EXCEPT ![r] = "end"]
  /\ call' = [b \in Button |-> IF b = r THEN "none" ELSE call[b]]
  /\ rejected' = rejected \ {r}
  /\ locker' = IF locker = r THEN Nobody ELSE locker
  /\ carried' = [c \in Callback |-> IF c = r THEN Nothing ELSE carried[c]]
  /\ Close(r)
  /\ UNCHANGED <<installed, active, job, answer>>

\* sqlalchemy.exc.TimeoutError: no connection within the pool's timeout.
TimeOut(r) == Waits(r) /\ GivesUp /\ Abort(r)

\* Any other exception outside a commit: the database, the decryption of a token.
Fail(r) == Running(r) /\ Abort(r)

\* The process dies with all its requests; the database rolls back.
Crash ==
  /\ \E r \in Request : Running(r)
  /\ at' = [r \in Request |-> IF Running(r) THEN "end" ELSE at[r]]
  /\ call' = [b \in Button |-> "none"]
  /\ rejected' = {} /\ locker' = Nobody
  /\ main' = {} /\ inner' = {}
  /\ carried' = [c \in Callback |-> Nothing]
  /\ UNCHANGED <<installed, active, job, answer>>

-----------------------------------------------------------------------------
(* Other requests that change the portal's row, each in one statement *)

Install ==
  /\ installed < MaxInstalls /\ locker = Nobody /\ Free
  /\ installed' = installed + 1 /\ active' = TRUE
  /\ Observed
  /\ UNCHANGED <<pool, at, press, locker, job, answer>>

Uninstall ==
  /\ active /\ Unlocked /\ Free
  /\ active' = FALSE
  /\ Observed
  /\ UNCHANGED <<pool, at, press, installed, locker, job, answer>>

-----------------------------------------------------------------------------
Init ==
  /\ Idle
  /\ at = [r \in Request |-> "idle"]
  /\ call = [b \in Button |-> "none"]
  /\ rejected = {}
  /\ installed = 1 /\ active = TRUE /\ locker = Nobody
  /\ carried = [c \in Callback |-> Nothing]
  /\ job = [t \in Token |-> Nobody]
  /\ answer = [c \in Callback |-> Reply("none")]

CallbackStep(c) == Create(c) \/ Insert(c) \/ Commit(c)

ButtonStep(b) ==
  \/ Begin(b) \/ Write(b) \/ Reserve(b) \/ Record(b)
  \/ GetAccessToken(b) \/ BeginRefresh(b) \/ LockRow(b) \/ Exchange(b)
  \/ CallOnce(b) \/ Send(b) \/ BeginMark(b) \/ MarkAuthError(b)

Next ==
  \/ \E c \in Callback : Arrive(c) \/ CallbackStep(c) \/ CommitFails(c)
  \/ \E b \in Button : Open(b) \/ ButtonStep(b)
  \/ \E r \in Request : TimeOut(r) \/ Fail(r)
  \/ Crash \/ Install \/ Uninstall

Fairness ==
  /\ \A c \in Callback : WF_vars(CallbackStep(c) \/ TimeOut(c))
  /\ \A b \in Button : WF_vars(ButtonStep(b) \/ TimeOut(b))

Spec == Init /\ [][Next]_vars /\ Fairness

-----------------------------------------------------------------------------
(***************************************************************************)
(* The types; no more connections than the pool has.                       *)
(***************************************************************************)
TypeOK ==
  /\ main \subseteq Request /\ inner \subseteq Button
  /\ InUse <= Capacity
  /\ at \in [Request -> CallbackSteps \cup ButtonSteps]
  /\ call \in [Button -> CallSteps]
  /\ rejected \subseteq Button
  /\ installed \in Nat /\ active \in BOOLEAN
  /\ locker \in Button \cup {Nobody}
  /\ carried \in [Callback -> [token : Nat, force : SUBSET BOOLEAN]]
  /\ job \in [Token -> Callback \cup {Nobody}]
  /\ answer \in [Callback -> [status : {"none", "accepted", "refused"},
                              job : Callback \cup {Nobody}, existing : BOOLEAN]]

(***************************************************************************)
(* A callback that was answered 200 has a committed job, and every         *)
(* callback of its token was told the same one: "existing" by all but the  *)
(* one that inserted it, whatever was lost or repeated                     *)
(* (create_idempotent).                                                    *)
(***************************************************************************)
AcceptedIsDurable ==
  \A c \in Callback :
    answer[c].status = "accepted" =>
      /\ answer[c].job = job[TokenOf[c]] /\ answer[c].job # Nobody
      /\ answer[c].existing <=> answer[c].job # c

(***************************************************************************)
(* The job of a token is the one inserted first: no later callback, at a   *)
(* time or after a failure, replaces it.                                   *)
(***************************************************************************)
FirstJobStays == [][\A t \in Token : job[t] # Nobody => job'[t] = job[t]]_vars

(***************************************************************************)
(* A job is only of a callback whose application token was in force while  *)
(* it was handled, and a callback is only refused if, at some time, it was *)
(* not: whatever installations and uninstallations come in between         *)
(* (app/jobs/service.py).                                                  *)
(***************************************************************************)
CredentialDecides ==
  [][\A c \in Callback :
       /\ job'[TokenOf[c]] = c /\ job[TokenOf[c]] # c => TRUE \in carried[c].force
       /\ answer'[c].status = "refused" /\ answer[c].status # "refused"
            => FALSE \in carried[c].force]_vars

(***************************************************************************)
(* A request that is over holds no connection and no lock.                 *)
(***************************************************************************)
NothingLeaks ==
  \A r \in Request : ~Running(r) => r \notin main \cup inner /\ locker # r

(***************************************************************************)
(* While there are fewer button requests than connections, the pool is     *)
(* never in the hands of requests that all wait, for another connection or *)
(* for the portal's row: callbacks and refreshes never wait for a          *)
(* connection with one in hand.  And whoever waits for the row waits for   *)
(* a request that can go on: no request keeps the row while it waits for   *)
(* the pool.                                                               *)
(***************************************************************************)
AwaitsRow(r) ==
  \/ r \in Callback /\ at[r] = "insert" /\ job[TokenOf[r]] = Nobody /\ ~MayInsert(r)
  \/ /\ r \in Button /\ ~Unlocked
     /\ at[r] \in {"write", "reserve"} \/ call[r] \in {"refreshing", "marking"}

HoldsRow(r) == locker = r \/ (r \in Callback /\ at[r] = "created")

Blocked(r) == AwaitsRow(r) \/ (Waits(r) /\ ~Free)

Stuck == ~Free /\ \A r \in main \cup inner : Blocked(r)

NeverStuck ==
  /\ Cardinality({b \in Button : Running(b)}) < Capacity => ~Stuck
  /\ (\E r \in Request : AwaitsRow(r)) => \E h \in Request : HoldsRow(h) /\ ~Blocked(h)

(***************************************************************************)
(* The portal's row keeps the promise of LockedRow, as it does in          *)
(* PortalOAuth, where the token pairs are: a refresh holds it alone, those *)
(* who insert a job share it (its foreign key, models/job.py:67), and no    *)
(* status changes under either's feet except by an installation.           *)
(***************************************************************************)
Locked ==
  INSTANCE LockedRow WITH
    holder <- locker,
    guests <- {c \in Callback : at[c] = "created"}

KeepsLock == Locked!RowSpec

(***************************************************************************)
(* No request turns in circles: each step takes it on in its handler, or,  *)
(* between two steps of the handler, in its portal call, where a rejected  *)
(* token starts the way again once.  So a request makes a bounded number   *)
(* of calls whatever the portal answers.                                   *)
(***************************************************************************)
HandlerRank(s) ==
  CASE s = "idle" -> 0 [] s \in {"create", "begin"} -> 1
    [] s \in {"insert", "identify"} -> 2 [] s \in {"created", "found", "field"} -> 3
    [] s = "owner" -> 4 [] s = "type" -> 5 [] s \in {"write", "reserve"} -> 6
    [] s = "start" -> 7 [] s = "record" -> 8 [] s = "end" -> 9

CallRank(step, again) ==
  (IF again THEN 6 ELSE 0) +
    CASE step = "none" -> 0 [] step = "token" -> 1 [] step = "refresh" -> 2
      [] step = "refreshing" -> 3 [] step = "exchange" -> 4 [] step = "once" -> 5
      [] step = "send" -> 6 [] step = "mark" -> 7 [] step = "marking" -> 8

RequestsGetOn ==
  [][\A r \in Request :
       \/ HandlerRank(at[r]) < HandlerRank(at'[r])
       \/ /\ at'[r] = at[r]
          /\ r \in Button /\ (call'[r] # call[r] \/ ~(r \in rejected' <=> r \in rejected))
               => CallRank(call[r], r \in rejected) < CallRank(call'[r], r \in rejected')]_vars

(***************************************************************************)
(* Every request ends, however the requests wait for one another's         *)
(* connections and for the portal's row; as there are finitely many, from  *)
(* some time on none is left.                                              *)
(***************************************************************************)
EveryRequestEnds == <>[](\A r \in Request : ~Running(r))
=============================================================================
