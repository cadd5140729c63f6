---------------------------- MODULE LaunchProofs ----------------------------
(***************************************************************************)
(* Theorems about the launches of a button for any number of requests,     *)
(* presses and deals.                                                      *)
(***************************************************************************)
EXTENDS WorkflowLaunch, ClientProofs, TLAPS

\* A row is reserved, or its status or release is written; the others stay.
Only(k) == \A m \in Id \ {k} : launch'[m] = launch[m]

\* A step of one request leaves the others alone.
Alone(r) == \A s \in Request \ {r} : request'[s] = request[s]

-----------------------------------------------------------------------------
(* Types, and what each action of a request does to it. *)

LEMMA EndRequest ==
  ASSUME request \in [Request -> Local], NEW r \in Request, End(r)
  PROVE  request' \in [Request -> Local] /\ Alone(r) /\ request'[r].step = "done"
<1>1. 0 \in 0..MaxTime /\ "none" \in Status
  BY LaunchAssumption DEF Status
<1>2. /\ request' = [request EXCEPT ![r] = [request[r] EXCEPT !.step = "done", !.began = 0,
                                                            !.block = FALSE, !.outcome = "none"]]
  BY DEF End
<1>3. [request[r] EXCEPT !.step = "done", !.began = 0, !.block = FALSE, !.outcome = "none"]
        \in Local
  BY <1>1 DEF Local
<1>4. [request[r] EXCEPT !.step = "done", !.began = 0, !.block = FALSE, !.outcome = "none"].step
        = "done"
  BY DEF Local
<1> QED
  BY <1>2, <1>3, <1>4 DEF Alone

LEMMA BeginRequest ==
  ASSUME TypeOK, NEW r \in Request, Begin(r)
  PROVE  /\ request' \in [Request -> Local] /\ Alone(r)
         /\ request'[r].step = "checks" /\ request'[r].began = now
<1>1. PICK k \in Id, d \in Deal :
        request' = [request EXCEPT ![r].step = "checks", ![r].id = k, ![r].deal = d,
                                   ![r].began = now]
  BY DEF Begin
<1>2. [request[r] EXCEPT !.step = "checks", !.id = k, !.deal = d, !.began = now] \in Local
  BY DEF TypeOK, Local
<1>3. request' = [request EXCEPT ![r] = [request[r] EXCEPT !.step = "checks", !.id = k,
                                                           !.deal = d, !.began = now]]
  BY <1>1
<1>4. /\ request' \in [Request -> Local] /\ Alone(r)
      /\ request'[r] = [request[r] EXCEPT !.step = "checks", !.id = k, !.deal = d, !.began = now]
  BY <1>2, <1>3 DEF TypeOK, Alone
<1>5. request[r] \in Local
  BY DEF TypeOK
<1> QED
  BY <1>4, <1>5 DEF Local

LEMMA ReserveRequest ==
  ASSUME TypeOK, NEW r \in Request, Reserve(r)
  PROVE  /\ request' \in [Request -> Local] /\ Alone(r)
         /\ request[r].step = "checks" /\ request'[r].step = "call"
         /\ request'[r].id = request[r].id /\ request'[r].began = request[r].began
         /\ request[r].id \in Id /\ Unused(request[r].id)
<1>1. settings.block \in BOOLEAN
  BY DEF TypeOK, Settings
<1> QED
  BY <1>1 DEF Reserve, TypeOK, Local, Alone

LEMMA ReserveLaunch ==
  ASSUME TypeOK, NEW r \in Request, Reserve(r)
  PROVE  /\ launch' \in [Id -> Launch] /\ Only(request[r].id)
         /\ launch'[request[r].id] =
              [status |-> "starting", deal |-> request[r].deal,
               created |-> request[r].began, released |-> FALSE]
<1>1. request[r].id \in Id /\ request[r].deal \in Deal /\ request[r].began \in 0..MaxTime
  BY DEF TypeOK, Local
<1> QED
  BY <1>1 DEF Reserve, TypeOK, Launch, Status, Only

\* A call that ends in no BitrixError leaves what a crash after the call leaves.
Answer(r) == StartWorkflow(r) /\ request'[r].step = "record"

LEMMA StartSteps ==
  ASSUME TypeOK, NEW r \in Request, StartWorkflow(r)
  PROVE  Answer(r) \/ Crash(r)
<1>1. PICK c \in PortalCalls :
        /\ started' = IF c.done THEN [started EXCEPT ![request[r].id] = @ + 1] ELSE started
        /\ IF c.class \in NotBitrixErrors
           THEN End(r)
           ELSE request' = [request EXCEPT ![r].step = "record",
                                           ![r].outcome = Outcome(c, request[r].block)]
  BY DEF StartWorkflow
<1>2. request[r].step = "call" /\ UNCHANGED <<settings, launch, now>>
  BY DEF StartWorkflow
<1>3. CASE c.class \in NotBitrixErrors
  BY <1>1, <1>2, <1>3 DEF Crash
<1>4. CASE c.class \notin NotBitrixErrors
  <2>1. request' = [request EXCEPT ![r] = [request[r] EXCEPT
                       !.step = "record", !.outcome = Outcome(c, request[r].block)]]
    BY <1>1, <1>4
  <2>2. request'[r].step = "record"
    BY <2>1 DEF TypeOK, Local
  <2> QED
    BY <2>2 DEF Answer
<1> QED
  BY <1>3, <1>4

LEMMA AnswerRequest ==
  ASSUME TypeOK, NEW r \in Request, Answer(r)
  PROVE  /\ request' \in [Request -> Local] /\ Alone(r)
         /\ request[r].step = "call" /\ request'[r].step = "record"
         /\ request'[r].id = request[r].id /\ request'[r].began = request[r].began
         /\ request[r].id \in Id
         /\ request'[r].outcome \in {"started", "blocked", "unknown"}
         /\ started' \in [Id -> Nat]
         /\ \A m \in Id \ {request[r].id} : started'[m] = started[m]
         /\ started'[request[r].id] \in {started[request[r].id], started[request[r].id] + 1}
         /\ request'[r].outcome \in {"started", "blocked"} =>
              started'[request[r].id] = started[request[r].id] + 1
<1>0. PICK c \in PortalCalls :
        /\ started' = IF c.done THEN [started EXCEPT ![request[r].id] = @ + 1] ELSE started
        /\ IF c.class \in NotBitrixErrors
           THEN End(r)
           ELSE request' = [request EXCEPT ![r].step = "record",
                                           ![r].outcome = Outcome(c, request[r].block)]
  BY DEF Answer, StartWorkflow
<1>a. c.class \notin NotBitrixErrors
  BY <1>0, EndRequest DEF Answer, TypeOK
<1>1. request' = [request EXCEPT ![r].step = "record",
                                 ![r].outcome = Outcome(c, request[r].block)]
  BY <1>0, <1>a
<1>2. /\ Outcome(c, request[r].block) \in {"started", "blocked", "unknown"}
      /\ Outcome(c, request[r].block) \in {"started", "blocked"} => c.done
  BY ResultMeansDone DEF Outcome
<1>3. request[r].id \in Id /\ started[request[r].id] \in Nat
  BY DEF TypeOK, Local
<1>4. /\ request' \in [Request -> Local] /\ Alone(r)
      /\ request'[r].step = "record" /\ request'[r].id = request[r].id
      /\ request'[r].began = request[r].began
      /\ request'[r].outcome = Outcome(c, request[r].block)
  BY <1>1, <1>2 DEF TypeOK, Local, Status, Alone
<1>5. /\ started' \in [Id -> Nat]
      /\ \A m \in Id \ {request[r].id} : started'[m] = started[m]
      /\ started'[request[r].id] = IF c.done THEN started[request[r].id] + 1
                                             ELSE started[request[r].id]
  BY <1>0, <1>3 DEF TypeOK
<1> QED
  BY <1>2, <1>3, <1>4, <1>5 DEF Answer, StartWorkflow

LEMMA RecordLaunch ==
  ASSUME TypeOK, NEW r \in Request, Record(r)
  PROVE  /\ launch' \in [Id -> Launch] /\ Only(request[r].id)
         /\ request[r].id \in Id /\ request[r].step = "record"
         /\ launch'[request[r].id] = [launch[request[r].id] EXCEPT !.status = request[r].outcome]
         /\ launch'[request[r].id].status = request[r].outcome
<1>1. request[r].id \in Id /\ request[r].outcome \in Status
  BY DEF TypeOK, Local
<1> QED
  BY <1>1 DEF Record, TypeOK, Launch, Only

LEMMA ReleaseLaunch ==
  ASSUME TypeOK, NEW k \in Id, Release(k)
  PROVE  /\ launch' \in [Id -> Launch] /\ Only(k)
         /\ launch'[k] = [launch[k] EXCEPT !.released = TRUE]
BY DEF Release, TypeOK, Launch, Only

LEMMA CrashRequest ==
  ASSUME TypeOK, NEW r \in Request, Crash(r)
  PROVE  /\ request' \in [Request -> Local] /\ Alone(r) /\ request'[r].step = "done"
         /\ request[r].id \in Id /\ started' \in [Id -> Nat]
         /\ \A m \in Id \ {request[r].id} : started'[m] = started[m]
         /\ \/ started'[request[r].id] = started[request[r].id]
            \/ /\ request[r].step = "call"
               /\ started'[request[r].id] = started[request[r].id] + 1
<1>1. request[r].id \in Id
  BY DEF TypeOK, Local
<1>2. request' \in [Request -> Local] /\ Alone(r) /\ request'[r].step = "done"
  BY EndRequest DEF Crash, TypeOK
<1>3. CASE started' = started
  BY <1>1, <1>2, <1>3 DEF TypeOK
<1>4. CASE /\ request[r].step = "call"
           /\ started' = [started EXCEPT ![request[r].id] = @ + 1]
  BY <1>1, <1>2, <1>4 DEF TypeOK
<1> QED
  BY <1>3, <1>4 DEF Crash

LEMMA TypeInit == Init => TypeOK
<1> SUFFICES ASSUME Init PROVE TypeOK
  OBVIOUS
<1>0. 0 \in 0..MaxTime
  BY LaunchAssumption
<1>1. settings \in Settings
  BY DEF Init, Settings
<1>2. launch \in [Id -> Launch]
  BY <1>0 DEF Init, Launch, Status
<1>3. request \in [Request -> Local]
  BY <1>0 DEF Init, Local, Status
<1> QED
  BY <1>0, <1>1, <1>2, <1>3 DEF Init, TypeOK

LEMMA TypeNext == TypeOK /\ [Next]_vars => TypeOK'
<1> SUFFICES ASSUME TypeOK, [Next]_vars PROVE TypeOK'
  OBVIOUS
<1>1. CASE Save
  BY <1>1 DEF Save, TypeOK
<1>2. CASE Tick
  <2>1. now' \in 0..MaxTime
    BY <1>2, LaunchAssumption DEF Tick, TypeOK
  <2> QED
    BY <1>2, <2>1 DEF Tick, TypeOK
<1>3. ASSUME NEW k \in Id, Release(k) PROVE TypeOK'
  BY <1>3, ReleaseLaunch DEF Release, TypeOK
<1>4. ASSUME NEW r \in Request, Begin(r) PROVE TypeOK'
  BY <1>4, BeginRequest DEF Begin, TypeOK
<1>5. ASSUME NEW r \in Request, Reserve(r) PROVE TypeOK'
  <2>1. UNCHANGED <<settings, now, started>>
    BY <1>5 DEF Reserve
  <2> QED
    BY <1>5, <2>1, ReserveRequest, ReserveLaunch DEF TypeOK
<1>6. ASSUME NEW r \in Request, TurnAway(r) PROVE TypeOK'
  BY <1>6, EndRequest DEF TurnAway, TypeOK
<1>7. ASSUME NEW r \in Request, StartWorkflow(r) PROVE TypeOK'
  <2>1. UNCHANGED <<settings, launch, now>>
    BY <1>7 DEF StartWorkflow
  <2> QED
    BY <1>7, <2>1, StartSteps, AnswerRequest, CrashRequest DEF TypeOK
<1>8. ASSUME NEW r \in Request, Record(r) PROVE TypeOK'
  BY <1>8, EndRequest, RecordLaunch DEF Record, TypeOK
<1>9. ASSUME NEW r \in Request, Crash(r) PROVE TypeOK'
  <2>1. UNCHANGED <<settings, launch, now>>
    BY <1>9 DEF Crash
  <2> QED
    BY <1>9, <2>1, CrashRequest DEF TypeOK
<1>10. CASE UNCHANGED vars
  BY <1>10 DEF vars, TypeOK
<1> QED
  BY <1>1, <1>2, <1>3, <1>4, <1>5, <1>6, <1>7, <1>8, <1>9, <1>10 DEF Next

\* The state of a button, its launches and its requests keeps its types: a status
\* outside the five (workflow_buttons.py:338-364) is never recorded.
THEOREM TypeCorrect == Spec => []TypeOK
<1> QED
  BY TypeInit, TypeNext, PTL DEF Spec

-----------------------------------------------------------------------------
(* A launch in flight has one request, and its workflow was not started yet. *)

InFlight(r) == request[r].step \in {"call", "record"}

\* The row a request has reserved waits for its answer.
FlightOwned ==
  \A r \in Request : InFlight(r) =>
    /\ launch[request[r].id].status = "starting"
    /\ launch[request[r].id].created = request[r].began

FlightAlone ==
  \A r, s \in Request : r # s /\ InFlight(r) /\ InFlight(s) => request[r].id # request[s].id

NotYetStarted == \A r \in Request : request[r].step = "call" => started[request[r].id] = 0

\* What is about to be recorded is true.
OutcomeIsTrue ==
  \A r \in Request : request[r].step = "record" =>
    /\ request[r].outcome \in {"started", "blocked", "unknown"}
    /\ request[r].outcome \in {"started", "blocked"} => started[request[r].id] > 0

FlightInv ==
  /\ TypeOK /\ FlightOwned /\ FlightAlone /\ NotYetStarted /\ OutcomeIsTrue
  /\ StartedOnce /\ JournalIsTrue

LEMMA FlightInit == Init => FlightInv
<1> SUFFICES ASSUME Init PROVE FlightInv
  OBVIOUS
<1>1. \A r \in Request : request[r].step = "idle"
  <2>1. PICK k \in Id, d \in Deal :
          request = [r \in Request |-> [step |-> "idle", id |-> k, deal |-> d, began |-> 0,
                                         block |-> FALSE, outcome |-> "none"]]
    BY DEF Init
  <2> QED
    BY <2>1
<1>2. \A k \in Id : launch[k].status = "none" /\ started[k] = 0
  BY DEF Init
<1> QED
  BY <1>1, <1>2, TypeInit DEF FlightInv, FlightOwned, FlightAlone, NotYetStarted,
     OutcomeIsTrue, StartedOnce, JournalIsTrue, InFlight

\* Nothing of a launch in flight changes when its request does not take part.
LEMMA FlightReserve ==
  ASSUME FlightInv, NEW r \in Request, Reserve(r)
  PROVE  FlightInv'
<1> DEFINE k == request[r].id
<1>1. TypeOK' /\ TypeOK /\ started' = started
  BY TypeNext DEF FlightInv, Next, Reserve
<1>2. /\ Alone(r) /\ request'[r].step = "call" /\ request'[r].id = k
      /\ request'[r].began = request[r].began /\ ~InFlight(r) /\ InFlight(r)'
      /\ k \in Id /\ launch[k].status = "none"
  BY <1>1, ReserveRequest DEF InFlight, Unused
<1>3. /\ Only(k) /\ launch'[k].status = "starting" /\ launch'[k].created = request[r].began
  <2>1. launch'[k] = [status |-> "starting", deal |-> request[r].deal,
                      created |-> request[r].began, released |-> FALSE] /\ Only(k)
    BY <1>1, ReserveLaunch
  <2> HIDE DEF k
  <2> QED
    BY <2>1
<1>4. \A s \in Request \ {r} : InFlight(s)' => InFlight(s) /\ request'[s].id # k
  BY <1>2 DEF FlightInv, FlightOwned, InFlight, Alone
<1>i. \A s \in Request : request[s].id \in Id
  BY <1>1 DEF TypeOK, Local
<1>5. started[k] = 0
  BY <1>1, <1>2 DEF FlightInv, JournalIsTrue, TypeOK
<1> HIDE DEF k
<1>6. FlightOwned'
  BY <1>2, <1>3, <1>4, <1>i DEF FlightInv, FlightOwned, InFlight, Alone, Only
<1>7. FlightAlone'
  BY <1>2, <1>4 DEF FlightInv, FlightAlone, InFlight, Alone
<1>8. NotYetStarted' /\ OutcomeIsTrue'
  BY <1>1, <1>2, <1>5 DEF FlightInv, NotYetStarted, OutcomeIsTrue, Alone
<1>9. StartedOnce' /\ JournalIsTrue'
  BY <1>1, <1>2, <1>3, <1>5 DEF FlightInv, StartedOnce, JournalIsTrue, Only
<1> QED
  BY <1>1, <1>6, <1>7, <1>8, <1>9 DEF FlightInv

LEMMA FlightAnswer ==
  ASSUME FlightInv, NEW r \in Request, Answer(r)
  PROVE  FlightInv'
<1> DEFINE k == request[r].id
<1>1. TypeOK' /\ TypeOK /\ launch' = launch
  BY TypeNext DEF FlightInv, Next, Answer, StartWorkflow
<1>2. /\ Alone(r) /\ request[r].step = "call" /\ request'[r].step = "record"
      /\ request'[r].id = k /\ request'[r].began = request[r].began /\ k \in Id
      /\ request'[r].outcome \in {"started", "blocked", "unknown"}
      /\ \A m \in Id \ {k} : started'[m] = started[m]
      /\ started'[k] \in {started[k], started[k] + 1}
      /\ request'[r].outcome \in {"started", "blocked"} => started'[k] = started[k] + 1
  BY <1>1, AnswerRequest
<1>3. InFlight(r) /\ InFlight(r)' /\ \A s \in Request \ {r} : InFlight(s)' <=> InFlight(s)
  BY <1>2 DEF InFlight, Alone
<1>4. started[k] = 0 /\ launch[k].status = "starting"
  BY <1>2, <1>3 DEF FlightInv, NotYetStarted, FlightOwned
<1>5. \A s \in Request \ {r} : InFlight(s) => request[s].id # k /\ request[s].id \in Id
  BY <1>1, <1>3 DEF FlightInv, FlightAlone, TypeOK, Local
<1>61. k = request[r].id
  OBVIOUS
<1> HIDE DEF k
<1>6. FlightOwned'
  <2>1. ASSUME NEW s \in Request, InFlight(s)'
        PROVE  /\ launch[request[s].id].status = "starting"
               /\ launch[request[s].id].created = request[s].began
    BY <1>3, <2>1 DEF FlightInv, FlightOwned
  <2>2. \A s \in Request : request'[s].id = request[s].id /\ request'[s].began = request[s].began
    BY <1>2, <1>61 DEF Alone
  <2> QED
    BY <1>1, <2>1, <2>2 DEF FlightOwned
<1>7. FlightAlone'
  BY <1>2, <1>3, <1>61 DEF FlightInv, FlightAlone, Alone
<1>8. NotYetStarted' /\ OutcomeIsTrue'
  <2>1. NotYetStarted'
    BY <1>2, <1>5 DEF FlightInv, NotYetStarted, Alone, InFlight
  <2>2. OutcomeIsTrue'
    BY <1>2, <1>4, <1>5 DEF FlightInv, OutcomeIsTrue, Alone, InFlight
  <2> QED
    BY <2>1, <2>2
<1>9. StartedOnce' /\ JournalIsTrue'
  BY <1>1, <1>2, <1>4 DEF FlightInv, StartedOnce, JournalIsTrue
<1> QED
  BY <1>1, <1>6, <1>7, <1>8, <1>9 DEF FlightInv

LEMMA FlightRecord ==
  ASSUME FlightInv, NEW r \in Request, Record(r)
  PROVE  FlightInv'
<1> DEFINE k == request[r].id
<1>1. TypeOK' /\ TypeOK /\ started' = started
  BY TypeNext DEF FlightInv, Next, Record
<1>2. /\ Only(k) /\ k \in Id /\ request[r].step = "record"
      /\ launch'[k].status = request[r].outcome
  BY <1>1, RecordLaunch
<1>3. Alone(r) /\ request'[r].step = "done"
  BY <1>1, EndRequest DEF Record, TypeOK
<1>4. ~InFlight(r)' /\ InFlight(r) /\ \A s \in Request \ {r} : InFlight(s)' <=> InFlight(s)
  BY <1>2, <1>3 DEF InFlight, Alone
<1>5. \A s \in Request \ {r} : InFlight(s) => request[s].id # k /\ request[s].id \in Id
  BY <1>1, <1>4 DEF FlightInv, FlightAlone, TypeOK, Local
<1>6. /\ request[r].outcome \in {"started", "blocked", "unknown"}
      /\ request[r].outcome \in {"started", "blocked"} => started[k] > 0
  BY <1>2 DEF FlightInv, OutcomeIsTrue
<1> HIDE DEF k
<1>7. FlightOwned'
  BY <1>2, <1>3, <1>4, <1>5 DEF FlightInv, FlightOwned, Alone, Only
<1>8. FlightAlone' /\ NotYetStarted' /\ OutcomeIsTrue'
  BY <1>1, <1>3, <1>4 DEF FlightInv, FlightAlone, NotYetStarted, OutcomeIsTrue, Alone
<1>9. StartedOnce' /\ JournalIsTrue'
  BY <1>1, <1>2, <1>6 DEF FlightInv, StartedOnce, JournalIsTrue, Only
<1> QED
  BY <1>1, <1>7, <1>8, <1>9 DEF FlightInv

LEMMA FlightCrash ==
  ASSUME FlightInv, NEW r \in Request, Crash(r)
  PROVE  FlightInv'
<1> DEFINE k == request[r].id
<1>1. TypeOK' /\ TypeOK /\ launch' = launch
  BY TypeNext DEF FlightInv, Next, Crash
<1>2. /\ Alone(r) /\ request'[r].step = "done" /\ k \in Id
      /\ \A m \in Id \ {k} : started'[m] = started[m]
      /\ started'[k] = started[k] \/ (request[r].step = "call" /\ started'[k] = started[k] + 1)
  BY <1>1, CrashRequest
<1>3. ~InFlight(r)' /\ \A s \in Request \ {r} : InFlight(s)' <=> InFlight(s)
  BY <1>2 DEF InFlight, Alone
<1>4. request[r].step = "call" =>
        /\ started[k] = 0 /\ launch[k].status = "starting"
        /\ \A s \in Request \ {r} : InFlight(s) => request[s].id # k
  BY DEF FlightInv, NotYetStarted, FlightOwned, FlightAlone, InFlight
<1>5. \A s \in Request : request[s].id \in Id
  BY <1>1 DEF TypeOK, Local
<1> HIDE DEF k
<1>6. FlightOwned' /\ FlightAlone'
  BY <1>1, <1>2, <1>3 DEF FlightInv, FlightOwned, FlightAlone, Alone
<1>7. NotYetStarted'
  BY <1>2, <1>4, <1>5 DEF FlightInv, NotYetStarted, Alone, InFlight
<1>8. OutcomeIsTrue'
  BY <1>2, <1>4, <1>5 DEF FlightInv, OutcomeIsTrue, Alone, InFlight
<1>9. StartedOnce' /\ JournalIsTrue'
  BY <1>1, <1>2, <1>4 DEF FlightInv, StartedOnce, JournalIsTrue
<1> QED
  BY <1>1, <1>6, <1>7, <1>8, <1>9 DEF FlightInv

LEMMA FlightNext == FlightInv /\ [Next]_vars => FlightInv'
<1> SUFFICES ASSUME FlightInv, [Next]_vars PROVE FlightInv'
  OBVIOUS
<1> USE DEF FlightInv
<1>0. TypeOK' /\ TypeOK
  BY TypeNext
<1>1. CASE UNCHANGED <<launch, request, started>>
  BY <1>0, <1>1 DEF FlightOwned, FlightAlone, NotYetStarted, OutcomeIsTrue, StartedOnce,
     JournalIsTrue, InFlight
<1>2. CASE Save \/ Tick \/ UNCHANGED vars
  BY <1>1, <1>2 DEF Save, Tick, vars
<1>3. ASSUME NEW k \in Id, Release(k) PROVE FlightInv'
  <2>1. UNCHANGED <<request, started>> /\ Only(k)
        /\ launch'[k] = [launch[k] EXCEPT !.released = TRUE] /\ launch[k] \in Launch
    BY <1>0, <1>3, ReleaseLaunch DEF Release, TypeOK
  <2>2. launch'[k].status = launch[k].status /\ launch'[k].created = launch[k].created
    BY <2>1 DEF Launch
  <2>3. \A m \in Id : launch'[m].status = launch[m].status
                      /\ launch'[m].created = launch[m].created
    BY <2>1, <2>2 DEF Only
  <2>4. \A r \in Request : request[r].id \in Id
    BY <1>0 DEF TypeOK, Local
  <2> QED
    BY <1>0, <2>1, <2>3, <2>4 DEF FlightOwned, FlightAlone, NotYetStarted, OutcomeIsTrue,
       StartedOnce, JournalIsTrue, InFlight
<1>4. ASSUME NEW r \in Request, Begin(r) \/ TurnAway(r) PROVE FlightInv'
  <2>1. Alone(r) /\ request'[r].step \in {"checks", "done"}
    BY <1>0, <1>4, BeginRequest, EndRequest DEF TurnAway, TypeOK
  <2>2. UNCHANGED <<launch, started>>
    BY <1>4 DEF Begin, TurnAway
  <2> QED
    BY <1>0, <2>1, <2>2 DEF FlightOwned, FlightAlone, NotYetStarted, OutcomeIsTrue,
       StartedOnce, JournalIsTrue, InFlight, Alone
<1>5. ASSUME NEW r \in Request, Reserve(r) \/ StartWorkflow(r) \/ Record(r) \/ Crash(r)
      PROVE  FlightInv'
  BY <1>0, <1>5, StartSteps, FlightReserve, FlightAnswer, FlightRecord, FlightCrash
<1> QED
  BY <1>2, <1>3, <1>4, <1>5 DEF Next

\* One press starts one workflow at most, however many requests repeat it and
\* whoever dies (workflow_buttons.py:306-345).
THEOREM OneStart == Spec => []StartedOnce
<1>1. FlightInv => StartedOnce
  BY DEF FlightInv
<1> QED
  BY <1>1, FlightInit, FlightNext, PTL DEF Spec

\* The journal never claims a start that did not happen, nor misses one
\* (workflow_buttons.py:331-365).
THEOREM Journal == Spec => []JournalIsTrue
<1>1. FlightInv => JournalIsTrue
  BY DEF FlightInv
<1> QED
  BY <1>1, FlightInit, FlightNext, PTL DEF Spec

-----------------------------------------------------------------------------
(* A launch is not released while its request may wait for the workflow. *)

\* No request is older than its limits allow.
InTime ==
  \A r \in Request :
    /\ request[r].step = "checks" => now <= request[r].began + CheckTime
    /\ InFlight(r) => now <= request[r].began + RequestTime

LEMMA InTimeNext == TypeOK /\ InTime /\ [Next]_vars => InTime'
<1> SUFFICES ASSUME TypeOK, InTime, [Next]_vars PROVE InTime'
  OBVIOUS
<1>0. /\ now \in Nat /\ \A r \in Request : request[r].began \in Nat
      /\ CheckTime \in Nat /\ RequestTime \in Nat /\ CheckTime <= RequestTime
  BY LaunchAssumption DEF TypeOK, Local
<1>1. CASE UNCHANGED <<request, now>>
  BY <1>1 DEF InTime, InFlight
<1>2. CASE Save \/ (\E k \in Id : Release(k)) \/ UNCHANGED vars
  BY <1>1, <1>2 DEF Save, Release, vars
<1>3. CASE Tick
  BY <1>0, <1>3 DEF Tick, Age, InTime, InFlight
<1>4. ASSUME NEW r \in Request, Begin(r) PROVE InTime'
  <2>1. /\ Alone(r) /\ request'[r].step = "checks" /\ request'[r].began = now /\ now' = now
    BY <1>4, BeginRequest DEF Begin
  <2> QED
    BY <1>0, <2>1 DEF InTime, InFlight, Alone
<1>5. ASSUME NEW r \in Request, Reserve(r) PROVE InTime'
  <2>1. /\ Alone(r) /\ request'[r].step = "call" /\ request[r].step = "checks"
        /\ request'[r].began = request[r].began
    BY <1>5, ReserveRequest
  <2>2. now' = now /\ now <= request[r].began + CheckTime
    BY <1>5, <2>1 DEF Reserve, InTime
  <2> QED
    BY <1>0, <2>1, <2>2 DEF InTime, InFlight, Alone
<1>6. ASSUME NEW r \in Request, Answer(r) PROVE InTime'
  <2>1. /\ Alone(r) /\ request'[r].step = "record" /\ InFlight(r)
        /\ request'[r].began = request[r].began
    BY <1>6, AnswerRequest DEF InFlight
  <2>2. now' = now
    BY <1>6 DEF Answer, StartWorkflow
  <2> QED
    BY <1>0, <2>1, <2>2 DEF InTime, InFlight, Alone
<1>7. ASSUME NEW r \in Request, TurnAway(r) \/ Record(r) \/ Crash(r) PROVE InTime'
  <2>1. Alone(r) /\ request'[r].step = "done" /\ now' = now
    BY <1>7, EndRequest DEF TurnAway, Record, Crash, TypeOK
  <2> QED
    BY <1>0, <2>1 DEF InTime, InFlight, Alone
<1> QED
  BY <1>0, <1>2, <1>3, <1>4, <1>5, <1>6, <1>7, StartSteps DEF Next

LEMMA InTimeInit == Init => InTime
<1> SUFFICES ASSUME Init PROVE InTime
  OBVIOUS
<1>1. PICK k \in Id, d \in Deal :
        request = [r \in Request |-> [step |-> "idle", id |-> k, deal |-> d, began |-> 0,
                                      block |-> FALSE, outcome |-> "none"]]
  BY DEF Init
<1> QED
  BY <1>1 DEF InTime, InFlight

LEMMA ReleasedNext ==
  ASSUME RequestTime < ReleaseAge
  PROVE  FlightInv /\ InTime /\ ReleasedIsNotInFlight /\ [Next]_vars => ReleasedIsNotInFlight'
<1> SUFFICES ASSUME FlightInv, InTime, ReleasedIsNotInFlight, [Next]_vars
             PROVE  ReleasedIsNotInFlight'
  OBVIOUS
<1>0. TypeOK /\ \A r \in Request : request[r].id \in Id /\ request[r].began \in Nat
  BY DEF FlightInv, TypeOK, Local
<1>1. CASE UNCHANGED <<launch, request>>
  BY <1>1 DEF ReleasedIsNotInFlight
<1>2. CASE Save \/ Tick \/ UNCHANGED vars
  BY <1>1, <1>2 DEF Save, Tick, vars
<1>3. ASSUME NEW k \in Id, Release(k) PROVE ReleasedIsNotInFlight'
  <2>1. \A r \in Request : InFlight(r) => request[r].id # k
    <3>1. launch[k].created <= now - ReleaseAge /\ launch[k].created \in Nat /\ now \in Nat
      BY <1>0, <1>3 DEF Release, Releasable, TypeOK, Launch
    <3>2. ASSUME NEW r \in Request, InFlight(r), request[r].id = k PROVE FALSE
      <4>1. launch[k].created = request[r].began /\ now <= request[r].began + RequestTime
        BY <3>2 DEF FlightInv, FlightOwned, InTime
      <4> QED
        BY <1>0, <3>1, <4>1, LaunchAssumption
    <3> QED
      BY <3>2
  <2>2. Only(k) /\ request' = request
    BY <1>0, <1>3, ReleaseLaunch DEF Release
  <2> QED
    BY <1>0, <2>1, <2>2 DEF ReleasedIsNotInFlight, InFlight, Only
<1>4. ASSUME NEW r \in Request, Begin(r) \/ TurnAway(r) \/ Crash(r)
      PROVE  ReleasedIsNotInFlight'
  <2>1. Alone(r) /\ request'[r].step \in {"checks", "done"}
    BY <1>0, <1>4, BeginRequest, EndRequest DEF TurnAway, Crash, TypeOK
  <2>2. launch' = launch
    BY <1>4 DEF Begin, TurnAway, Crash
  <2> QED
    BY <2>1, <2>2 DEF ReleasedIsNotInFlight, Alone
<1>5. ASSUME NEW r \in Request, Reserve(r) PROVE ReleasedIsNotInFlight'
  <2> DEFINE k == request[r].id
  <2>1. Alone(r) /\ request'[r].id = k /\ launch[k].status = "none" /\ k \in Id
    BY <1>0, <1>5, ReserveRequest DEF Unused
  <2>2. Only(k) /\ ~launch'[k].released
    <3>1. launch'[k] = [status |-> "starting", deal |-> request[r].deal,
                        created |-> request[r].began, released |-> FALSE] /\ Only(k)
      BY <1>0, <1>5, ReserveLaunch
    <3> HIDE DEF k
    <3> QED
      BY <3>1
  <2> HIDE DEF k
  <2> QED
    BY <1>0, <2>1, <2>2 DEF ReleasedIsNotInFlight, Alone, Only
<1>6. ASSUME NEW r \in Request, Answer(r) PROVE ReleasedIsNotInFlight'
  <2>1. /\ Alone(r) /\ request[r].step = "call" /\ request'[r].id = request[r].id
        /\ launch' = launch
    BY <1>0, <1>6, AnswerRequest DEF Answer, StartWorkflow
  <2> QED
    BY <2>1 DEF ReleasedIsNotInFlight, Alone
<1>7. ASSUME NEW r \in Request, Record(r) PROVE ReleasedIsNotInFlight'
  <2> DEFINE k == request[r].id
  <2>1. Alone(r) /\ request'[r].step = "done" /\ Only(k) /\ request[r].step = "record"
    BY <1>0, <1>7, EndRequest, RecordLaunch DEF Record, TypeOK
  <2>2. \A s \in Request \ {r} : InFlight(s) => request[s].id # k
    BY <2>1 DEF FlightInv, FlightAlone, InFlight
  <2> HIDE DEF k
  <2> QED
    BY <1>0, <2>1, <2>2 DEF ReleasedIsNotInFlight, Alone, Only, InFlight
<1> QED
  BY <1>0, <1>2, <1>3, <1>4, <1>5, <1>6, <1>7, StartSteps DEF Next

\* Five minutes are enough to keep a release away from a request in flight when
\* no request waits that long (workflow_buttons.py:410-412).
THEOREM ReleaseWaits ==
  ASSUME RequestTime < ReleaseAge PROVE Spec => []ReleasedIsNotInFlight
<1>1. Init => ReleasedIsNotInFlight
  <2> SUFFICES ASSUME Init PROVE ReleasedIsNotInFlight
    OBVIOUS
  <2>1. PICK k \in Id, d \in Deal :
          request = [r \in Request |-> [step |-> "idle", id |-> k, deal |-> d, began |-> 0,
                                        block |-> FALSE, outcome |-> "none"]]
    BY DEF Init
  <2> QED
    BY <2>1 DEF ReleasedIsNotInFlight
<1> DEFINE Inv == FlightInv /\ InTime /\ ReleasedIsNotInFlight
<1>2. Init => Inv
  BY <1>1, FlightInit, InTimeInit
<1>3. Inv /\ [Next]_vars => Inv'
  BY FlightNext, InTimeNext, ReleasedNext DEF FlightInv
<1>4. Inv => ReleasedIsNotInFlight
  OBVIOUS
<1> HIDE DEF Inv
<1> QED
  BY <1>2, <1>3, <1>4, PTL DEF Spec

-----------------------------------------------------------------------------
(* The open launch of a deal is its latest one. *)

OpenIsLatest ==
  \A j, k \in Id :
    j # k /\ Open(j) /\ launch[k].status # "none" /\ launch[k].deal = launch[j].deal =>
      launch[k].created < launch[j].created

\* Nothing unresolved, and nothing as recent, is there when a launch is reserved.
LEMMA ReserveIsLatest ==
  ASSUME \A c \in Cooldowns : CheckTime < c,
         TypeOK, InTime, OpenIsLatest, NEW r \in Request, Reserve(r)
  PROVE  \A k \in Of(request[r].deal) : ~Open(k) /\ launch[k].created < request[r].began
<1> DEFINE d == request[r].deal
           b == request[r].began
<1>1. /\ b \in Nat /\ now \in Nat
      /\ settings.cooldown \in Cooldowns /\ settings.cooldown \in Nat /\ CheckTime \in Nat
      /\ \A k \in Id : launch[k].created \in Nat
  <2>1. b \in Nat /\ now \in Nat /\ \A k \in Id : launch[k].created \in Nat
    <3>1. request[r] \in Local /\ now \in 0..MaxTime /\ \A k \in Id : launch[k] \in Launch
      BY DEF TypeOK
    <3> QED
      BY <3>1 DEF Local, Launch
  <2>2. settings.cooldown \in Cooldowns
    BY DEF TypeOK, Settings
  <2>3. settings.cooldown \in Nat /\ CheckTime \in Nat
    <3>1. Cooldowns \subseteq Nat /\ CheckTime \in Nat
      BY LaunchAssumption
    <3> QED
      BY <2>2, <3>1, Zenon
  <2> QED
    BY <2>1, <2>2, <2>3
<1>2. now <= b + CheckTime
  BY ReserveRequest DEF InTime
<1>3. Of(d) = {} \/ \E k \in MostRecent(d) : ~Blocks(k)
  BY DEF Reserve
<1> SUFFICES \A k \in Of(d) : ~Open(k) /\ launch[k].created < b
  OBVIOUS
<1> HIDE DEF d, b
<1>4. CASE Of(d) = {}
  BY <1>4
<1>5. ASSUME NEW m \in MostRecent(d), ~Blocks(m)
      PROVE  \A k \in Of(d) : ~Open(k) /\ launch[k].created < b
  <2>1. /\ m \in Of(d) /\ m \in Id /\ ~Open(m) /\ launch[m].created < b
        /\ \A k \in Of(d) : launch[k].created <= launch[m].created
    <3>1. ~Open(m) /\ ~(launch[m].created > now - settings.cooldown)
      BY <1>5 DEF Blocks
    <3>2. m \in Of(d) /\ m \in Id /\ \A k \in Of(d) : launch[k].created <= launch[m].created
      BY <1>5 DEF MostRecent, Of
    <3>3. CheckTime < settings.cooldown
      BY <1>1
    <3> QED
      BY <1>1, <1>2, <3>1, <3>2, <3>3
  <2>2. \A k \in Of(d) : k \in Id /\ launch[k].status # "none" /\ launch[k].deal = d
    BY DEF Of
  <2>3. ASSUME NEW k \in Of(d), Open(k) PROVE FALSE
    <3>1. launch[m].created < launch[k].created
      BY <2>1, <2>2, <2>3 DEF OpenIsLatest
    <3> QED
      BY <1>1, <2>1, <2>2, <3>1
  <2> QED
    BY <1>1, <2>1, <2>2, <2>3
<1> QED
  BY <1>3, <1>4, <1>5

LEMMA ReserveKeepsLatest ==
  ASSUME \A c \in Cooldowns : CheckTime < c,
         TypeOK, InTime, OpenIsLatest, NEW r \in Request, Reserve(r)
  PROVE  OpenIsLatest'
<1> DEFINE n == request[r].id
           d == request[r].deal
           b == request[r].began
<1>1. n \in Id /\ launch[n].status = "none"
  BY ReserveRequest DEF Unused
<1>2. /\ launch'[n] = [status |-> "starting", deal |-> d, created |-> b, released |-> FALSE]
      /\ Only(n)
  BY ReserveLaunch
<1>3. \A k \in Of(d) : ~Open(k) /\ launch[k].created < b
  BY ReserveIsLatest
<1> HIDE DEF n, d, b
<1>4. launch'[n].status = "starting" /\ launch'[n].deal = d /\ launch'[n].created = b
  BY <1>2
<1>5. \A k \in Id \ {n} : launch'[k] = launch[k] /\ (Open(k)' <=> Open(k))
  BY <1>2 DEF Only, Open
<1> SUFFICES ASSUME NEW j \in Id, NEW k \in Id, j # k, Open(j)', launch'[k].status # "none",
                    launch'[k].deal = launch'[j].deal
             PROVE  launch'[k].created < launch'[j].created
  BY DEF OpenIsLatest
<1>6. CASE j = n
  BY <1>3, <1>4, <1>5, <1>6 DEF Of
<1>7. CASE k = n
  <2>1. j \in Of(d) /\ Open(j)
    BY <1>4, <1>5, <1>7 DEF Of, Open
  <2> QED
    BY <1>3, <2>1
<1>8. CASE j # n /\ k # n
  BY <1>5, <1>8 DEF OpenIsLatest
<1> QED
  BY <1>6, <1>7, <1>8

LEMMA LatestNext ==
  ASSUME \A c \in Cooldowns : CheckTime < c
  PROVE  FlightInv /\ InTime /\ OpenIsLatest /\ [Next]_vars => OpenIsLatest'
<1> SUFFICES ASSUME FlightInv, InTime, OpenIsLatest, [Next]_vars PROVE OpenIsLatest'
  OBVIOUS
<1>0. TypeOK
  BY DEF FlightInv
\* A step that only closes launches.
<1>1. ASSUME \A k \in Id :
               /\ launch'[k].created = launch[k].created /\ launch'[k].deal = launch[k].deal
               /\ launch'[k].status # "none" => launch[k].status # "none"
               /\ Open(k)' => Open(k)
      PROVE  OpenIsLatest'
  BY <1>1 DEF OpenIsLatest
<1>2. CASE launch' = launch
  BY <1>1, <1>2 DEF Open
<1>3. CASE Save \/ Tick \/ UNCHANGED vars
  BY <1>2, <1>3 DEF Save, Tick, vars
<1>4. ASSUME NEW k \in Id, Release(k) PROVE OpenIsLatest'
  <2>1. /\ Only(k) /\ launch'[k] = [launch[k] EXCEPT !.released = TRUE] /\ launch[k] \in Launch
    BY <1>0, <1>4, ReleaseLaunch DEF TypeOK
  <2> QED
    BY <1>1, <2>1 DEF Only, Open, Launch
<1>5. ASSUME NEW r \in Request, Begin(r) \/ TurnAway(r) \/ StartWorkflow(r) \/ Crash(r)
      PROVE  OpenIsLatest'
  BY <1>2, <1>5 DEF Begin, TurnAway, StartWorkflow, Crash
<1>6. ASSUME NEW r \in Request, Reserve(r) PROVE OpenIsLatest'
  BY <1>0, <1>6, ReserveKeepsLatest
<1>7. ASSUME NEW r \in Request, Record(r) PROVE OpenIsLatest'
  <2> DEFINE n == request[r].id
  <2>1. /\ Only(n) /\ n \in Id /\ launch'[n] = [launch[n] EXCEPT !.status = request[r].outcome]
        /\ launch[n] \in Launch /\ request[r].step = "record"
    BY <1>0, <1>7, RecordLaunch DEF TypeOK
  <2>2. launch[n].status = "starting"
    BY <2>1 DEF FlightInv, FlightOwned, InFlight
  <2> HIDE DEF n
  <2>3. /\ launch'[n].created = launch[n].created /\ launch'[n].deal = launch[n].deal
        /\ launch'[n].released = launch[n].released
    BY <2>1 DEF Launch
  <2> QED
    BY <1>1, <2>1, <2>2, <2>3 DEF Only, Open
<1> QED
  BY <1>3, <1>4, <1>5, <1>6, <1>7 DEF Next

\* An unresolved launch forbids the next one of its deal, later requests of an
\* earlier transaction included, when the checks take less than the pause
\* (workflow_buttons.py:319-330).
THEOREM OpenAlone ==
  ASSUME \A c \in Cooldowns : CheckTime < c PROVE Spec => []AtMostOneOpen
<1>1. Init => OpenIsLatest
  <2> SUFFICES ASSUME Init PROVE OpenIsLatest
    OBVIOUS
  <2>1. PICK d \in Deal :
          launch = [k \in Id |-> [status |-> "none", deal |-> d, created |-> 0, released |-> FALSE]]
    BY DEF Init
  <2> QED
    BY <2>1 DEF OpenIsLatest
<1> DEFINE Inv == FlightInv /\ InTime /\ OpenIsLatest
<1>2. Init => Inv
  BY <1>1, FlightInit, InTimeInit
<1>3. Inv /\ [Next]_vars => Inv'
  BY FlightNext, InTimeNext, LatestNext DEF FlightInv
<1>4. Inv => AtMostOneOpen
  <2> SUFFICES ASSUME Inv, NEW k \in Id, NEW m \in Id, k # m,
                      launch[k].deal = launch[m].deal, Open(k), Open(m)
               PROVE  FALSE
    BY DEF AtMostOneOpen
  <2>1. launch[k].created < launch[m].created /\ launch[m].created < launch[k].created
    BY DEF OpenIsLatest, Open
  <2>2. launch[k].created \in Nat /\ launch[m].created \in Nat
    BY DEF FlightInv, TypeOK, Launch
  <2> QED
    BY <2>1, <2>2
<1> HIDE DEF Inv
<1> QED
  BY <1>2, <1>3, <1>4, PTL DEF Spec

-----------------------------------------------------------------------------
(* Every deal keeps the promise of DealGate. *)

\* The launches of a deal that are unresolved, and the workflows started for it, as
\* Gate maps them.
Inside(d) == {k \in Of(d) : Open(k)}
Starts(d) == [k \in Id |-> IF launch[k].deal = d THEN started[k] ELSE 0]

GateInv == FlightInv /\ InTime /\ OpenIsLatest /\ ReleasedIsNotInFlight

LEMMA GateInvInit == Init => GateInv
<1> SUFFICES ASSUME Init PROVE GateInv
  OBVIOUS
<1>1. PICK d \in Deal :
        launch = [k \in Id |-> [status |-> "none", deal |-> d, created |-> 0, released |-> FALSE]]
  BY DEF Init
<1>2. PICK k \in Id, e \in Deal :
        request = [r \in Request |-> [step |-> "idle", id |-> k, deal |-> e, began |-> 0,
                                      block |-> FALSE, outcome |-> "none"]]
  BY DEF Init
<1> QED
  BY <1>1, <1>2, FlightInit, InTimeInit DEF GateInv, OpenIsLatest, ReleasedIsNotInFlight

LEMMA GateInvNext ==
  ASSUME RequestTime < ReleaseAge, \A c \in Cooldowns : CheckTime < c
  PROVE  GateInv /\ [Next]_vars => GateInv'
<1>1. FlightInv => TypeOK
  BY DEF FlightInv
<1> QED
  BY <1>1, FlightNext, InTimeNext, LatestNext, ReleasedNext DEF GateInv

\* One unresolved launch of a deal at most.
LEMMA InsideIsOne ==
  ASSUME GateInv, NEW d \in Deal, NEW j \in Inside(d), NEW k \in Inside(d)
  PROVE  j = k
<1>1. /\ j \in Id /\ k \in Id /\ launch[j].deal = d /\ launch[k].deal = d
      /\ Open(j) /\ Open(k) /\ launch[j].status # "none" /\ launch[k].status # "none"
  BY DEF Inside, Of
<1>2. launch[j].created \in Nat /\ launch[k].created \in Nat
  BY <1>1 DEF GateInv, FlightInv, TypeOK, Launch
<1>3. j # k => launch[k].created < launch[j].created /\ launch[j].created < launch[k].created
  BY <1>1 DEF GateInv, OpenIsLatest
<1> QED
  BY <1>2, <1>3

\* A step that at most resolves a launch.
LEMMA GateLeave ==
  ASSUME GateInv, NEW d \in Deal, started' = started,
         \A k \in Id :
           /\ launch'[k].deal = launch[k].deal
           /\ launch'[k].status = "none" <=> launch[k].status = "none"
           /\ Open(k)' => Open(k)
  PROVE  [Gate(d)!GateNext]_(Gate(d)!gate)
<1>1. Of(d)' = Of(d) /\ Starts(d)' = Starts(d)
  BY DEF Of, Starts
<1>2. Inside(d)' \subseteq Inside(d)
  BY <1>1 DEF Inside, Of
<1>3. Inside(d)' = Inside(d) \/ (Inside(d)' = {} /\ Inside(d) # {})
  BY <1>2, InsideIsOne
<1> QED
  BY <1>1, <1>3 DEF Gate!GateNext, Gate!Leave, Gate!gate, Inside, Starts

\* A workflow is started, or may have been, by the press whose launch is in flight.
LEMMA GateStart ==
  ASSUME GateInv, NEW d \in Deal, NEW r \in Request, Answer(r) \/ Crash(r)
  PROVE  [Gate(d)!GateNext]_(Gate(d)!gate)
<1>0. TypeOK
  BY DEF GateInv, FlightInv
<1> PICK k \in Id : k = request[r].id
  BY <1>0 DEF TypeOK, Local
<1>1. /\ launch' = launch
      /\ \A m \in Id \ {k} : started'[m] = started[m]
      /\ started'[k] = started[k] \/ (request[r].step = "call" /\ started'[k] = started[k] + 1)
  <2>1. CASE Answer(r)
    BY <1>0, <2>1, AnswerRequest DEF Answer, StartWorkflow
  <2>2. CASE Crash(r)
    BY <1>0, <2>2, CrashRequest DEF Crash
  <2> QED
    BY <2>1, <2>2
<1>2. request[r].step = "call" =>
        started[k] = 0 /\ launch[k].status = "starting" /\ ~launch[k].released
  BY DEF GateInv, FlightInv, NotYetStarted, FlightOwned, InFlight, ReleasedIsNotInFlight
<1>3. Of(d)' = Of(d) /\ Inside(d)' = Inside(d)
  BY <1>1 DEF Of, Inside, Open
<1>4. CASE Starts(d)' = Starts(d)
  BY <1>3, <1>4 DEF Gate!gate, Inside, Starts
<1>5. CASE started'[k] = started[k] \/ launch[k].deal # d
  <2>1. Starts(d)' = Starts(d)
    BY <1>1, <1>5 DEF Starts
  <2> QED
    BY <1>4, <2>1
<1>6. CASE request[r].step = "call" /\ started'[k] = started[k] + 1 /\ launch[k].deal = d
  <2>1. k \in Inside(d) /\ Starts(d)[k] = 0
    BY <1>1, <1>2, <1>6 DEF Inside, Of, Open, Starts
  <2>2. started'[k] = 1 /\ launch[k].deal = d
    BY <1>2, <1>6
  <2>3. Starts(d)' = [Starts(d) EXCEPT ![k] = 1]
    BY <1>1, <2>2 DEF Starts
  <2>4. Gate(d)!Start(k)
    BY <1>3, <2>1, <2>3 DEF Gate!Start, Inside, Starts
  <2> QED
    BY <2>4 DEF Gate!GateNext
<1> QED
  BY <1>1, <1>5, <1>6

LEMMA GateEnter ==
  ASSUME \A c \in Cooldowns : CheckTime < c,
         GateInv, NEW d \in Deal, NEW r \in Request, Reserve(r), OpenIsLatest'
  PROVE  [Gate(d)!GateNext]_(Gate(d)!gate)
<1>0. TypeOK /\ InTime /\ OpenIsLatest
  BY DEF GateInv, FlightInv
<1> PICK n \in Id, e \in Deal : n = request[r].id /\ e = request[r].deal
  BY <1>0 DEF TypeOK, Local
<1>1. launch[n].status = "none" /\ started' = started
  BY <1>0, ReserveRequest DEF Reserve, Unused
<1>2. /\ launch'[n] = [status |-> "starting", deal |-> e, created |-> request[r].began,
                       released |-> FALSE]
      /\ Only(n)
  BY <1>0, ReserveLaunch
<1>3. started[n] = 0
  BY <1>0, <1>1 DEF GateInv, FlightInv, JournalIsTrue, TypeOK
<1>4. \A k \in Of(e) : ~Open(k)
  BY <1>0, ReserveIsLatest
<1>5. launch'[n].status = "starting" /\ launch'[n].deal = e /\ ~launch'[n].released
  BY <1>2
<1>6. \A k \in Id \ {n} : launch'[k] = launch[k] /\ (Open(k)' <=> Open(k))
  BY <1>2 DEF Only, Open
<1>7. Starts(d)' = Starts(d)
  BY <1>1, <1>3, <1>6 DEF Starts
<1>8. CASE d = e
  <2>1. n \notin Of(d) /\ Of(d)' = Of(d) \cup {n}
    BY <1>1, <1>5, <1>6, <1>8 DEF Of
  <2>2. Open(n)'
    BY <1>5 DEF Open
  <2>3. Inside(d) = {} /\ Inside(d)' = {n}
    BY <1>4, <1>6, <1>8, <2>1, <2>2 DEF Inside, Of
  <2>4. Gate(d)!Enter(n)
    BY <1>7, <2>1, <2>3 DEF Gate!Enter, Inside, Starts
  <2> QED
    BY <2>4 DEF Gate!GateNext
<1>9. CASE d # e
  <2>1. Of(d)' = Of(d)
    BY <1>1, <1>5, <1>6, <1>9 DEF Of
  <2>2. Inside(d)' = Inside(d)
    BY <1>1, <1>6, <2>1 DEF Inside, Of
  <2> QED
    BY <1>7, <2>1, <2>2 DEF Gate!gate, Inside, Starts
<1> QED
  BY <1>8, <1>9

LEMMA GateStep ==
  ASSUME \A c \in Cooldowns : CheckTime < c, GateInv, [Next]_vars, GateInv', NEW d \in Deal
  PROVE  [Gate(d)!GateNext]_(Gate(d)!gate)
<1>0. TypeOK
  BY DEF GateInv, FlightInv
<1>1. CASE UNCHANGED <<launch, started>>
  BY <1>1, GateLeave DEF Open
<1>2. CASE Save \/ Tick \/ UNCHANGED vars
  BY <1>1, <1>2 DEF Save, Tick, vars
<1>3. ASSUME NEW k \in Id, Release(k) PROVE [Gate(d)!GateNext]_(Gate(d)!gate)
  <2>1. /\ Only(k) /\ launch'[k] = [launch[k] EXCEPT !.released = TRUE] /\ launch[k] \in Launch
        /\ started' = started
    BY <1>0, <1>3, ReleaseLaunch DEF TypeOK, Release
  <2>2. /\ launch'[k].deal = launch[k].deal /\ launch'[k].status = launch[k].status
        /\ launch'[k].released
    BY <2>1 DEF Launch
  <2> QED
    BY <2>1, <2>2, GateLeave DEF Only, Open
<1>4. ASSUME NEW r \in Request, Begin(r) \/ TurnAway(r)
      PROVE  [Gate(d)!GateNext]_(Gate(d)!gate)
  BY <1>1, <1>4 DEF Begin, TurnAway
<1>5. ASSUME NEW r \in Request, Reserve(r) PROVE [Gate(d)!GateNext]_(Gate(d)!gate)
  BY <1>5, GateEnter DEF GateInv
<1>6. ASSUME NEW r \in Request, StartWorkflow(r) \/ Crash(r)
      PROVE  [Gate(d)!GateNext]_(Gate(d)!gate)
  BY <1>0, <1>6, StartSteps, GateStart
<1>7. ASSUME NEW r \in Request, Record(r) PROVE [Gate(d)!GateNext]_(Gate(d)!gate)
  <2> DEFINE n == request[r].id
  <2>1. /\ Only(n) /\ n \in Id /\ launch'[n] = [launch[n] EXCEPT !.status = request[r].outcome]
        /\ launch[n] \in Launch /\ request[r].step = "record"
        /\ launch'[n].status = request[r].outcome /\ started' = started
    BY <1>0, <1>7, RecordLaunch DEF TypeOK, Record
  <2>2. launch[n].status = "starting" /\ request[r].outcome # "none"
    BY <2>1 DEF GateInv, FlightInv, FlightOwned, InFlight, OutcomeIsTrue
  <2> HIDE DEF n
  <2>3. launch'[n].deal = launch[n].deal /\ launch'[n].released = launch[n].released
    BY <2>1 DEF Launch
  <2> QED
    BY <2>1, <2>2, <2>3, GateLeave DEF Only, Open
<1> QED
  BY <1>2, <1>3, <1>4, <1>5, <1>6, <1>7 DEF Next

\* For every deal the button is a gate: under the two timing conditions of ReleaseWaits
\* and OpenAlone, no workflow is started except by the one press that is inside.
THEOREM GateIsKept ==
  ASSUME RequestTime < ReleaseAge, \A c \in Cooldowns : CheckTime < c
  PROVE  Spec => KeepsGate
<1>1. ASSUME Init, NEW d \in Deal PROVE Gate(d)!GateInit
  <2>1. \A k \in Id : launch[k].status = "none" /\ started[k] = 0
    BY <1>1 DEF Init
  <2> QED
    BY <2>1 DEF Gate!GateInit, Of
<1>2. GateInv /\ [Next]_vars => GateInv'
  BY GateInvNext
<1>3. GateInv /\ [Next]_vars /\ GateInv' =>
        [\A d \in Deal : [Gate(d)!GateNext]_(Gate(d)!gate)]_vars
  BY GateStep
<1>4. Init => \A d \in Deal : Gate(d)!GateInit
  BY <1>1
<1> QED
  BY <1>2, <1>3, <1>4, GateInvInit, PTL DEF Spec, KeepsGate
=============================================================================
