------------------------- MODULE RegistrationProofs -------------------------
(***************************************************************************)
(* Theorems about registration for any number of runs, robots and          *)
(* duplicate activities.                                                   *)
(***************************************************************************)
EXTENDS Registration, TLAPS

-----------------------------------------------------------------------------
(* Types. *)

LEMMA RegistryType == Registry \subseteq Nat /\ 1..Activities \subseteq Nat /\ 1 \in Nat
BY RegistrationAssumption DEF Registry

\* A step of one run leaves the others alone.
Alone(r) == \A s \in Run \ {r} : run'[s] = run[s]

LEMMA GoRun ==
  ASSUME run \in [Run -> Local], NEW r \in Run, NEW step \in Steps,
         NEW seen \in SUBSET Nat, NEW todo \in SUBSET Nat, Go(r, step, seen, todo)
  PROVE  /\ run' \in [Run -> Local] /\ Alone(r)
         /\ run'[r].step = step /\ run'[r].seen = seen
         /\ run'[r].todo = todo /\ run'[r].blind = run[r].blind
<1>1. run' = [run EXCEPT ![r] = [run[r] EXCEPT !.step = step, !.seen = seen, !.todo = todo]]
  BY DEF Go
<1>2. run[r] \in Local
  OBVIOUS
<1> QED
  BY <1>1, <1>2 DEF Local, Alone

LEMMA ReadRun ==
  ASSUME run \in [Run -> Local], NEW r \in Run, NEW step \in Steps,
         NEW listed \in SUBSET Nat, NEW todo \in SUBSET Nat, NEW blind \in BOOLEAN,
         Read(r, step, listed, todo, blind)
  PROVE  /\ run' \in [Run -> Local] /\ Alone(r)
         /\ run'[r].step = step /\ run'[r].seen = listed /\ run'[r].todo = todo
         /\ run'[r].blind = (run[r].blind \/ blind)
<1>1. run[r].blind \in BOOLEAN
  BY DEF Local
<1> QED
  BY <1>1 DEF Read, Local, Alone

-----------------------------------------------------------------------------
(* What is behind a run is done, and stays done. *)

AfterField == {"list robots", "write robots", "list activities", "delete activities",
               "list events", "bind event", "completed"}

AfterRobots == {"list activities", "delete activities", "list events", "bind event", "completed"}

AfterActivities == {"list events", "bind event", "completed"}

\* What a run at this step, with this left to do, has behind it in a portal with
\* field type f, robots R, activities A and binding b.
Done(step, todo, blind, f, R, A, b) ==
  /\ step \in AfterField /\ Buttons => f
  /\ step = "write robots" => todo \subseteq Registry /\ Registry \ todo \subseteq R
  /\ step \in AfterRobots => Registry \subseteq R
  /\ step = "delete activities" /\ ~blind => A \subseteq todo
  /\ step \in AfterActivities /\ ~blind => A = {}
  /\ step = "completed" => b

Now(step, todo, blind) == Done(step, todo, blind, fieldType, robots, activities, bound)

Then(step, todo, blind) == Done(step, todo, blind, fieldType', robots', activities', bound')

Progress == \A r \in Run : Now(run[r].step, run[r].todo, run[r].blind)

\* Robots and bindings are only added, duplicates only deleted.
Monotone ==
  /\ fieldType => fieldType'
  /\ robots \subseteq robots'
  /\ activities' \subseteq activities
  /\ bound => bound'

LEMMA DoneStays ==
  ASSUME NEW step, NEW todo, NEW blind, Monotone, Now(step, todo, blind)
  PROVE  Then(step, todo, blind)
BY DEF Now, Then, Done, Monotone
\* A run that leaves the others alone, and has done what is behind it.
LEMMA OneRun ==
  ASSUME TypeOK, Progress, NEW r \in Run, Alone(r), Monotone,
         Then(run'[r].step, run'[r].todo, run'[r].blind)
  PROVE  Progress'
<1> SUFFICES ASSUME NEW s \in Run PROVE Then(run'[s].step, run'[s].todo, run'[s].blind)
  BY DEF Progress, Now, Then
<1>1. CASE s = r
  BY <1>1
<1>2. CASE s # r
  <2>1. Now(run[s].step, run[s].todo, run[s].blind)
    BY DEF Progress
  <2>2. run'[s] = run[s]
    BY <1>2 DEF Alone
  <2> QED
    BY <2>1, <2>2 DEF Now, Then, Done, Monotone
<1> QED
  BY <1>1, <1>2

Stopped == {"failed", "overtaken"}

LEMMA StoppedDone == \A step \in Stopped : \A todo, blind : Then(step, todo, blind)
BY DEF Stopped, Now, Then, Done, AfterField, AfterRobots, AfterActivities

\* A run that fails or is refused, and changes the portal for the better at most.
LEMMA RunStops ==
  ASSUME TypeOK, Progress, NEW r \in Run, Monotone,
         Go(r, "failed", {}, {}) \/ Refused(r)
  PROVE  run' \in [Run -> Local] /\ Progress'
<1>1. PICK step \in Stopped : Go(r, step, {}, {})
  BY DEF Refused, Stopped
<1>2. step \in Steps
  BY DEF Stopped, Steps, Ended
<1>3. /\ run' \in [Run -> Local] /\ Alone(r) /\ run'[r].step = step
  BY <1>1, <1>2, GoRun DEF TypeOK
<1> QED
  BY <1>3, OneRun, StoppedDone

\* A run that goes on, and has done what is behind it.
LEMMA RunGoes ==
  ASSUME TypeOK, Progress, NEW r \in Run, Monotone, NEW step \in Steps,
         NEW seen \in SUBSET Nat, NEW todo \in SUBSET Nat, Go(r, step, seen, todo),
         Then(step, todo, run[r].blind)
  PROVE  run' \in [Run -> Local] /\ Progress'
<1>1. /\ run' \in [Run -> Local] /\ Alone(r)
      /\ run'[r].step = step /\ run'[r].todo = todo /\ run'[r].blind = run[r].blind
  BY GoRun DEF TypeOK
<1>2. Then(run'[r].step, run'[r].todo, run'[r].blind)
  BY <1>1 DEF Now, Then, Done
<1> QED
  BY <1>1, <1>2, OneRun

LEMMA RunReads ==
  ASSUME TypeOK, Progress, NEW r \in Run, UNCHANGED portal, NEW step \in Steps,
         NEW listed \in SUBSET Nat, NEW todo \in SUBSET Nat, NEW blind \in BOOLEAN,
         Read(r, step, listed, todo, blind),
         Now(step, todo, run[r].blind \/ blind)
  PROVE  run' \in [Run -> Local] /\ Progress'
<1>1. /\ run' \in [Run -> Local] /\ Alone(r)
      /\ run'[r].step = step /\ run'[r].seen = listed /\ run'[r].todo = todo
      /\ run'[r].blind = (run[r].blind \/ blind)
  <2>1. run \in [Run -> Local]
    BY DEF TypeOK
  <2> QED
    BY <2>1, ReadRun
<1>2. Monotone
  BY DEF Monotone, portal
<1>3. Then(run'[r].step, run'[r].todo, run'[r].blind)
  BY <1>1 DEF Now, Then, portal
<1> QED
  BY <1>1, <1>2, <1>3, OneRun

LEMMA InitProgress == Init => TypeOK /\ Progress
<1> SUFFICES ASSUME Init PROVE TypeOK /\ Progress
  OBVIOUS
<1>1. run = [r \in Run |-> [step |-> "idle", seen |-> {}, todo |-> {}, blind |-> FALSE]]
  BY DEF Init
<1>2. TypeOK
  BY <1>1 DEF Init, TypeOK, Local, Steps, Ended
<1>3. Progress
  BY <1>1 DEF Progress, Now, Then, Done, AfterField, AfterRobots, AfterActivities
<1> QED
  BY <1>2, <1>3

LEMMA NextProgress == TypeOK /\ Progress /\ [Next]_vars => TypeOK' /\ Progress'
<1> SUFFICES ASSUME TypeOK, Progress, [Next]_vars PROVE TypeOK' /\ Progress'
  OBVIOUS
<1> USE RegistryType
\* A step that only looks at the portal.
<1>p. ASSUME UNCHANGED portal, run' \in [Run -> Local] PROVE TypeOK' /\ Monotone
  BY <1>p DEF TypeOK, portal, Monotone
<1>m. ASSUME UNCHANGED portal PROVE Monotone
  BY <1>m DEF portal, Monotone
<1>s. {} \in SUBSET Nat /\ \A step \in Steps : step \in Steps
  OBVIOUS
<1>b. ASSUME NEW r \in Run
      PROVE  /\ Now(run[r].step, run[r].todo, run[r].blind)
             /\ run[r].todo \in SUBSET Nat /\ run[r].seen \in SUBSET Nat
             /\ run[r].blind \in BOOLEAN
  <2>1. run[r] \in Local
    BY <1>b DEF TypeOK
  <2> QED
    BY <1>b, <2>1 DEF Progress, Local
<1> USE DEF At
<1>1. ASSUME NEW r \in Run, Begin(r) PROVE TypeOK' /\ Progress'
  <2>1. PICK step \in {"list field types", "list robots"} :
          Go(r, step, {}, {}) /\ (step = "list robots" => ~Buttons) /\ UNCHANGED portal
    BY <1>1, RegistrationAssumption DEF Begin
  <2>2. step \in Steps /\ Then(step, {}, run[r].blind)
    BY <2>1 DEF Steps, Now, Then, Done, AfterField, AfterRobots, AfterActivities
  <2> QED
    BY <2>1, <2>2, <1>p, <1>m, <1>s, RunGoes
<1>2. ASSUME NEW r \in Run, Fail(r) PROVE TypeOK' /\ Progress'
  BY <1>2, <1>p, <1>m, RunStops DEF Fail
<1>3. ASSUME NEW r \in Run, ListFieldTypes(r) PROVE TypeOK' /\ Progress'
  <2>1. "write field type" \in Steps /\ Then("write field type", {}, run[r].blind)
        /\ (IF fieldType THEN {1} ELSE {}) \in SUBSET Nat
    BY DEF Steps, Now, Then, Done, AfterField, AfterRobots, AfterActivities
  <2> QED
    BY <1>3, <2>1, <1>p, <1>m, <1>s, RunGoes DEF ListFieldTypes
<1>4. ASSUME NEW r \in Run, WriteFieldType(r) PROVE TypeOK' /\ Progress'
  <2>1. Monotone /\ fieldType' \in BOOLEAN /\ UNCHANGED <<robots, activities, bound>>
    BY <1>4 DEF WriteFieldType, Monotone, TypeOK
  <2>2. CASE Refused(r) \/ Go(r, "failed", {}, {})
    BY <2>1, <2>2, RunStops DEF TypeOK
  <2>3. CASE Go(r, "list robots", {}, {}) /\ fieldType' = TRUE
    <3>1. "list robots" \in Steps /\ Then("list robots", {}, run[r].blind)
      BY <2>3 DEF Steps, Now, Then, Done, AfterField, AfterRobots, AfterActivities
    <3> QED
      BY <2>1, <2>3, <3>1, <1>s, RunGoes DEF TypeOK
  <2> QED
    BY <1>4, <2>2, <2>3 DEF WriteFieldType, Answered
<1>5. ASSUME NEW r \in Run, ListRobots(r) PROVE TypeOK' /\ Progress'
  <2>1. /\ "write robots" \in Steps /\ Registry \in SUBSET Nat /\ robots \in SUBSET Nat
        /\ \A b \in BOOLEAN : Now("write robots", Registry, run[r].blind \/ b)
    <3>1. Buttons => fieldType
      BY <1>5, <1>b DEF ListRobots, Now, Then, Done, AfterField
    <3> QED
      BY <3>1 DEF Steps, Now, Then, Done, AfterField, AfterRobots, AfterActivities, TypeOK, Registry
  <2>2. UNCHANGED portal
    BY <1>5 DEF ListRobots
  <2>3. CASE Read(r, "write robots", robots, Registry, FALSE)
    BY <2>1, <2>2, <2>3, <1>p, RunReads
  <2>4. CASE Read(r, "write robots", {}, Registry, TRUE)
    BY <2>1, <2>2, <2>4, <1>p, <1>s, RunReads
  <2> QED
    BY <1>5, <2>3, <2>4 DEF ListRobots
<1>6. ASSUME NEW r \in Run, WriteRobot(r) PROVE TypeOK' /\ Progress'
  <2>1. UNCHANGED <<fieldType, activities, bound>> /\ run[r].step = "write robots"
    BY <1>6 DEF WriteRobot
  <2>2. PICK n \in First(run[r].todo) :
          IF n \notin run[r].seen /\ n \in robots
          THEN Refused(r) /\ UNCHANGED robots
          ELSE /\ Answered(r, "write robots", run[r].seen, run[r].todo \ {n})
               /\ robots' = robots \cup {n}
    BY <1>6 DEF WriteRobot
  <2>3. /\ n \in run[r].todo /\ n \in Registry
        /\ (Buttons => fieldType) /\ run[r].todo \subseteq Registry
        /\ Registry \ run[r].todo \subseteq robots
    BY <1>b, <2>1 DEF First, Now, Done, AfterField
  <2>4. Monotone /\ (robots' \subseteq 1..Robots)
    BY <2>1, <2>2, <2>3 DEF Monotone, TypeOK, Registry
  <2>5. CASE Refused(r) /\ UNCHANGED robots
    BY <2>1, <2>4, <2>5, RunStops DEF TypeOK
  <2>6. CASE Go(r, "failed", {}, {}) /\ robots' = robots \cup {n}
    BY <2>1, <2>4, <2>6, RunStops DEF TypeOK
  <2>7. CASE Go(r, "write robots", run[r].seen, run[r].todo \ {n}) /\ robots' = robots \cup {n}
    <3>1. /\ (Buttons => fieldType') /\ run[r].todo \ {n} \subseteq Registry
          /\ Registry \ (run[r].todo \ {n}) \subseteq robots'
      BY <2>1, <2>3, <2>7
    <3>2. Then("write robots", run[r].todo \ {n}, run[r].blind)
      BY <3>1 DEF Then, Done, AfterField, AfterRobots, AfterActivities
    <3>3. run[r].todo \ {n} \in SUBSET Nat /\ run[r].seen \in SUBSET Nat
      BY <1>b
    <3>4. "write robots" \in Steps
      BY DEF Steps
    <3>5. run' \in [Run -> Local] /\ Progress'
      BY <2>4, <2>7, <3>2, <3>3, <3>4, RunGoes
    <3> QED
      BY <2>1, <2>4, <3>5 DEF TypeOK
  <2> QED
    BY <2>2, <2>5, <2>6, <2>7 DEF Answered
<1>7. ASSUME NEW r \in Run, RobotsDone(r) PROVE TypeOK' /\ Progress'
  <2>1. /\ run[r].step = "write robots" /\ run[r].todo = {}
        /\ Go(r, "list activities", {}, {}) /\ UNCHANGED portal
    BY <1>7 DEF RobotsDone, Written
  <2>2. (Buttons => fieldType) /\ Registry \subseteq robots
    BY <1>b, <2>1 DEF Now, Done, AfterField
  <2>3. Then("list activities", {}, run[r].blind)
    BY <2>1, <2>2 DEF Then, Done, AfterField, AfterRobots, AfterActivities, portal
  <2>4. "list activities" \in Steps
    BY DEF Steps
  <2> QED
    BY <2>1, <2>3, <2>4, <1>p, <1>m, <1>s, RunGoes
<1>8. ASSUME NEW r \in Run, ListActivities(r) PROVE TypeOK' /\ Progress'
  <2>1. run[r].step = "list activities" /\ UNCHANGED portal
    BY <1>8 DEF ListActivities
  <2>2. (Buttons => fieldType) /\ Registry \subseteq robots
    BY <1>b, <2>1 DEF Now, Done, AfterField, AfterRobots
  <2>3. /\ "delete activities" \in Steps /\ activities \in SUBSET Nat
        /\ Now("delete activities", activities, run[r].blind \/ FALSE)
        /\ Now("delete activities", {}, run[r].blind \/ TRUE)
    BY <2>2 DEF Steps, TypeOK, Now, Done, AfterField, AfterRobots, AfterActivities
  <2>4. CASE Read(r, "delete activities", activities, activities, FALSE)
    BY <2>1, <2>3, <2>4, <1>p, RunReads
  <2>5. CASE Read(r, "delete activities", {}, {}, TRUE)
    BY <2>1, <2>3, <2>5, <1>p, <1>s, RunReads
  <2> QED
    BY <1>8, <2>4, <2>5 DEF ListActivities
<1>9. ASSUME NEW r \in Run, DeleteActivity(r) PROVE TypeOK' /\ Progress'
  <2>1. UNCHANGED <<fieldType, robots, bound>> /\ run[r].step = "delete activities"
    BY <1>9 DEF DeleteActivity
  <2>2. PICK n \in First(run[r].todo) :
          IF n \notin activities
          THEN Refused(r) /\ UNCHANGED activities
          ELSE /\ Answered(r, "delete activities", run[r].seen, run[r].todo \ {n})
               /\ activities' = activities \ {n}
    BY <1>9 DEF DeleteActivity
  <2>3. /\ (Buttons => fieldType) /\ Registry \subseteq robots
        /\ ~run[r].blind => activities \subseteq run[r].todo
    BY <1>b, <2>1 DEF Now, Done, AfterField, AfterRobots
  <2>4. Monotone /\ activities' \subseteq 1..Activities
    BY <2>1, <2>2 DEF Monotone, TypeOK
  <2>5. CASE Refused(r) \/ Go(r, "failed", {}, {})
    BY <2>1, <2>4, <2>5, RunStops DEF TypeOK
  <2>6. CASE /\ Go(r, "delete activities", run[r].seen, run[r].todo \ {n})
             /\ activities' = activities \ {n}
    <3>1. ~run[r].blind => activities' \subseteq run[r].todo \ {n}
      BY <2>3, <2>6
    <3>2. Then("delete activities", run[r].todo \ {n}, run[r].blind)
      BY <2>1, <2>3, <3>1 DEF Then, Done, AfterField, AfterRobots, AfterActivities
    <3>3. run[r].todo \ {n} \in SUBSET Nat /\ run[r].seen \in SUBSET Nat
      BY <1>b
    <3>4. "delete activities" \in Steps
      BY DEF Steps
    <3>5. run' \in [Run -> Local] /\ Progress'
      BY <2>4, <2>6, <3>2, <3>3, <3>4, RunGoes
    <3> QED
      BY <2>1, <2>4, <3>5 DEF TypeOK
  <2> QED
    BY <2>2, <2>5, <2>6 DEF Answered
<1>10. ASSUME NEW r \in Run, ActivitiesDone(r) PROVE TypeOK' /\ Progress'
  <2>1. /\ run[r].step = "delete activities" /\ run[r].todo = {}
        /\ Go(r, "list events", {}, {}) /\ UNCHANGED portal
    BY <1>10 DEF ActivitiesDone, Written
  <2>2. /\ (Buttons => fieldType) /\ Registry \subseteq robots
        /\ ~run[r].blind => activities = {}
    BY <1>b, <2>1 DEF Now, Done, AfterField, AfterRobots
  <2>3. Then("list events", {}, run[r].blind)
    BY <2>1, <2>2 DEF Then, Done, AfterField, AfterRobots, AfterActivities, portal
  <2>4. "list events" \in Steps
    BY DEF Steps
  <2> QED
    BY <2>1, <2>3, <2>4, <1>p, <1>m, <1>s, RunGoes
<1>11. ASSUME NEW r \in Run, ListEvents(r) PROVE TypeOK' /\ Progress'
  <2>1. run[r].step = "list events" /\ UNCHANGED portal
    BY <1>11 DEF ListEvents
  <2>2. /\ (Buttons => fieldType) /\ Registry \subseteq robots
        /\ ~run[r].blind => activities = {}
    BY <1>b, <2>1 DEF Now, Done, AfterField, AfterRobots, AfterActivities
  <2>3. /\ bound => Then("completed", {}, run[r].blind)
        /\ Then("bind event", {}, run[r].blind)
        /\ Now("bind event", {}, run[r].blind \/ TRUE)
    BY <2>1, <2>2 DEF Then, Now, Done, AfterField, AfterRobots, AfterActivities, portal
  <2>4. "completed" \in Steps /\ "bind event" \in Steps
    BY DEF Steps, Ended
  <2>5. CASE bound /\ Go(r, "completed", {}, {})
    BY <2>1, <2>3, <2>4, <2>5, <1>p, <1>m, <1>s, RunGoes
  <2>6. CASE Go(r, "bind event", {}, {})
    BY <2>1, <2>3, <2>4, <2>6, <1>p, <1>m, <1>s, RunGoes
  <2>7. CASE Read(r, "bind event", {}, {}, TRUE)
    BY <2>1, <2>3, <2>4, <2>7, <1>p, <1>s, RunReads
  <2> QED
    BY <1>11, <2>5, <2>6, <2>7 DEF ListEvents
<1>12. ASSUME NEW r \in Run, BindEvent(r) PROVE TypeOK' /\ Progress'
  <2>1. UNCHANGED <<fieldType, robots, activities>> /\ run[r].step = "bind event"
    BY <1>12 DEF BindEvent
  <2>2. /\ (Buttons => fieldType) /\ Registry \subseteq robots
        /\ ~run[r].blind => activities = {}
    BY <1>b, <2>1 DEF Now, Done, AfterField, AfterRobots, AfterActivities
  <2>3. Monotone /\ bound' \in BOOLEAN
    <3>1. CASE bound
      <4>1. bound' = bound
        BY <1>12, <3>1 DEF BindEvent
      <4> QED
        BY <2>1, <4>1 DEF Monotone, TypeOK
    <3>2. CASE ~bound
      <4>1. bound' = TRUE
        BY <1>12, <3>2 DEF BindEvent
      <4> QED
        BY <2>1, <3>2, <4>1 DEF Monotone
    <3> QED
      BY <3>1, <3>2
  <2>4. CASE Refused(r) \/ Go(r, "failed", {}, {})
    BY <2>1, <2>3, <2>4, RunStops DEF TypeOK
  <2>5. CASE Go(r, "completed", {}, {}) /\ bound' = TRUE
    <3>1. "completed" \in Steps
      BY DEF Steps, Ended
    <3>2. Then("completed", {}, run[r].blind)
      BY <2>1, <2>2, <2>5 DEF Then, Done, AfterField, AfterRobots, AfterActivities
    <3> QED
      BY <2>1, <2>3, <2>5, <3>1, <3>2, <1>s, RunGoes DEF TypeOK
  <2>6. CASE bound
    BY <1>12, <2>4, <2>6 DEF BindEvent
  <2>7. CASE ~bound
    <3>1. Answered(r, "completed", {}, {}) /\ bound' = TRUE
      BY <1>12, <2>7 DEF BindEvent
    <3> QED
      BY <2>4, <2>5, <3>1 DEF Answered
  <2> QED
    BY <2>6, <2>7
<1>13. CASE UNCHANGED vars
  BY <1>13 DEF vars, portal, TypeOK, Progress, Now
<1> QED
  BY <1>1, <1>2, <1>3, <1>4, <1>5, <1>6, <1>7, <1>8, <1>9, <1>10, <1>11, <1>12, <1>13 DEF Next

\* Registration keeps its types: only robots of the registry are registered.
THEOREM TypeCorrect == Spec => []TypeOK
<1> QED
  BY InitProgress, NextProgress, PTL DEF Spec

\* A run that ends well has registered everything, in whatever state it found the
\* portal and whatever other runs do meanwhile and afterwards
\* (registration.py:118-124).
THEOREM Completes == Spec => []Complete
<1>1. TypeOK /\ Progress => Complete
  BY DEF Progress, Now, Done, Complete, At, AfterField, AfterRobots, AfterActivities
<1> QED
  BY <1>1, InitProgress, NextProgress, PTL DEF Spec
-----------------------------------------------------------------------------
(* Runs do not block one another: whoever is refused is behind another run. *)

\* How far a run has come; one that was overtaken counts for nothing.
Stage(step) ==
  CASE step \in {"idle", "overtaken"} -> 0
    [] step \in {"list field types", "write field type"} -> 1
    [] step \in {"list robots", "write robots"} -> 2
    [] step \in {"list activities", "delete activities"} -> 3
    [] step \in {"list events", "bind event"} -> 4
    [] OTHER -> 5

InLoop(r) == run[r].step \in {"write robots", "delete activities"}

\* The run has passed stage k, or within its loop the member n.
Beyond(r, k, n) == Stage(run[r].step) > k \/ (Stage(run[r].step) = k /\ InLoop(r) /\ \A m \in run[r].todo : n < m)

\* The run is overtaken, or will be there, although it has read its list well.
Behind(r, k, n) ==
  \/ k = 0 /\ run[r].step = "overtaken"
  \/ k = 1 /\ run[r].step = "write field type" /\ run[r].seen = {} /\ fieldType
  \/ /\ k = 2 /\ run[r].step = "write robots" /\ ~run[r].blind
     /\ n \in run[r].todo /\ n \in robots \ run[r].seen
  \/ /\ k = 3 /\ run[r].step = "delete activities" /\ ~run[r].blind
     /\ n \in run[r].todo \ activities
  \/ k = 4 /\ run[r].step = "bind event" /\ ~run[r].blind /\ bound

Ahead(k, n) == \E r \in Run : Beyond(r, k, n)

\* Behind somebody who is ahead.
Order == \A r \in Run, k \in Nat, n \in Nat : Behind(r, k, n) => Ahead(k, n)

LEMMA StageType == ASSUME NEW step PROVE Stage(step) \in 0..5
BY DEF Stage

LEMMA StageOf ==
  /\ Stage("idle") = 0 /\ Stage("overtaken") = 0
  /\ Stage("list field types") = 1 /\ Stage("write field type") = 1
  /\ Stage("list robots") = 2 /\ Stage("write robots") = 2
  /\ Stage("list activities") = 3 /\ Stage("delete activities") = 3
  /\ Stage("list events") = 4 /\ Stage("bind event") = 4
  /\ Stage("completed") = 5 /\ Stage("failed") = 5
BY DEF Stage

\* A run that is behind is not beyond that point.
LEMMA NotBoth ==
  ASSUME TypeOK, NEW r \in Run, NEW k \in Nat, NEW n \in Nat, Behind(r, k, n)
  PROVE  ~Beyond(r, k, n) /\ Stage(run[r].step) = k /\ (InLoop(r) => n \in run[r].todo)
<1>1. Stage(run[r].step) = k /\ (InLoop(r) => n \in run[r].todo)
  BY StageOf DEF Behind, InLoop
<1>2. ~(n < n)
  OBVIOUS
<1> QED
  BY <1>1, <1>2 DEF Beyond

\* The run gets on.
Advances(r) ==
  \/ Stage(run'[r].step) > Stage(run[r].step)
  \/ /\ Stage(run'[r].step) = Stage(run[r].step)
     /\ InLoop(r) => InLoop(r)' /\ run'[r].todo \subseteq run[r].todo

\* The portal refuses the run.
Overtakes(r) ==
  /\ run'[r].step = "overtaken"
  /\ \E k, n \in Nat : Behind(r, k, n) /\ k > 0

\* Whoever changes the portal has passed that point.
Causes(r) ==
  \A n \in Nat :
    /\ fieldType' /\ ~fieldType => Beyond(r, 1, n)'
    /\ n \in robots' \ robots => Beyond(r, 2, n)'
    /\ n \in activities \ activities' => Beyond(r, 3, n)'
    /\ bound' /\ ~bound => Beyond(r, 4, n)'

\* A run does not fall behind by its own step.
Own(r) == \A k \in Nat \ {0}, n \in Nat : Behind(r, k, n)' => Behind(r, k, n)

LEMMA OthersStay ==
  ASSUME NEW r \in Run, Alone(r), NEW s \in Run, s # r, NEW k \in Nat, NEW n \in Nat
  PROVE  Beyond(s, k, n)' <=> Beyond(s, k, n)
<1>1. run'[s] = run[s]
  BY DEF Alone
<1>2. Stage(run'[s].step) = Stage(run[s].step) /\ (InLoop(s)' <=> InLoop(s))
  BY <1>1, StageOf DEF InLoop
<1> QED
  BY <1>1, <1>2 DEF Beyond

LEMMA AdvancesStays ==
  ASSUME NEW r \in Run, Advances(r), NEW k \in Nat, NEW n \in Nat, Beyond(r, k, n)
  PROVE  Beyond(r, k, n)'
<1>1. Stage(run[r].step) \in 0..5 /\ Stage(run'[r].step) \in 0..5
  BY StageType
<1> QED
  BY <1>1 DEF Advances, Beyond

\* Somebody stays ahead: who overtakes the one that was is further ahead.
LEMMA AheadStays ==
  ASSUME TypeOK, Order, NEW r \in Run, Alone(r), Advances(r) \/ Overtakes(r),
         NEW k \in Nat, NEW n \in Nat, Ahead(k, n)
  PROVE  Ahead(k, n)'
<1>1. PICK s \in Run : Beyond(s, k, n)
  BY DEF Ahead
<1>2. CASE s # r
  BY <1>1, <1>2, OthersStay DEF Ahead
<1>3. CASE s = r /\ Advances(r)
  BY <1>1, <1>3, AdvancesStays DEF Ahead
<1>4. CASE s = r /\ Overtakes(r)
  <2>1. PICK i \in Nat, m \in Nat : Behind(r, i, m) /\ i > 0
    BY <1>4 DEF Overtakes
  <2>2. ~Beyond(r, i, m) /\ Stage(run[r].step) = i /\ (InLoop(r) => m \in run[r].todo)
    BY <2>1, NotBoth
  <2>3. PICK t \in Run : Beyond(t, i, m)
    BY <2>1 DEF Order, Ahead
  <2>4. i > k \/ (i = k /\ n < m)
    BY <1>1, <1>4, <2>2 DEF Beyond
  <2>5. Beyond(t, k, n)
    <3>1. Stage(run[t].step) \in Nat
      BY StageType
    <3>2. CASE Stage(run[t].step) > i
      BY <2>4, <3>1, <3>2 DEF Beyond
    <3>3. CASE Stage(run[t].step) = i /\ InLoop(t) /\ \A j \in run[t].todo : m < j
      <4>1. run[t].todo \subseteq Nat
        BY DEF TypeOK, Local
      <4>2. i = k => \A j \in run[t].todo : n < j
        BY <2>4, <3>3, <4>1
      <4> QED
        BY <2>4, <3>1, <3>3, <4>2 DEF Beyond
    <3> QED
      BY <2>3, <3>2, <3>3 DEF Beyond
  <2>6. t # r
    BY <2>2, <2>3
  <2> QED
    BY <2>5, <2>6, OthersStay DEF Ahead
<1> QED
  BY <1>2, <1>3, <1>4

\* One step of one run.
LEMMA OneStep ==
  ASSUME TypeOK, Order, NEW r \in Run, Alone(r), Causes(r), Own(r),
         (Advances(r) /\ run'[r].step # "overtaken") \/ Overtakes(r)
  PROVE  Order'
<1> SUFFICES ASSUME NEW q \in Run, NEW k \in Nat, NEW n \in Nat, Behind(q, k, n)'
             PROVE  Ahead(k, n)'
  BY DEF Order
<1>1. Behind(q, k, n) => Ahead(k, n)'
  BY AheadStays DEF Order
<1>2. CASE q # r
  <2>1. run'[q] = run[q]
    BY <1>2 DEF Alone
  <2>2. Behind(q, k, n) \/ Beyond(r, k, n)'
    BY <2>1 DEF Behind, Causes
  <2> QED
    BY <1>1, <2>2 DEF Ahead
<1>3. CASE q = r /\ k # 0
  BY <1>1, <1>3 DEF Own
<1>4. CASE q = r /\ k = 0
  <2>1. run'[r].step = "overtaken"
    BY <1>4 DEF Behind
  <2>2. PICK i \in Nat, m \in Nat : Behind(r, i, m) /\ i > 0
    BY <2>1 DEF Overtakes
  <2>3. Ahead(i, m)
    BY <2>2 DEF Order
  <2>4. PICK t \in Run : Beyond(t, i, m)'
    BY <2>3, AheadStays DEF Ahead
  <2>5. Stage(run'[t].step) > 0
    <3>1. Stage(run'[t].step) \in 0..5
      BY StageType
    <3> QED
      BY <2>2, <2>4, <3>1 DEF Beyond
  <2> QED
    BY <1>4, <2>5 DEF Ahead, Beyond
<1> QED
  BY <1>2, <1>3, <1>4

LEMMA Working == \A step \in Steps \ Ended : Stage(step) \in 1..4
<1> SUFFICES ASSUME NEW step \in Steps, step \notin Ended PROVE Stage(step) \in 1..4
  OBVIOUS
<1>1. Stage(step) = 1 \/ Stage(step) = 2 \/ Stage(step) = 3 \/ Stage(step) = 4
  BY StageOf DEF Steps, Ended
<1> QED
  BY <1>1

\* Where a run stands is no point to be behind at.
Quiet == {"list field types", "list robots", "list activities", "list events",
          "completed", "failed", "overtaken"}

LEMMA QuietOwn == ASSUME NEW r \in Run, run'[r].step \in Quiet PROVE Own(r)
BY DEF Own, Behind, Quiet

LEMMA NextStage ==
  ASSUME NEW r \in Run, NEW i \in Nat, NEW j \in Nat, i < j,
         Stage(run[r].step) = i, Stage(run'[r].step) = j
  PROVE  Advances(r)
BY DEF Advances

LEMMA Starts ==
  ASSUME NEW r \in Run, Stage(run[r].step) = 0,
         Stage(run'[r].step) = 1 \/ Stage(run'[r].step) = 2
  PROVE  Advances(r)
BY NextStage

LEMMA SameStage ==
  ASSUME NEW r \in Run, Stage(run[r].step) = Stage(run'[r].step), ~InLoop(r)
  PROVE  Advances(r)
BY DEF Advances

LEMMA Passes ==
  ASSUME NEW r \in Run, NEW k \in Nat, NEW n \in Nat, Stage(run'[r].step) > k
  PROVE  Beyond(r, k, n)'
BY DEF Beyond

LEMMA Untouched ==
  ASSUME TypeOK, NEW r \in Run, UNCHANGED portal PROVE Causes(r)
BY DEF portal, Causes

LEMMA NextOrder == TypeOK /\ Order /\ [Next]_vars => Order'
<1> SUFFICES ASSUME TypeOK, Order, [Next]_vars PROVE Order'
  OBVIOUS
<1>a. run \in [Run -> Local] /\ {} \in SUBSET Nat /\ RegistrationAssumption
  BY RegistrationAssumption DEF TypeOK
<1>b. \A r \in Run : run[r].seen \in SUBSET Nat /\ run[r].todo \in SUBSET Nat /\ run[r].blind \in BOOLEAN
  BY <1>a DEF Local
<1>t. \A step \in {"list field types", "write field type", "list robots", "write robots",
                   "list activities", "delete activities", "list events", "bind event",
                   "completed", "overtaken", "failed"} : step \in Steps
  BY DEF Steps, Ended
<1>g. ASSUME NEW r \in Run, NEW step \in Steps, Go(r, step, {}, {})
      PROVE  Alone(r) /\ run'[r].step = step
  BY <1>g, <1>a, GoRun
\* A failure takes a run to the end, and is nobody's fault.
<1>f. ASSUME NEW r \in Run, Go(r, "failed", {}, {}), run[r].step \notin Ended
      PROVE  Alone(r) /\ Own(r) /\ Advances(r) /\ run'[r].step = "failed"
  <2>1. Alone(r) /\ run'[r].step = "failed"
    BY <1>f, <1>t, <1>g
  <2>2. Stage(run'[r].step) = 5 /\ Stage(run[r].step) \in 1..4
    <3>1. run[r].step \in Steps
      BY <1>a DEF Local
    <3> QED
      BY <2>1, <3>1, <1>f, Working, StageOf
  <2>3. Own(r)
    BY <2>1, QuietOwn DEF Quiet
  <2>4. Advances(r)
    BY <2>2, NextStage
  <2> QED
    BY <2>1, <2>3, <2>4
\* A refusal is deserved by a misread list or by another run that is ahead.
<1>r. ASSUME NEW r \in Run, Refused(r), run[r].step \notin Ended, UNCHANGED portal,
             NEW k \in Nat \ {0}, NEW n \in Nat, ~run[r].blind => Behind(r, k, n)
      PROVE  Order'
  <2>1. CASE run[r].blind
    BY <2>1, <1>r, <1>f, Untouched, OneStep DEF Refused
  <2>2. CASE ~run[r].blind
    <3>1. Alone(r) /\ run'[r].step = "overtaken"
      BY <2>2, <1>r, <1>t, <1>g DEF Refused
    <3>2. Overtakes(r)
      BY <2>2, <3>1, <1>r DEF Overtakes
    <3>3. Own(r)
      BY <3>1, QuietOwn DEF Quiet
    <3> QED
      BY <3>1, <3>2, <3>3, <1>r, Untouched, OneStep
  <2> QED
    BY <2>1, <2>2, <1>b
<1> USE DEF At
<1>1. ASSUME NEW r \in Run, Begin(r) PROVE Order'
  <2>1. PICK step \in {"list field types", "list robots"} : Go(r, step, {}, {}) /\ UNCHANGED portal
    BY <1>1 DEF Begin
  <2>2. Alone(r) /\ run'[r].step = step
    BY <2>1, <1>t, <1>g
  <2>3. Own(r) /\ run'[r].step # "overtaken"
    BY <2>2, QuietOwn DEF Quiet
  <2>4. Stage(run[r].step) = 0
    BY <1>1, StageOf DEF Begin
  <2>5. Stage(run'[r].step) = 1 \/ Stage(run'[r].step) = 2
    BY <2>1, <2>2, StageOf
  <2>6. Advances(r)
    BY <2>4, <2>5, Starts
  <2> QED
    BY <2>1, <2>2, <2>3, <2>6, Untouched, OneStep
<1>2. ASSUME NEW r \in Run, Fail(r) PROVE Order'
  BY <1>2, <1>f, Untouched, OneStep DEF Fail
<1>3. ASSUME NEW r \in Run, ListFieldTypes(r) PROVE Order'
  <2>1. /\ Alone(r) /\ run'[r].step = "write field type"
        /\ run'[r].seen = IF fieldType THEN {1} ELSE {}
    <3>1. "write field type" \in Steps
      BY <1>t
    <3>2. (IF fieldType THEN {1} ELSE {}) \in SUBSET Nat
      OBVIOUS
    <3>3. Go(r, "write field type", IF fieldType THEN {1} ELSE {}, {})
      BY <1>3 DEF ListFieldTypes
    <3> QED
      BY <3>1, <3>2, <3>3, <1>a, GoRun
  <2>2. run[r].step = "list field types" /\ UNCHANGED portal /\ fieldType' = fieldType
    BY <1>3 DEF ListFieldTypes, portal
  <2>3. Advances(r)
    BY <2>1, <2>2, StageOf, SameStage DEF InLoop
  <2>4. Own(r)
    BY <2>1, <2>2 DEF Own, Behind
  <2> QED
    BY <2>1, <2>2, <2>3, <2>4, Untouched, OneStep
<1>4. ASSUME NEW r \in Run, WriteFieldType(r) PROVE Order'
  <2>1. run[r].step = "write field type" /\ UNCHANGED <<robots, activities, bound>>
    BY <1>4 DEF WriteFieldType
  <2>2. CASE run[r].seen = {} /\ fieldType
    <3>1. Refused(r) /\ UNCHANGED portal /\ run[r].step \notin Ended
      BY <1>4, <2>1, <2>2 DEF WriteFieldType, Ended, portal
    <3>2. Behind(r, 1, 0)
      BY <2>1, <2>2 DEF Behind
    <3> QED
      BY <3>1, <3>2, <1>r
  <2>3. CASE ~(run[r].seen = {} /\ fieldType)
    <3>1. Go(r, "list robots", {}, {}) \/ Go(r, "failed", {}, {})
      BY <1>4, <2>3 DEF WriteFieldType, Answered
    <3>2. /\ Alone(r) /\ run'[r].step \in {"list robots", "failed"}
      BY <3>1, <1>t, <1>g
    <3>3. Stage(run'[r].step) = 2 \/ Stage(run'[r].step) = 5
      BY <3>2, StageOf
    <3>4. Causes(r)
      <4>1. \A n \in Nat : Beyond(r, 1, n)'
        BY <3>3, Passes
      <4> QED
        BY <2>1, <4>1 DEF Causes
    <3>5. Own(r) /\ Advances(r)
      <4>1. Stage(run[r].step) = 1
        BY <2>1, StageOf
      <4>2. Advances(r)
        BY <3>3, <4>1, NextStage
      <4> QED
        BY <3>2, <4>2, QuietOwn DEF Quiet
    <3> QED
      BY <3>2, <3>4, <3>5, OneStep
  <2> QED
    BY <2>2, <2>3
<1>5. ASSUME NEW r \in Run, ListRobots(r) PROVE Order'
  <2>1. /\ Registry \in SUBSET Nat /\ robots \in SUBSET Nat /\ "write robots" \in Steps
        /\ run[r].step = "list robots" /\ UNCHANGED portal /\ robots' = robots
    BY <1>5, RegistryType DEF ListRobots, TypeOK, Registry, Steps, portal
  <2>2. /\ Alone(r) /\ run'[r].step = "write robots" /\ (run'[r].seen = robots \/ run'[r].blind)
    BY <1>5, <2>1, <1>a, ReadRun DEF ListRobots
  <2>3. Advances(r)
    BY <2>1, <2>2, StageOf, SameStage, NextStage DEF InLoop
  <2>4. Own(r)
    BY <2>1, <2>2 DEF Own, Behind
  <2> QED
    BY <2>1, <2>2, <2>3, <2>4, Untouched, OneStep
<1>6. ASSUME NEW r \in Run, WriteRobot(r) PROVE Order'
  <2>1. run[r].step = "write robots" /\ UNCHANGED <<fieldType, activities, bound>>
    BY <1>6 DEF WriteRobot
  <2>2. PICK n \in First(run[r].todo) :
          IF n \notin run[r].seen /\ n \in robots
          THEN Refused(r) /\ UNCHANGED robots
          ELSE /\ Answered(r, "write robots", run[r].seen, run[r].todo \ {n})
               /\ robots' = robots \cup {n}
    BY <1>6 DEF WriteRobot
  <2>3. /\ n \in run[r].todo /\ n \in Nat /\ run[r].todo \subseteq Nat
        /\ \A m \in run[r].todo : n <= m
    BY <1>b DEF First
  <2>4. CASE n \notin run[r].seen /\ n \in robots
    <3>1. Refused(r) /\ UNCHANGED portal /\ run[r].step \notin Ended
      BY <2>1, <2>2, <2>4 DEF Ended, portal
    <3>2. ~run[r].blind => Behind(r, 2, n)
      BY <2>1, <2>3, <2>4 DEF Behind
    <3> QED
      BY <2>3, <3>1, <3>2, <1>r
  <2>5. CASE Go(r, "failed", {}, {}) /\ robots' = robots \cup {n}
    <3>1. Stage(run'[r].step) = 5
      BY <2>1, <2>5, <1>f, StageOf DEF Ended
    <3>2. Causes(r)
      <4>1. \A m \in Nat : Beyond(r, 2, m)'
        BY <3>1, Passes
      <4> QED
        BY <2>1, <2>5, <4>1 DEF Causes
    <3> QED
      BY <2>1, <2>5, <3>2, <1>f, OneStep DEF Ended
  <2>6. CASE /\ Go(r, "write robots", run[r].seen, run[r].todo \ {n})
             /\ robots' = robots \cup {n}
    <3>1. /\ Alone(r) /\ run'[r].step = "write robots" /\ run'[r].todo = run[r].todo \ {n}
          /\ run'[r].seen = run[r].seen /\ run'[r].blind = run[r].blind
      <4>1. run[r].todo \ {n} \in SUBSET Nat /\ run[r].seen \in SUBSET Nat
        BY <1>b
      <4>2. "write robots" \in Steps
        BY <1>t
      <4>3. PICK seen \in SUBSET Nat, todo \in SUBSET Nat :
              seen = run[r].seen /\ todo = run[r].todo \ {n}
        BY <4>1
      <4>4. Go(r, "write robots", seen, todo)
        BY <2>6, <4>3
      <4>5. /\ Alone(r) /\ run'[r].step = "write robots" /\ run'[r].todo = todo
            /\ run'[r].seen = seen /\ run'[r].blind = run[r].blind
        BY <4>2, <4>4, <1>a, GoRun
      <4> QED
        BY <4>3, <4>5
    <3>2. \A m \in run'[r].todo : n < m
      <4> SUFFICES ASSUME NEW m \in run[r].todo, m # n PROVE n < m
        BY <3>1
      <4>1. m \in Nat /\ n <= m
        BY <2>3
      <4> QED
        BY <2>3, <4>1
    <3>3. Stage(run'[r].step) = 2 /\ Stage(run[r].step) = 2 /\ InLoop(r)'
      BY <3>1, <2>1, StageOf DEF InLoop
    <3>4. Causes(r)
      BY <2>1, <2>6, <3>2, <3>3 DEF Causes, Beyond
    <3>5. Own(r)
      BY <2>1, <2>6, <3>1 DEF Own, Behind
    <3> QED
      BY <3>1, <3>3, <3>4, <3>5, OneStep DEF Advances
  <2> QED
    BY <2>2, <2>4, <2>5, <2>6 DEF Answered
<1>7. ASSUME NEW r \in Run, RobotsDone(r) PROVE Order'
  <2>1. run[r].step = "write robots" /\ Go(r, "list activities", {}, {}) /\ UNCHANGED portal
    BY <1>7 DEF RobotsDone
  <2>2. Alone(r) /\ run'[r].step = "list activities"
    BY <2>1, <1>t, <1>g
  <2>3. Own(r)
    BY <2>2, QuietOwn DEF Quiet
  <2>4. Advances(r)
    <3>1. Stage(run[r].step) = 2 /\ Stage(run'[r].step) = 3
      BY <2>1, <2>2, StageOf
    <3> QED
      BY <3>1, NextStage
  <2> QED
    BY <2>1, <2>2, <2>3, <2>4, Untouched, OneStep
<1>8. ASSUME NEW r \in Run, ListActivities(r) PROVE Order'
  <2>1. /\ activities \in SUBSET Nat /\ "delete activities" \in Steps
        /\ run[r].step = "list activities" /\ UNCHANGED portal /\ activities' = activities
    BY <1>8, RegistryType DEF ListActivities, TypeOK, Steps, portal
  <2>2. /\ Alone(r) /\ run'[r].step = "delete activities"
        /\ run'[r].todo = activities \/ run'[r].blind
    <3>1. CASE Read(r, "delete activities", activities, activities, FALSE)
      BY <3>1, <2>1, <1>a, ReadRun
    <3>2. CASE Read(r, "delete activities", {}, {}, TRUE)
      BY <3>2, <2>1, <1>a, ReadRun
    <3> QED
      BY <3>1, <3>2, <1>8 DEF ListActivities
  <2>3. Advances(r)
    BY <2>1, <2>2, StageOf, SameStage, NextStage DEF InLoop
  <2>4. Own(r)
    BY <2>1, <2>2 DEF Own, Behind
  <2> QED
    BY <2>1, <2>2, <2>3, <2>4, Untouched, OneStep
<1>9. ASSUME NEW r \in Run, DeleteActivity(r) PROVE Order'
  <2>1. run[r].step = "delete activities" /\ UNCHANGED <<fieldType, robots, bound>>
    BY <1>9 DEF DeleteActivity
  <2>2. PICK n \in First(run[r].todo) :
          IF n \notin activities
          THEN Refused(r) /\ UNCHANGED activities
          ELSE /\ Answered(r, "delete activities", run[r].seen, run[r].todo \ {n})
               /\ activities' = activities \ {n}
    BY <1>9 DEF DeleteActivity
  <2>3. /\ n \in run[r].todo /\ n \in Nat /\ run[r].todo \subseteq Nat
        /\ \A m \in run[r].todo : n <= m
    BY <1>b DEF First
  <2>4. CASE n \notin activities
    <3>1. Refused(r) /\ UNCHANGED portal /\ run[r].step \notin Ended
      BY <2>1, <2>2, <2>4 DEF Ended, portal
    <3>2. ~run[r].blind => Behind(r, 3, n)
      BY <2>1, <2>3, <2>4 DEF Behind
    <3> QED
      BY <2>3, <3>1, <3>2, <1>r
  <2>5. CASE Go(r, "failed", {}, {}) /\ activities' = activities \ {n}
    <3>1. Stage(run'[r].step) = 5
      BY <2>1, <2>5, <1>f, StageOf DEF Ended
    <3>2. Causes(r)
      <4>1. \A m \in Nat : Beyond(r, 3, m)'
        BY <3>1, Passes
      <4> QED
        BY <2>1, <2>5, <4>1 DEF Causes
    <3> QED
      BY <2>1, <2>5, <3>2, <1>f, OneStep DEF Ended
  <2>6. CASE /\ Go(r, "delete activities", run[r].seen, run[r].todo \ {n})
             /\ activities' = activities \ {n}
    <3>1. /\ Alone(r) /\ run'[r].step = "delete activities"
          /\ run'[r].todo = run[r].todo \ {n} /\ run'[r].blind = run[r].blind
      <4>1. run[r].todo \ {n} \in SUBSET Nat /\ run[r].seen \in SUBSET Nat
        BY <1>b
      <4>2. "delete activities" \in Steps
        BY <1>t
      <4>3. PICK seen \in SUBSET Nat, todo \in SUBSET Nat :
              seen = run[r].seen /\ todo = run[r].todo \ {n}
        BY <4>1
      <4>4. Go(r, "delete activities", seen, todo)
        BY <2>6, <4>3
      <4>5. /\ Alone(r) /\ run'[r].step = "delete activities" /\ run'[r].todo = todo
            /\ run'[r].seen = seen /\ run'[r].blind = run[r].blind
        BY <4>2, <4>4, <1>a, GoRun
      <4> QED
        BY <4>3, <4>5
    <3>2. \A m \in run'[r].todo : n < m
      <4> SUFFICES ASSUME NEW m \in run[r].todo, m # n PROVE n < m
        BY <3>1
      <4>1. m \in Nat /\ n <= m
        BY <2>3
      <4> QED
        BY <2>3, <4>1
    <3>3. Stage(run'[r].step) = 3 /\ Stage(run[r].step) = 3 /\ InLoop(r)'
      BY <3>1, <2>1, StageOf DEF InLoop
    <3>4. Causes(r)
      BY <2>1, <2>6, <3>2, <3>3 DEF Causes, Beyond
    <3>5. Own(r)
      BY <2>1, <2>6, <3>1 DEF Own, Behind
    <3> QED
      BY <3>1, <3>3, <3>4, <3>5, OneStep DEF Advances
  <2> QED
    BY <2>2, <2>4, <2>5, <2>6 DEF Answered
<1>10. ASSUME NEW r \in Run, ActivitiesDone(r) PROVE Order'
  <2>1. run[r].step = "delete activities" /\ Go(r, "list events", {}, {}) /\ UNCHANGED portal
    BY <1>10 DEF ActivitiesDone
  <2>2. Alone(r) /\ run'[r].step = "list events"
    BY <2>1, <1>t, <1>g
  <2>3. Own(r)
    BY <2>2, QuietOwn DEF Quiet
  <2>4. Advances(r)
    <3>1. Stage(run[r].step) = 3 /\ Stage(run'[r].step) = 4
      BY <2>1, <2>2, StageOf
    <3> QED
      BY <3>1, NextStage
  <2> QED
    BY <2>1, <2>2, <2>3, <2>4, Untouched, OneStep
<1>11. ASSUME NEW r \in Run, ListEvents(r) PROVE Order'
  <2>1. run[r].step = "list events" /\ UNCHANGED portal /\ bound' = bound
    BY <1>11 DEF ListEvents, portal
  <2>2. /\ Alone(r) /\ run'[r].step \in {"completed", "bind event"}
        /\ run'[r].step = "bind event" => ~bound \/ run'[r].blind
    <3>1. CASE Go(r, "completed", {}, {})
      BY <3>1, <1>t, <1>g
    <3>2. CASE ~bound /\ Go(r, "bind event", {}, {})
      BY <3>2, <1>t, <1>g
    <3>3. CASE Read(r, "bind event", {}, {}, TRUE)
      BY <3>3, <1>a, <1>t, ReadRun
    <3> QED
      BY <3>1, <3>2, <3>3, <1>11 DEF ListEvents
  <2>3. Advances(r)
    <3>1. Stage(run[r].step) = 4 /\ ~InLoop(r)
      BY <2>1, StageOf DEF InLoop
    <3>2. Stage(run'[r].step) = 4 \/ Stage(run'[r].step) = 5
      BY <2>2, StageOf
    <3> QED
      BY <3>1, <3>2, SameStage, NextStage
  <2>4. Own(r)
    BY <2>1, <2>2 DEF Own, Behind
  <2> QED
    BY <2>1, <2>2, <2>3, <2>4, Untouched, OneStep
<1>12. ASSUME NEW r \in Run, BindEvent(r) PROVE Order'
  <2>1. run[r].step = "bind event" /\ UNCHANGED <<fieldType, robots, activities>>
    BY <1>12 DEF BindEvent
  <2>2. CASE bound
    <3>1. Refused(r) /\ UNCHANGED portal /\ run[r].step \notin Ended
      BY <1>12, <2>1, <2>2 DEF BindEvent, Ended, portal
    <3>2. ~run[r].blind => Behind(r, 4, 0)
      BY <2>1, <2>2 DEF Behind
    <3> QED
      BY <3>1, <3>2, <1>r
  <2>3. CASE ~bound
    <3>1. Go(r, "completed", {}, {}) \/ Go(r, "failed", {}, {})
      BY <1>12, <2>3 DEF BindEvent, Answered
    <3>2. Alone(r) /\ run'[r].step \in {"completed", "failed"}
      BY <3>1, <1>t, <1>g
    <3>3. Stage(run'[r].step) = 5
      BY <3>2, StageOf
    <3>4. Causes(r)
      <4>1. \A n \in Nat : Beyond(r, 4, n)'
        BY <3>3, Passes
      <4> QED
        BY <2>1, <4>1 DEF Causes
    <3>5. Own(r) /\ Advances(r)
      <4>1. Stage(run[r].step) = 4
        BY <2>1, StageOf
      <4>2. Advances(r)
        BY <3>3, <4>1, NextStage
      <4> QED
        BY <3>2, <4>2, QuietOwn DEF Quiet
    <3> QED
      BY <3>2, <3>4, <3>5, OneStep
  <2> QED
    BY <2>2, <2>3
<1>13. CASE UNCHANGED vars
  <2>1. run' = run /\ fieldType' = fieldType /\ robots' = robots
        /\ activities' = activities /\ bound' = bound
    BY <1>13 DEF vars, portal
  <2>2. \A r \in Run, k \in Nat, n \in Nat :
          (Behind(r, k, n)' <=> Behind(r, k, n)) /\ (Beyond(r, k, n)' <=> Beyond(r, k, n))
    BY <2>1 DEF Behind, Beyond, InLoop
  <2> QED
    BY <2>2 DEF Order, Ahead
<1> QED
  BY <1>1, <1>2, <1>3, <1>4, <1>5, <1>6, <1>7, <1>8, <1>9, <1>10, <1>11, <1>12, <1>13 DEF Next

\* Runs never all fail because of one another: if none has failed for another
\* reason and none is on, those that were overtaken were overtaken by one that
\* has completed (registration.py:83-106).
THEOREM OneGetsThrough == Spec => []NotAllOvertaken
<1>1. Init => Order
  <2> SUFFICES ASSUME Init, NEW r \in Run PROVE run[r].step = "idle"
    BY DEF Order, Behind
  <2> QED
    BY DEF Init
<1>2. TypeOK /\ Order => NotAllOvertaken
  <2> SUFFICES ASSUME Order, \A r \in Run : run[r].step \in {"idle", "completed", "overtaken"},
                      NEW r \in Run, run[r].step = "overtaken"
               PROVE  \E s \in Run : run[s].step = "completed"
    BY DEF NotAllOvertaken, At
  <2>1. Ahead(0, 0)
    BY DEF Order, Behind
  <2>2. PICK s \in Run : Stage(run[s].step) > 0 \/ InLoop(s)
    BY <2>1 DEF Ahead, Beyond
  <2>3. run[s].step = "completed"
    <3>1. run[s].step \in {"idle", "completed", "overtaken"} /\ ~(0 > 0)
      OBVIOUS
    <3> QED
      BY <2>2, <3>1, StageOf DEF InLoop
  <2> QED
    BY <2>3
<1> QED
  BY <1>1, <1>2, InitProgress, NextProgress, NextOrder, PTL DEF Spec
=============================================================================
