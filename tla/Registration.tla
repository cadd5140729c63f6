---------------------------- MODULE Registration ----------------------------
(***************************************************************************)
(* What ensure_all (app/bitrix/registration.py) leaves registered in one   *)
(* portal when installations and register_extensions run it, at a time and *)
(* again and again.  Every list is read by one call and acted upon by the  *)
(* calls that follow; the portal refuses to add what exists, to delete     *)
(* what does not, and to bind a handler twice.                             *)
(***************************************************************************)
EXTENDS Integers

CONSTANTS
  Run,         \* invocations of ensure_all
  Robots,      \* robots of the registry, numbered in its order
  Activities,  \* duplicate activities of earlier versions, in the order of their codes
  Buttons      \* workflow_buttons_enabled

ASSUME RegistrationAssumption ==
  Robots \in Nat /\ Activities \in Nat /\ Buttons \in BOOLEAN

VARIABLES
  fieldType,   \* the portal has the field type of the buttons
  robots,      \* the registered robots
  activities,  \* the duplicate activities still there
  bound,       \* ONAPPUNINSTALL is bound to the application
  run          \* an invocation: its step, what the last list said, what is left to do

portal == <<fieldType, robots, activities, bound>>
vars == <<portal, run>>

\* Mutant: counted from 0.
Registry_zero == 0..Robots

\* robot_registry.all()
Registry == 1..Robots

Ended == {"idle", "completed", "overtaken", "failed"}
Steps == {"list field types", "write field type", "list robots", "write robots",
          "list activities", "delete activities", "list events", "bind event"} \cup Ended

\* seen: what was listed; the field type and the event count as member 1.
Local == [step : Steps, seen : SUBSET Nat, todo : SUBSET Nat, blind : BOOLEAN]

TypeOK ==
  /\ fieldType \in BOOLEAN /\ bound \in BOOLEAN
  /\ robots \subseteq 1..Robots /\ activities \subseteq 1..Activities
  /\ run \in [Run -> Local]

\* A portal that never saw the application, or was left by an earlier version of
\* it or by a registration that failed anywhere.
Init ==
  /\ fieldType \in BOOLEAN /\ bound \in BOOLEAN
  /\ robots \in SUBSET (1..Robots) /\ activities \in SUBSET (1..Activities)
  /\ run = [r \in Run |-> [step |-> "idle", seen |-> {}, todo |-> {}, blind |-> FALSE]]

At(r, step) == run[r].step = step

Go(r, step, seen, todo) ==
  run' = [run EXCEPT ![r].step = step, ![r].seen = seen, ![r].todo = todo]

\* The answer to a call that was carried out comes, or is lost.
Answered(r, step, seen, todo) == Go(r, step, seen, todo) \/ Go(r, "failed", {}, {})

\* The list is read; one that cannot be read counts as empty.
Read(r, step, listed, todo, blind) ==
  run' = [run EXCEPT ![r] = [step |-> step, seen |-> listed, todo |-> todo,
                             blind |-> run[r].blind \/ blind]]

\* The portal refuses the call, because another run was faster, or because this
\* one has misread a list.
Refused(r) == Go(r, IF run[r].blind THEN "failed" ELSE "overtaken", {}, {})

Begin(r) ==
  /\ At(r, "idle")
  /\ Go(r, IF Buttons THEN "list field types" ELSE "list robots", {}, {})
  /\ UNCHANGED portal

\* A call fails, or the process dies: the exception ends the run.
Fail(r) ==
  /\ run[r].step \notin Ended
  /\ Go(r, "failed", {}, {})
  /\ UNCHANGED portal

(***************************************************************************)
(* ensure_workflow_field_type: the only one that fails on an unreadable    *)
(* list.                                                                   *)
(***************************************************************************)
ListFieldTypes(r) ==
  /\ At(r, "list field types")
  /\ Go(r, "write field type", IF fieldType THEN {1} ELSE {}, {})
  /\ UNCHANGED portal

WriteFieldType(r) ==
  /\ At(r, "write field type")
  /\ IF run[r].seen = {} /\ fieldType
     THEN Refused(r) /\ UNCHANGED fieldType
     ELSE Answered(r, "list robots", {}, {}) /\ fieldType' = TRUE
  /\ UNCHANGED <<robots, activities, bound>>

(***************************************************************************)
(* ensure_robots_registered.                                               *)
(***************************************************************************)

\* Mutant: the codes are taken in any order.
First_any(codes) == codes

\* The codes are taken in the order of the registry, or of sorted().
First(codes) == {n \in codes : \A m \in codes : n <= m}

ListRobots(r) ==
  /\ At(r, "list robots")
  /\ \/ Read(r, "write robots", robots, Registry, FALSE)
     \/ Read(r, "write robots", {}, Registry, TRUE)
  /\ UNCHANGED portal

\* bizproc.robot.update of what was listed, bizproc.robot.add of the others.
WriteRobot(r) ==
  /\ At(r, "write robots")
  /\ \E n \in First(run[r].todo) :
       IF n \notin run[r].seen /\ n \in robots
       THEN Refused(r) /\ UNCHANGED robots
       ELSE /\ Answered(r, "write robots", run[r].seen, run[r].todo \ {n})
            /\ robots' = robots \cup {n}
  /\ UNCHANGED <<fieldType, activities, bound>>

\* Mutant: the return statement is in the loop.
Written_early(r) == run[r].todo # Registry

Written(r) == run[r].todo = {}

RobotsDone(r) ==
  /\ At(r, "write robots") /\ Written(r)
  /\ Go(r, "list activities", {}, {})
  /\ UNCHANGED portal

(***************************************************************************)
(* ensure_activities_registered.                                           *)
(***************************************************************************)
ListActivities(r) ==
  /\ At(r, "list activities")
  /\ \/ Read(r, "delete activities", activities, activities, FALSE)
     \/ Read(r, "delete activities", {}, {}, TRUE)
  /\ UNCHANGED portal

DeleteActivity(r) ==
  /\ At(r, "delete activities")
  /\ \E n \in First(run[r].todo) :
       IF n \notin activities
       THEN Refused(r) /\ UNCHANGED activities
       ELSE /\ Answered(r, "delete activities", run[r].seen, run[r].todo \ {n})
            /\ activities' = activities \ {n}
  /\ UNCHANGED <<fieldType, robots, bound>>

ActivitiesDone(r) ==
  /\ At(r, "delete activities") /\ Written(r)
  /\ Go(r, "list events", {}, {})
  /\ UNCHANGED portal

(***************************************************************************)
(* ensure_uninstall_event_registered.                                      *)
(***************************************************************************)
ListEvents(r) ==
  /\ At(r, "list events")
  /\ \/ bound /\ Go(r, "completed", {}, {})
     \/ ~bound /\ Go(r, "bind event", {}, {})
     \/ Read(r, "bind event", {}, {}, TRUE)
  /\ UNCHANGED portal

BindEvent(r) ==
  /\ At(r, "bind event")
  /\ IF bound
     THEN Refused(r) /\ UNCHANGED bound
     ELSE Answered(r, "completed", {}, {}) /\ bound' = TRUE
  /\ UNCHANGED <<fieldType, robots, activities>>

Next ==
  \E r \in Run :
    \/ Begin(r) \/ Fail(r)
    \/ ListFieldTypes(r) \/ WriteFieldType(r)
    \/ ListRobots(r) \/ WriteRobot(r) \/ RobotsDone(r)
    \/ ListActivities(r) \/ DeleteActivity(r) \/ ActivitiesDone(r)
    \/ ListEvents(r) \/ BindEvent(r)

Spec == Init /\ [][Next]_vars

(***************************************************************************)
(* Properties.                                                             *)
(***************************************************************************)

\* When an installation has succeeded everything is registered, and the
\* duplicates are gone, whatever earlier runs left behind, concurrent runs do,
\* and however often it is repeated (docs/PROJECT.md:64).
Complete ==
  \A r \in Run : At(r, "completed") =>
    /\ Registry \subseteq robots /\ bound /\ (Buttons => fieldType)
    /\ ~run[r].blind => activities = {}

\* Runs do not block one another: when the portal serves every call and none is on,
\* one of them has completed, because a run is only overtaken by one that
\* is ahead of it.
NotAllOvertaken ==
  (\A r \in Run : run[r].step \in {"idle", "completed", "overtaken"}) =>
    \A r \in Run : At(r, "overtaken") => \E s \in Run : At(s, "completed")
=============================================================================
