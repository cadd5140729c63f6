------------------------------ MODULE LockedRow ------------------------------
(***************************************************************************)
(* What the database and its users promise about a portal's row, as far as *)
(* its status and its lock go: a refresh of the tokens holds the row       *)
(* exclusively, from the moment it has seen the portal active, and nobody  *)
(* else writes it meanwhile; a job that is being inserted shares it; and a *)
(* refresh never brings a portal back.                                     *)
(***************************************************************************)
EXTENDS Integers

CONSTANT Nobody

VARIABLES
  active,   \* is the portal in service?
  holder,   \* who holds the row exclusively; Nobody when it is free
  guests    \* who shares it

locked == <<active, holder, guests>>

RowInit == holder = Nobody /\ guests = {}

\* An installation: it waits for the holder only.
Install == holder = Nobody /\ active' = TRUE /\ UNCHANGED <<holder, guests>>

\* An uninstallation, or a token rejected for good.
Deactivate ==
  /\ holder = Nobody /\ guests = {}
  /\ active' = FALSE
  /\ UNCHANGED <<holder, guests>>

Lock ==
  /\ holder = Nobody /\ guests = {} /\ active
  /\ holder' # Nobody
  /\ UNCHANGED <<active, guests>>

\* The portal stays in service, or the refresh was refused; it was in service till now.
Release ==
  /\ holder # Nobody /\ active
  /\ holder' = Nobody /\ active' \in BOOLEAN
  /\ UNCHANGED guests

Share ==
  /\ holder = Nobody
  /\ guests \subseteq guests' /\ guests' # guests
  /\ UNCHANGED <<active, holder>>

\* One of them ends its transaction, or all do.
Part ==
  /\ guests' \subseteq guests /\ guests' # guests
  /\ UNCHANGED <<active, holder>>

RowNext == Install \/ Deactivate \/ Lock \/ Release \/ Share \/ Part

RowSpec == RowInit /\ [][RowNext]_locked
=============================================================================
