--------------------------- MODULE ConnectionPool ---------------------------
(***************************************************************************)
(* The connections of one process (app/database.py).  The engine is built  *)
(* with the default pool: Capacity connections, and whoever finds them all *)
(* in use waits, at most the pool's timeout.  A session takes a connection *)
(* with its first statement and gives it back when its transaction ends or *)
(* it is closed.                                                           *)
(*                                                                         *)
(* A request has at most two sessions with a connection at a time: its own *)
(* (get_db_session), and one opened by the portal call it makes.           *)
(***************************************************************************)
EXTENDS Integers, FiniteSets

CONSTANT Capacity

ASSUME PoolAssumption == Capacity \in Nat \ {0}

VARIABLES
  main,    \* the requests whose own session holds a connection
  inner    \* the requests whose portal call holds one

pool == <<main, inner>>

InUse == Cardinality(main) + Cardinality(inner)

\* Mutant: one connection too many.
Free_overflow == InUse <= Capacity

Free == InUse < Capacity

\* Mutant: a pool without a timeout.
GivesUp_never == FALSE

\* The wait for a connection has lasted the pool's timeout.
GivesUp == ~Free

Idle == main = {} /\ inner = {}

TakeMain(r) == main' = main \cup {r} /\ UNCHANGED inner
GiveMain(r) == main' = main \ {r} /\ UNCHANGED inner
TakeInner(r) == inner' = inner \cup {r} /\ UNCHANGED main
GiveInner(r) == inner' = inner \ {r} /\ UNCHANGED main

\* Mutant: a request that fails closes its own session only.
Close_own(r) == main' = main \ {r} /\ UNCHANGED inner

\* The end of a request closes all its sessions.
Close(r) == main' = main \ {r} /\ inner' = inner \ {r}
=============================================================================
