------------------------------ MODULE DealGate ------------------------------
(***************************************************************************)
(* What a workflow button promises about one deal, without requests,       *)
(* clocks or an administrator: the presses go through a gate one at a      *)
(* time, each once, and each starts its workflow at most once and only     *)
(* while it is the one inside.                                             *)
(***************************************************************************)
EXTENDS Integers

CONSTANT Press   \* the presses of the button

VARIABLES
  inside,   \* the press whose workflow may be running: none or one
  used,     \* the presses that have been inside
  starts    \* the workflows each has started

gate == <<inside, used, starts>>

GateInit == inside = {} /\ used = {} /\ starts = [k \in Press |-> 0]

Enter(k) ==
  /\ inside = {} /\ k \notin used
  /\ inside' = {k} /\ used' = used \cup {k}
  /\ UNCHANGED starts

Start(k) ==
  /\ k \in inside /\ starts[k] = 0
  /\ starts' = [starts EXCEPT ![k] = 1]
  /\ UNCHANGED <<inside, used>>

\* It is resolved: known to have started, or released.
Leave ==
  /\ inside # {} /\ inside' = {}
  /\ UNCHANGED <<used, starts>>

GateNext == Leave \/ \E k \in Press : Enter(k) \/ Start(k)

GateSpec == GateInit /\ [][GateNext]_gate
=============================================================================
