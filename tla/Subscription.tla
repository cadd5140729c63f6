---------------------------- MODULE Subscription ----------------------------
(***************************************************************************)
(* What the job queue promises about one subscription of a business        *)
(* process, without workers, leases, copies or time: the job is taken at   *)
(* most as often as its budget allows, the process is resumed only while   *)
(* somebody works on the job and at most once, "completed" is said only of *)
(* a resumed process, an ended job stays ended, and no job waits without   *)
(* an attempt left to be taken with.                                       *)
(***************************************************************************)
EXTENDS Integers

CONSTANT Budget   \* how often a job may be taken without being given back for free

VARIABLES
  state,   \* where the job is
  left,    \* how often it may still be taken
  result   \* what the process was resumed with; "pending" until it is

sub == <<state, left, result>>

Ended == {"completed", "failed", "expired"}

SubInit == state = "absent" /\ left = Budget /\ result = "pending"

Open == state = "absent" /\ state' = "waiting" /\ UNCHANGED <<left, result>>

Take ==
  /\ state = "waiting" /\ left > 0
  /\ state' = "working" /\ left' = left - 1
  /\ UNCHANGED result

\* The business process goes on.
Resume ==
  /\ state = "working" /\ result = "pending"
  /\ result' \in {"completed", "timeout", "error"}
  /\ UNCHANGED <<state, left>>

\* Back to the queue: a retry has used up its attempt, a poll has not.
GiveBack ==
  /\ state = "working"
  /\ state' = "waiting"
  /\ left' \in {left, left + 1} /\ left' > 0
  /\ UNCHANGED result

End ==
  /\ state = "working"
  /\ state' \in Ended
  /\ state' = "completed" => result # "pending"
  /\ UNCHANGED <<left, result>>

SubNext == Open \/ Take \/ Resume \/ GiveBack \/ End

SubSpec == SubInit /\ [][SubNext]_sub

\* An open subscription is ended sooner or later, however often it is given back.
Ends == state # "absent" ~> state \in Ended
=============================================================================
