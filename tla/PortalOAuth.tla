---------------------------- MODULE PortalOAuth ----------------------------
(***************************************************************************)
(* One portal's row of bitrix_portals and everybody who writes it: the     *)
(* portal calls of workers and of buttons (app/bitrix/oauth.py), which     *)
(* refresh the OAuth token pair under the row's lock, and the callbacks    *)
(* of installation and uninstallation (app/api/installation.py).           *)
(*                                                                         *)
(* A token pair is known by its number: pairs are numbered in the order in *)
(* which the authorization server issues them; 0 is no pair.  Access and   *)
(* refresh token are always written by one statement.                      *)
(*                                                                         *)
(* A read or a short transaction is one action, and so is an HTTP call.  A *)
(* transaction that makes an HTTP call is several actions and keeps `lock' *)
(* meanwhile: SELECT ... FOR UPDATE, and the upsert of an installation,    *)
(* wait for it; plain reads do not.                                        *)
(***************************************************************************)
EXTENDS Integers

CONSTANTS
  Caller,        \* invocations of call_portal
  Installation,  \* ONAPPINSTALL callbacks, each with a token pair of its own
  Nobody,        \* the row is not locked
  MaxPair        \* bound: pairs the authorization server issues

ASSUME PortalAssumption == Nobody \notin Caller /\ MaxPair \in Nat

VARIABLES
  portal,   \* the row: status and number of the token pair
  lock,     \* whose transaction has locked the row across an HTTP call
  call,     \* an invocation: its step, the pair whose token it works with, and
            \* how many BitrixAuthenticationErrors it has met
  event,    \* an installation callback: its step and its pair
  issued,   \* the last pair the authorization server issued
  expired,  \* the pairs that have come near their expiry
  spent,    \* the pairs whose refresh token was exchanged
  lost      \* has a pair been issued that nobody could store?

server == <<issued, expired, spent, lost>>
vars == <<portal, lock, call, event, server>>

Pair == 0..MaxPair

PortalRow == [status : {"absent", "active", "inactive", "auth_error"}, pair : Pair]
Steps == {"idle", "token", "lock", "exchange", "store", "check", "call", "mark", "done"}
Invocation == [step : Steps, held : Pair, rejections : 0..2]
Event == [step : {"idle", "calls", "done"}, pair : Pair]

TypeOK ==
  /\ portal \in PortalRow
  /\ lock \in Caller \cup {Nobody}
  /\ call \in [Caller -> Invocation]
  /\ event \in [Installation -> Event]
  /\ issued \in Pair /\ expired \subseteq Pair /\ spent \subseteq Pair
  /\ lost \in BOOLEAN

Init ==
  /\ portal = [status |-> "absent", pair |-> 0]
  /\ lock = Nobody
  /\ call = [c \in Caller |-> [step |-> "idle", held |-> 0, rejections |-> 0]]
  /\ event = [i \in Installation |-> [step |-> "idle", pair |-> 0]]
  /\ issued = 0 /\ expired = {} /\ spent = {}
  /\ lost = FALSE

Active == portal.status = "active"

\* token_expires_at is beyond the skew.
Fresh == portal.pair \notin expired

(***************************************************************************)
(* Installation and uninstallation.                                        *)
(***************************************************************************)

\* An ONAPPINSTALL callback arrives; app.info and the registration follow.
Arrive(i) ==
  /\ event[i].step = "idle" /\ issued < MaxPair
  /\ issued' = issued + 1
  /\ event' = [event EXCEPT ![i] = [step |-> "calls", pair |-> issued + 1]]
  /\ UNCHANGED <<portal, lock, call, expired, spent, lost>>

Answered(i) == event' = [event EXCEPT ![i] = [step |-> "done", pair |-> 0]]

\* The calls have succeeded: INSERT ... ON CONFLICT DO UPDATE by member_id.
Upsert(i) ==
  /\ event[i].step = "calls" /\ lock = Nobody
  /\ portal' = [status |-> "active", pair |-> event[i].pair]
  /\ Answered(i)
  /\ UNCHANGED <<lock, call, server>>

\* A call fails, or the process dies: nothing was written.
Abandon(i) ==
  /\ event[i].step = "calls"
  /\ Answered(i)
  /\ UNCHANGED <<portal, lock, call, server>>

\* ONAPPUNINSTALL with the stored application token (with another one nothing
\* changes); the row is locked to compare it.
Uninstall ==
  /\ portal.status # "absent" /\ lock = Nobody
  /\ portal' = [portal EXCEPT !.status = "inactive"]
  /\ UNCHANGED <<lock, call, event, server>>

(***************************************************************************)
(* PortalOAuthService.                                                     *)
(***************************************************************************)
Goto(c, step) == call' = [call EXCEPT ![c].step = step]

\* The next step, with the token of pair p.
With(c, step, p) == call' = [call EXCEPT ![c].step = step, ![c].held = p]

\* The invocation returns or raises.
Return(c) == call' = [call EXCEPT ![c] = [step |-> "done", held |-> 0, rejections |-> 0]]

Invoke(c) ==
  /\ call[c].step = "idle" /\ portal.status # "absent"
  /\ Goto(c, "token")
  /\ UNCHANGED <<portal, lock, event, server>>

\* get_access_token: a plain read of the row.
GetAccessToken(c) ==
  /\ call[c].step = "token"
  /\ \/ ~Active /\ Return(c)
     \/ Active /\ Fresh /\ With(c, "check", portal.pair)
     \/ Active /\ ~Fresh /\ Goto(c, "lock")
  /\ UNCHANGED <<portal, lock, event, server>>

\* Mutant: what the row says under the lock is not looked at.
Settled_never(c) == FALSE

\* Another caller has refreshed the pair while this one waited for the lock.
\* A forced refresh does not look.
Settled(c) == call[c].rejections = 0 /\ Fresh

\* Mutant: only the read before the lock asks for the status.
MayRefresh_any == TRUE

\* _require_active, under the lock.
MayRefresh == Active

\* Mutant: the row is read without FOR UPDATE.
Unlocked_always == TRUE

\* FOR UPDATE waits for the transaction that has locked the row.
Unlocked == lock = Nobody

\* refresh_access_token up to the call of the authorization server.
Lock(c) ==
  /\ call[c].step = "lock" /\ Unlocked
  /\ \/ ~MayRefresh /\ Return(c) /\ UNCHANGED lock
     \/ MayRefresh /\ Settled(c) /\ With(c, "check", portal.pair) /\ UNCHANGED lock
     \/ MayRefresh /\ ~Settled(c) /\ With(c, "exchange", portal.pair) /\ lock' = c
  /\ UNCHANGED <<portal, event, server>>

\* The server issues the successor of the pair a caller offers.
Issue(c) ==
  /\ issued < MaxPair
  /\ issued' = issued + 1
  /\ spent' = spent \cup {call[c].held}

\* The server issues nothing, or a pair that its answer does not deliver.
NoPair(c) == UNCHANGED <<issued, spent, lost>> \/ (Issue(c) /\ lost' = TRUE)

\* BitrixOAuthService.refresh: a new pair, a refusal (0 stands for it, as it does
\* for another portal's answer), or an outage, which rolls the transaction back.
Exchange(c) ==
  /\ call[c].step = "exchange"
  /\ \/ Issue(c) /\ With(c, "store", issued + 1) /\ UNCHANGED <<lock, lost>>
     \/ NoPair(c) /\ With(c, "store", 0) /\ UNCHANGED lock
     \/ NoPair(c) /\ Return(c) /\ lock' = Nobody
  /\ UNCHANGED <<portal, event, expired>>

\* The transaction commits the new pair, or auth_error.
Store(c) ==
  /\ call[c].step = "store"
  /\ lock' = Nobody
  /\ \/ /\ call[c].held # 0
        /\ portal' = [status |-> "active", pair |-> call[c].held]
        /\ Goto(c, "check")
     \/ /\ call[c].held = 0
        /\ portal' = [portal EXCEPT !.status = "auth_error"]
        /\ Return(c)
  /\ UNCHANGED <<event, server>>

\* _call_once reads the row again, for the endpoint, before it calls.
Check(c) ==
  /\ call[c].step = "check"
  /\ IF Active THEN Goto(c, "call") ELSE Return(c)
  /\ UNCHANGED <<portal, lock, event, server>>

\* Mutant: every rejection refreshes and tries again.
AfterRejection_again(n) == "lock"

\* call_portal: the first rejection forces a refresh, the second ends the call.
AfterRejection(n) == IF n = 0 THEN "lock" ELSE "mark"

\* The REST call with the token in hand; only a rejected token is retried.
Call(c) ==
  /\ call[c].step = "call"
  /\ \/ Return(c)
     \/ call' = [call EXCEPT ![c].step = AfterRejection(call[c].rejections),
                             ![c].rejections = @ + 1]
  /\ UNCHANGED <<portal, lock, event, server>>

\* _mark_auth_error: whatever the row says by now.
MarkAuthError(c) ==
  /\ call[c].step = "mark" /\ Unlocked
  /\ portal' = [portal EXCEPT !.status = "auth_error"]
  /\ Return(c)
  /\ UNCHANGED <<lock, event, server>>

\* Mutant: the lock outlives the process.
Freed_never(c) == lock

\* The database rolls the transaction of a dead process back and frees the row.
Freed(c) == IF lock = c THEN Nobody ELSE lock

\* The caller's process dies, or the database fails it: a pair in hand is lost.
Crash(c) ==
  /\ call[c].step \notin {"idle", "done"}
  /\ Return(c)
  /\ lock' = Freed(c)
  /\ lost' = (lost \/ (call[c].step = "store" /\ call[c].held # 0))
  /\ UNCHANGED <<portal, event, issued, expired, spent>>

\* The clock: the stored pair comes near its expiry.
Expire ==
  /\ portal.pair # 0 /\ Fresh
  /\ expired' = expired \cup {portal.pair}
  /\ UNCHANGED <<portal, lock, call, event, issued, spent, lost>>

CallerStep(c) ==
  \/ GetAccessToken(c) \/ Lock(c) \/ Exchange(c) \/ Store(c)
  \/ Check(c) \/ Call(c) \/ MarkAuthError(c)

Next ==
  \/ \E c \in Caller : Invoke(c) \/ CallerStep(c) \/ Crash(c)
  \/ \E i \in Installation : Arrive(i) \/ Upsert(i) \/ Abandon(i)
  \/ Uninstall \/ Expire

Spec == Init /\ [][Next]_vars

\* Every await of a caller ends: HTTP calls and the pool have timeouts, and the
\* database grants a free row to one of those who wait for it.
FairSpec == Spec /\ \A c \in Caller : WF_vars(CallerStep(c))

(***************************************************************************)
(* Properties.                                                             *)
(***************************************************************************)

\* The stored refresh token is one the server has not exchanged yet, whatever
\* callers, installations and uninstallations do at a time, unless an answer of
\* the server was lost (test_concurrent_refresh_uses_one_new_pair).
StoredPairUsable == lock = Nobody /\ ~lost => portal.pair \notin spent

\* Callers who find one token near its expiry refresh it once: a pair that is not
\* near its expiry is only exchanged by a forced refresh.
OneRefreshPerExpiry ==
  [][\A p \in spent' \ spent :
       p \in expired \/ \E c \in Caller : call[c].held = p /\ call[c].rejections > 0]_vars

\* A portal that is uninstalled or in auth_error comes back by an installation
\* only (docs/OPERATIONS.md:163-165): no refresh in flight revives it.
OnlyInstallationRevives ==
  [][portal.status # "active" /\ portal'.status = "active" =>
       \E i \in Installation :
         event[i].step = "calls" /\ portal'.pair = event[i].pair]_vars

\* The row keeps the promise of LockedRow: from the moment a refresh has seen the portal
\* active under the lock until it commits, rolls back or dies, nobody writes the status
\* it relies on (refresh_access_token, oauth.py:259-310).
Locked == INSTANCE LockedRow WITH active <- Active, holder <- lock, guests <- {}

KeepsLock == Locked!RowSpec

\* How far an invocation has come: a rejection starts the way again, one floor up.
Rank(q) ==
  8 * q.rejections +
    CASE q.step = "idle" -> 0 [] q.step = "token" -> 1 [] q.step = "lock" -> 2
      [] q.step = "exchange" -> 3 [] q.step = "store" -> 4 [] q.step = "check" -> 5
      [] q.step = "call" -> 6 [] q.step = "mark" -> 7 [] q.step = "done" -> 24

\* No invocation turns in circles, whatever the other callers, the server and the
\* portal do to it: it asks the authorization server and the portal twice at most
\* (call_portal, oauth.py:312-325).
CallsGetOn ==
  [][\A c \in Caller :
       call'[c] # call[c] => Rank(call[c]) < Rank(call'[c]) /\ Rank(call'[c]) <= 24]_vars

\* Every call of the portal ends, also for those who wait for the lock of a
\* caller that dies.
EveryCallEnds == \A c \in Caller : call[c].step # "idle" ~> call[c].step = "done"

(***************************************************************************)
(* What the documentation says and the code does not keep.                 *)
(***************************************************************************)

\* docs/PROJECT.md:72-73: auth_error means that the refresh was refused or the
\* refreshed token rejected; the token rejected is then the one the row holds.
AuthErrorIsDeserved ==
  [][\A c \in Caller :
       call[c].step = "mark" /\ call'[c].step = "done" /\ portal' # portal
         => call[c].held = portal.pair]_vars
=============================================================================
