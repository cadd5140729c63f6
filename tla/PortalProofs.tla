---------------------------- MODULE PortalProofs ----------------------------
(***************************************************************************)
(* Theorems about a portal's row for any number of callers, installations  *)
(* and token pairs.                                                        *)
(***************************************************************************)
EXTENDS PortalOAuth, TLAPS

-----------------------------------------------------------------------------
(* What a step of one invocation does to the others: nothing. *)

Alone(c) == \A d \in Caller \ {c} : call'[d] = call[d]

LEMMA GotoCall ==
  ASSUME call \in [Caller -> Invocation], NEW c \in Caller, NEW s \in Steps, Goto(c, s)
  PROVE  /\ call' \in [Caller -> Invocation] /\ Alone(c)
         /\ call'[c].step = s /\ call'[c].held = call[c].held
         /\ call'[c].rejections = call[c].rejections
BY DEF Goto, Invocation, Alone

LEMMA WithCall ==
  ASSUME call \in [Caller -> Invocation], NEW c \in Caller, NEW s \in Steps,
         NEW p \in Pair, With(c, s, p)
  PROVE  /\ call' \in [Caller -> Invocation] /\ Alone(c)
         /\ call'[c].step = s /\ call'[c].held = p
         /\ call'[c].rejections = call[c].rejections
BY DEF With, Invocation, Alone

LEMMA ReturnCall ==
  ASSUME call \in [Caller -> Invocation], NEW c \in Caller, Return(c)
  PROVE  /\ call' \in [Caller -> Invocation] /\ Alone(c)
         /\ call'[c].step = "done" /\ call'[c].held = 0 /\ call'[c].rejections = 0
<1>1. 0 \in Pair
  BY PortalAssumption DEF Pair
<1> QED
  BY <1>1 DEF Return, Invocation, Steps, Alone

LEMMA AnsweredEvent ==
  ASSUME event \in [Installation -> Event], NEW i \in Installation, Answered(i)
  PROVE  /\ event' \in [Installation -> Event]
         /\ event'[i] = [step |-> "done", pair |-> 0]
         /\ \A k \in Installation \ {i} : event'[k] = event[k]
<1>1. 0 \in Pair
  BY PortalAssumption DEF Pair
<1> QED
  BY <1>1 DEF Answered, Event

-----------------------------------------------------------------------------
(* Types. *)

LEMMA InitType == Init => TypeOK
<1> SUFFICES ASSUME Init PROVE TypeOK
  OBVIOUS
<1>1. 0 \in Pair
  BY PortalAssumption DEF Pair
<1>2. "idle" \in Steps
  BY DEF Steps
<1>3. portal \in PortalRow
  BY <1>1 DEF Init, PortalRow
<1>4. call \in [Caller -> Invocation]
  BY <1>1, <1>2 DEF Init, Invocation
<1>5. event \in [Installation -> Event]
  BY <1>1 DEF Init, Event
<1> QED
  BY <1>1, <1>3, <1>4, <1>5 DEF Init, TypeOK

LEMMA IssueType ==
  ASSUME TypeOK, NEW c \in Caller, Issue(c)
  PROVE  issued' \in Pair /\ spent' \subseteq Pair /\ issued + 1 \in Pair
<1>1. issued \in Nat /\ issued < MaxPair /\ call[c].held \in Pair
  BY DEF Issue, TypeOK, Pair, Invocation
<1>2. issued + 1 \in Pair
  BY <1>1, PortalAssumption DEF Pair
<1> QED
  BY <1>1, <1>2 DEF Issue, TypeOK

\* Call ends the invocation at its second rejection.
Counted == \A c \in Caller : call[c].step # "mark" => call[c].rejections <= 1

TypeInv == TypeOK /\ Counted

LEMMA NextType == TypeInv /\ [Next]_vars => TypeInv'
<1> SUFFICES ASSUME TypeInv, [Next]_vars PROVE TypeInv'
  OBVIOUS
<1> USE DEF TypeInv
<1>0. 0 \in Pair /\ portal.pair \in Pair /\ portal \in PortalRow
  BY PortalAssumption DEF Pair, TypeOK, PortalRow
<1>s. /\ "token" \in Steps /\ "check" \in Steps /\ "lock" \in Steps /\ "exchange" \in Steps
      /\ "store" \in Steps /\ "call" \in Steps /\ "mark" \in Steps
  BY DEF Steps
<1>1. ASSUME NEW c \in Caller, Invoke(c) PROVE TypeInv'
  BY <1>1, <1>s, GotoCall DEF Invoke, TypeOK, Counted, Alone, server
<1>2. ASSUME NEW c \in Caller, GetAccessToken(c) PROVE TypeInv'
  <2>1. CASE Return(c)
    BY <1>2, <2>1, ReturnCall DEF GetAccessToken, TypeOK, Counted, Alone, server
  <2>2. CASE With(c, "check", portal.pair)
    BY <1>0, <1>s, <1>2, <2>2, WithCall DEF GetAccessToken, TypeOK, Counted, Alone, server
  <2>3. CASE Goto(c, "lock")
    BY <1>s, <1>2, <2>3, GotoCall DEF GetAccessToken, TypeOK, Counted, Alone, server
  <2> QED
    BY <1>2, <2>1, <2>2, <2>3 DEF GetAccessToken
<1>3. ASSUME NEW c \in Caller, Lock(c) PROVE TypeInv'
  <2>1. CASE Return(c) /\ UNCHANGED lock
    BY <1>3, <2>1, ReturnCall DEF Lock, TypeOK, Counted, Alone, server
  <2>2. CASE With(c, "check", portal.pair) /\ UNCHANGED lock
    BY <1>0, <1>s, <1>3, <2>2, WithCall DEF Lock, TypeOK, Counted, Alone, server
  <2>3. CASE With(c, "exchange", portal.pair) /\ lock' = c
    BY <1>0, <1>s, <1>3, <2>3, WithCall DEF Lock, TypeOK, Counted, Alone, server
  <2> QED
    BY <1>3, <2>1, <2>2, <2>3 DEF Lock
<1>4. ASSUME NEW c \in Caller, Exchange(c) PROVE TypeInv'
  <2>1. CASE Issue(c) /\ With(c, "store", issued + 1) /\ UNCHANGED <<lock, lost>>
    BY <1>s, <1>4, <2>1, IssueType, WithCall DEF Exchange, TypeOK, Counted, Alone
  <2>2. ASSUME NoPair(c)
        PROVE  issued' \in Pair /\ spent' \subseteq Pair /\ lost' \in BOOLEAN
    BY <2>2, IssueType DEF NoPair, TypeOK
  <2>3. CASE NoPair(c) /\ With(c, "store", 0) /\ UNCHANGED lock
    BY <1>0, <1>s, <1>4, <2>2, <2>3, WithCall DEF Exchange, TypeOK, Counted, Alone
  <2>4. CASE NoPair(c) /\ Return(c) /\ lock' = Nobody
    BY <1>4, <2>2, <2>4, ReturnCall DEF Exchange, TypeOK, Counted, Alone
  <2> QED
    BY <1>4, <2>1, <2>3, <2>4 DEF Exchange
<1>5. ASSUME NEW c \in Caller, Store(c) PROVE TypeInv'
  <2>1. call[c].held \in Pair
    BY DEF TypeOK, Invocation
  <2>2. CASE call[c].held # 0
    <3>1. portal' \in PortalRow
      BY <1>5, <2>1, <2>2 DEF Store, PortalRow
    <3> QED
      BY <1>s, <1>5, <2>2, <3>1, GotoCall DEF Store, TypeOK, Counted, Alone, server
  <2>3. CASE call[c].held = 0
    <3>1. portal' \in PortalRow
      BY <1>0, <1>5, <2>3 DEF Store, PortalRow
    <3> QED
      BY <1>5, <2>3, <3>1, ReturnCall DEF Store, TypeOK, Counted, Alone, server
  <2> QED
    BY <2>2, <2>3
<1>6. ASSUME NEW c \in Caller, Check(c) PROVE TypeInv'
  <2>1. CASE Active
    BY <1>s, <1>6, <2>1, GotoCall DEF Check, TypeOK, Counted, Alone, server
  <2>2. CASE ~Active
    BY <1>6, <2>2, ReturnCall DEF Check, TypeOK, Counted, Alone, server
  <2> QED
    BY <2>1, <2>2
<1>7. ASSUME NEW c \in Caller, Call(c) PROVE TypeInv'
  <2>1. CASE Return(c)
    BY <1>7, <2>1, ReturnCall DEF Call, TypeOK, Counted, Alone, server
  <2>2. CASE ~Return(c)
    <3> DEFINE n == call[c].rejections
               step == AfterRejection(n)
    <3>1. n \in 0..1
      <4>1. n \in 0..2 /\ n <= 1
        BY <1>7 DEF Call, TypeOK, Invocation, Counted
      <4> QED
        BY <4>1
    <3>2. n + 1 \in 0..2 /\ step \in Steps /\ (step # "mark" => n + 1 <= 1)
      BY <1>s, <3>1 DEF AfterRejection
    <3>3. call' = [call EXCEPT ![c].step = step, ![c].rejections = n + 1]
      BY <1>7, <2>2 DEF Call
    <3> HIDE DEF n, step
    <3>4. /\ call' \in [Caller -> Invocation] /\ Alone(c)
          /\ call'[c].step = step /\ call'[c].rejections = n + 1
      BY <3>2, <3>3 DEF TypeOK, Invocation, Alone
    <3> QED
      BY <1>7, <3>2, <3>4 DEF Call, TypeOK, Counted, Alone, server
  <2> QED
    BY <2>1, <2>2
<1>8. ASSUME NEW c \in Caller, MarkAuthError(c) PROVE TypeInv'
  <2>1. portal' \in PortalRow
    BY <1>0, <1>8 DEF MarkAuthError, PortalRow
  <2> QED
    BY <1>8, <2>1, ReturnCall DEF MarkAuthError, TypeOK, Counted, Alone, server
<1>9. ASSUME NEW c \in Caller, Crash(c) PROVE TypeInv'
  BY <1>9, ReturnCall DEF Crash, Freed, TypeOK, Counted, Alone
<1>10. ASSUME NEW i \in Installation, Arrive(i) PROVE TypeInv'
  <2>1. issued + 1 \in Pair
    <3>1. issued \in Nat /\ issued < MaxPair
      BY <1>10 DEF Arrive, TypeOK, Pair
    <3> QED
      BY <3>1, PortalAssumption DEF Pair
  <2>2. event' \in [Installation -> Event]
    BY <1>10, <2>1 DEF Arrive, TypeOK, Event
  <2> QED
    BY <1>10, <2>1, <2>2 DEF Arrive, TypeOK, Counted
<1>11. ASSUME NEW i \in Installation, Upsert(i) PROVE TypeInv'
  <2>1. portal' \in PortalRow
    BY <1>11 DEF Upsert, TypeOK, Event, PortalRow
  <2> QED
    BY <1>11, <2>1, AnsweredEvent DEF Upsert, TypeOK, Counted, server
<1>12. ASSUME NEW i \in Installation, Abandon(i) PROVE TypeInv'
  BY <1>12, AnsweredEvent DEF Abandon, TypeOK, Counted, server
<1>13. ASSUME Uninstall PROVE TypeInv'
  <2>1. portal' \in PortalRow
    BY <1>0, <1>13 DEF Uninstall, PortalRow
  <2> QED
    BY <1>13, <2>1 DEF Uninstall, TypeOK, Counted, server
<1>14. ASSUME Expire PROVE TypeInv'
  BY <1>0, <1>14 DEF Expire, TypeOK, Counted
<1>15. ASSUME UNCHANGED vars PROVE TypeInv'
  BY <1>15 DEF vars, server, TypeOK, Counted
<1> QED
  BY <1>1, <1>2, <1>3, <1>4, <1>5, <1>6, <1>7, <1>8, <1>9, <1>10, <1>11, <1>12,
     <1>13, <1>14, <1>15 DEF Next, CallerStep

\* The row and the callers stay well typed; no invocation meets a third rejection.
THEOREM TypeCorrect == Spec => []TypeOK
<1>1. Init => TypeInv
  BY InitType DEF Init, TypeInv, Counted
<1>2. TypeInv => TypeOK
  BY DEF TypeInv
<1> QED
  BY <1>1, <1>2, NextType, PTL DEF Spec

-----------------------------------------------------------------------------
(* Token pairs. *)

\* The row is locked by the caller that is exchanging or storing, and by nobody else.
LockHeld == \A c \in Caller : lock = c <=> call[c].step \in {"exchange", "store"}

\* Nobody writes a locked row: its status is still the one read under the lock.
ActiveWhileLocked == lock # Nobody => Active

\* What is exchanged is what the row holds, for one of two reasons.
ExchangesStored ==
  \A c \in Caller : call[c].step = "exchange" =>
    /\ call[c].held = portal.pair
    /\ call[c].rejections > 0 \/ call[c].held \in expired

Received(c) == call[c].step = "store" /\ call[c].held # 0

Arriving(i) == event[i].step = "calls"

\* The next number is new.
Numbered ==
  /\ portal.pair <= issued /\ \A p \in spent : p <= issued
  /\ \A i \in Installation : Arriving(i) => event[i].pair <= issued
  /\ \A c \in Caller : Received(c) => call[c].held <= issued

\* Every pair that waits to be stored is unused, and waits in one place only.
Waiting ==
  /\ \A i \in Installation : Arriving(i) => event[i].pair \notin spent /\ event[i].pair # portal.pair
  /\ \A i, k \in Installation : Arriving(i) /\ Arriving(k) /\ i # k => event[i].pair # event[k].pair
  /\ \A c \in Caller : Received(c) =>
       call[c].held \notin spent /\ \A i \in Installation : Arriving(i) => call[c].held # event[i].pair

\* The stored pair is unused, unless its successor is in a caller's hands or lost.
Usable == (~lost /\ \A c \in Caller : ~Received(c)) => portal.pair \notin spent

PairInv == LockHeld /\ ActiveWhileLocked /\ ExchangesStored /\ Numbered /\ Waiting /\ Usable

LEMMA InitPair == Init => PairInv
<1> SUFFICES ASSUME Init PROVE PairInv
  OBVIOUS
<1> USE PortalAssumption DEF Init
<1>1. LockHeld /\ ActiveWhileLocked /\ ExchangesStored
  BY DEF LockHeld, ActiveWhileLocked, ExchangesStored
<1>2. Numbered /\ Waiting /\ Usable
  BY DEF Numbered, Waiting, Usable, Received, Arriving
<1> QED
  BY <1>1, <1>2 DEF PairInv

\* A step of one invocation outside the lock that leaves row, lock and server alone.
LEMMA QuietPair ==
  ASSUME PairInv, NEW c \in Caller, Alone(c), UNCHANGED <<portal, lock, event, server>>,
         call[c].step \notin {"exchange", "store"}, call'[c].step \notin {"exchange", "store"}
  PROVE  PairInv'
<1>1. LockHeld' /\ ActiveWhileLocked' /\ ExchangesStored'
  BY DEF PairInv, LockHeld, ActiveWhileLocked, Active, ExchangesStored, Alone, server
<1>2. \A d \in Caller : Received(d)' <=> Received(d)
  BY DEF Received, Alone
<1>3. \A d \in Caller : Received(d) => call'[d] = call[d]
  BY DEF Received, Alone
<1>4. Numbered' /\ Waiting' /\ Usable'
  BY <1>2, <1>3 DEF PairInv, Numbered, Waiting, Usable, Arriving, server
<1> QED
  BY <1>1, <1>4 DEF PairInv

LEMMA NextPair == TypeInv /\ PairInv /\ [Next]_vars => PairInv'
<1> SUFFICES ASSUME TypeInv, PairInv, [Next]_vars PROVE PairInv'
  OBVIOUS
<1> USE DEF TypeInv
<1>0. /\ 0 \in Pair /\ portal.pair \in Pair /\ issued \in Nat
      /\ \A c \in Caller : call[c].held \in Nat /\ call[c].held \in Pair
      /\ \A i \in Installation : event[i].pair \in Nat
      /\ \A p \in spent : p \in Nat
      /\ portal.pair \in Nat
      /\ call \in [Caller -> Invocation]
  BY PortalAssumption DEF Pair, TypeOK, PortalRow, Invocation, Event
<1>s. /\ "token" \in Steps /\ "check" \in Steps /\ "lock" \in Steps /\ "exchange" \in Steps
      /\ "store" \in Steps /\ "call" \in Steps /\ "mark" \in Steps
  BY DEF Steps
<1>l. \A c, d \in Caller : (c # d /\ call[c].step \in {"exchange", "store"}) =>
        call[d].step \notin {"exchange", "store"}
  BY DEF PairInv, LockHeld
<1>u. lock = Nobody => \A c \in Caller : call[c].step \notin {"exchange", "store"}
  BY PortalAssumption DEF PairInv, LockHeld
<1>1. ASSUME NEW c \in Caller, Invoke(c) PROVE PairInv'
  BY <1>0, <1>1, <1>s, GotoCall, QuietPair DEF Invoke
<1>2. ASSUME NEW c \in Caller, GetAccessToken(c) PROVE PairInv'
  <2>1. CASE Return(c)
    BY <1>0, <1>2, <2>1, ReturnCall, QuietPair DEF GetAccessToken
  <2>2. CASE With(c, "check", portal.pair)
    BY <1>0, <1>s, <1>2, <2>2, WithCall, QuietPair DEF GetAccessToken
  <2>3. CASE Goto(c, "lock")
    BY <1>0, <1>s, <1>2, <2>3, GotoCall, QuietPair DEF GetAccessToken
  <2> QED
    BY <1>2, <2>1, <2>2, <2>3 DEF GetAccessToken
<1>3. ASSUME NEW c \in Caller, Lock(c) PROVE PairInv'
  <2>1. CASE Return(c) /\ UNCHANGED lock
    BY <1>0, <1>3, <2>1, ReturnCall, QuietPair DEF Lock
  <2>2. CASE With(c, "check", portal.pair) /\ UNCHANGED lock
    BY <1>0, <1>s, <1>3, <2>2, WithCall, QuietPair DEF Lock
  <2>3. CASE MayRefresh /\ ~Settled(c) /\ With(c, "exchange", portal.pair) /\ lock' = c
    <3>1. /\ Alone(c) /\ call'[c].step = "exchange" /\ call'[c].held = portal.pair
          /\ call'[c].rejections = call[c].rejections
      BY <1>0, <1>s, <2>3, WithCall
    <3>2. UNCHANGED <<portal, event, server>> /\ lock = Nobody /\ Active
      BY <1>3, <2>3 DEF Lock, Unlocked, MayRefresh
    <3>3. LockHeld' /\ ActiveWhileLocked'
      BY <1>u, <2>3, <3>1, <3>2 DEF LockHeld, ActiveWhileLocked, Active, Alone
    <3>4. call[c].rejections > 0 \/ portal.pair \in expired
      <4>1. call[c].rejections \in 0..2
        BY DEF TypeOK, Invocation
      <4> QED
        BY <2>3, <4>1 DEF Settled, Fresh
    <3>5. ExchangesStored'
      BY <1>u, <3>1, <3>2, <3>4 DEF ExchangesStored, Alone, server
    <3>6. \A d \in Caller : ~Received(d)' /\ ~Received(d)
      BY <1>u, <3>1, <3>2 DEF Received, Alone
    <3>7. Numbered' /\ Waiting' /\ Usable'
      BY <3>2, <3>6 DEF PairInv, Numbered, Waiting, Usable, Arriving, server
    <3> QED
      BY <3>3, <3>5, <3>7 DEF PairInv
  <2> QED
    BY <1>3, <2>1, <2>2, <2>3 DEF Lock
<1>4. ASSUME NEW c \in Caller, Exchange(c) PROVE PairInv'
  <2>1. /\ call[c].step = "exchange" /\ call[c].held = portal.pair /\ lock = c
        /\ \A d \in Caller : ~Received(d)
        /\ UNCHANGED <<portal, event, expired>> /\ Active
    BY <1>4, <1>l, PortalAssumption
       DEF Exchange, PairInv, LockHeld, ExchangesStored, ActiveWhileLocked, Received
  <2>2. CASE Issue(c) /\ With(c, "store", issued + 1) /\ UNCHANGED <<lock, lost>>
    <3>1. /\ Alone(c) /\ call'[c].step = "store" /\ call'[c].held = issued + 1
          /\ issued' = issued + 1 /\ spent' = spent \cup {portal.pair} /\ UNCHANGED lock
      BY <1>0, <1>s, <2>1, <2>2, WithCall, IssueType DEF Issue
    <3>2. LockHeld' /\ ActiveWhileLocked' /\ ExchangesStored'
      BY <1>l, <2>1, <3>1
         DEF PairInv, LockHeld, ActiveWhileLocked, Active, ExchangesStored, Alone
    <3>3. Received(c)' /\ \A d \in Caller \ {c} : ~Received(d)'
      BY <1>0, <2>1, <3>1 DEF Received, Alone
    <3>4. Numbered'
      BY <1>0, <2>1, <3>1, <3>3 DEF PairInv, Numbered, Arriving
    <3>5. Waiting'
      BY <1>0, <2>1, <3>1, <3>3 DEF PairInv, Numbered, Waiting, Arriving
    <3>6. Usable'
      BY <3>3 DEF Usable
    <3> QED
      BY <3>2, <3>4, <3>5, <3>6 DEF PairInv
  <2>3. ASSUME NoPair(c), Alone(c), \A d \in Caller : ~Received(d)'
        PROVE  Numbered' /\ Waiting' /\ Usable'
    <3>1. CASE UNCHANGED <<issued, spent, lost>>
      BY <2>1, <2>3, <3>1 DEF PairInv, Numbered, Waiting, Usable, Arriving
    <3>2. CASE Issue(c) /\ lost' = TRUE
      <4>1. issued' = issued + 1 /\ spent' = spent \cup {portal.pair}
        BY <2>1, <3>2 DEF Issue
      <4> QED
        BY <1>0, <2>1, <2>3, <3>2, <4>1 DEF PairInv, Numbered, Waiting, Usable, Arriving
    <3> QED
      BY <2>3, <3>1, <3>2 DEF NoPair
  <2>4. CASE NoPair(c) /\ With(c, "store", 0) /\ UNCHANGED lock
    <3>1. Alone(c) /\ call'[c].step = "store" /\ call'[c].held = 0
      BY <1>0, <1>s, <2>4, WithCall
    <3>2. LockHeld' /\ ActiveWhileLocked' /\ ExchangesStored'
      BY <1>l, <2>1, <2>4, <3>1
         DEF PairInv, LockHeld, ActiveWhileLocked, Active, ExchangesStored, Alone
    <3>3. \A d \in Caller : ~Received(d)'
      BY <2>1, <3>1 DEF Received, Alone
    <3> QED
      BY <2>3, <2>4, <3>1, <3>2, <3>3 DEF PairInv
  <2>5. CASE NoPair(c) /\ Return(c) /\ lock' = Nobody
    <3>1. Alone(c) /\ call'[c].step = "done"
      BY <1>0, <2>5, ReturnCall
    <3>2. LockHeld' /\ ActiveWhileLocked' /\ ExchangesStored'
      BY <1>l, <2>1, <2>5, <3>1, PortalAssumption
         DEF PairInv, LockHeld, ActiveWhileLocked, ExchangesStored, Alone
    <3>3. \A d \in Caller : ~Received(d)'
      BY <2>1, <3>1 DEF Received, Alone
    <3> QED
      BY <2>3, <2>5, <3>1, <3>2, <3>3 DEF PairInv
  <2> QED
    BY <1>4, <2>2, <2>4, <2>5 DEF Exchange
<1>5. ASSUME NEW c \in Caller, Store(c) PROVE PairInv'
  <2>1. /\ call[c].step = "store" /\ lock = c /\ lock' = Nobody /\ UNCHANGED <<event, server>>
        /\ \A d \in Caller \ {c} : ~Received(d)
    BY <1>5, <1>l DEF Store, PairInv, LockHeld, Received
  <2>2. ASSUME Alone(c), call'[c].step \notin {"exchange", "store"}
        PROVE  /\ LockHeld' /\ ActiveWhileLocked' /\ ExchangesStored'
               /\ \A d \in Caller : ~Received(d)'
    BY <1>l, <2>1, <2>2, PortalAssumption
       DEF LockHeld, ActiveWhileLocked, ExchangesStored, Received, Alone
  <2>3. CASE call[c].held # 0
    <3>1. /\ portal'.pair = call[c].held /\ Goto(c, "check") /\ Received(c)
      BY <1>5, <2>1, <2>3 DEF Store, Received
    <3>2. Alone(c) /\ call'[c].step = "check"
      BY <1>0, <1>s, <3>1, GotoCall
    <3>3. Numbered' /\ Waiting' /\ Usable'
      BY <2>1, <2>2, <3>1, <3>2 DEF PairInv, Numbered, Waiting, Usable, Arriving, server
    <3> QED
      BY <2>2, <3>2, <3>3 DEF PairInv
  <2>4. CASE call[c].held = 0
    <3>1. portal'.pair = portal.pair /\ Return(c) /\ ~Received(c)
      BY <1>5, <2>4 DEF Store, Received, TypeOK, PortalRow
    <3>2. Alone(c) /\ call'[c].step = "done"
      BY <1>0, <3>1, ReturnCall
    <3>3. Numbered' /\ Waiting' /\ Usable'
      BY <2>1, <2>2, <3>1, <3>2 DEF PairInv, Numbered, Waiting, Usable, Arriving, server
    <3> QED
      BY <2>2, <3>2, <3>3 DEF PairInv
  <2> QED
    BY <2>3, <2>4
<1>6. ASSUME NEW c \in Caller, Check(c) PROVE PairInv'
  <2>1. CASE Active
    BY <1>0, <1>s, <1>6, <2>1, GotoCall, QuietPair DEF Check
  <2>2. CASE ~Active
    BY <1>0, <1>6, <2>2, ReturnCall, QuietPair DEF Check
  <2> QED
    BY <2>1, <2>2
<1>7. ASSUME NEW c \in Caller, Call(c) PROVE PairInv'
  <2>1. CASE Return(c)
    BY <1>0, <1>7, <2>1, ReturnCall, QuietPair DEF Call
  <2>2. CASE ~Return(c)
    <3> DEFINE step == AfterRejection(call[c].rejections)
    <3>1. call' = [call EXCEPT ![c].step = step,
                               ![c].rejections = call[c].rejections + 1]
      BY <1>7, <2>2 DEF Call
    <3>2. step \in {"lock", "mark"}
      BY DEF AfterRejection
    <3> HIDE DEF step
    <3>3. Alone(c) /\ call'[c].step = step
      BY <1>0, <3>1 DEF Alone, Invocation
    <3> QED
      BY <1>7, <3>2, <3>3, QuietPair DEF Call
  <2> QED
    BY <2>1, <2>2
<1>8. ASSUME PairInv, lock = Nobody, lock' = Nobody, UNCHANGED <<event, server>>,
             portal'.pair = portal.pair,
             \A d \in Caller : call'[d].step \in {"exchange", "store"} =>
               call[d].step \in {"exchange", "store"}
      PROVE  PairInv'
  <2>1. LockHeld' /\ ActiveWhileLocked' /\ ExchangesStored'
    BY <1>8, <1>u, PortalAssumption DEF LockHeld, ActiveWhileLocked, ExchangesStored
  <2>2. \A d \in Caller : ~Received(d)' /\ ~Received(d)
    BY <1>8, <1>u DEF Received
  <2>3. Numbered' /\ Waiting' /\ Usable'
    BY <1>8, <2>2 DEF PairInv, Numbered, Waiting, Usable, Arriving, server
  <2> QED
    BY <2>1, <2>3 DEF PairInv
<1>9. ASSUME NEW c \in Caller, MarkAuthError(c) PROVE PairInv'
  <2>1. portal'.pair = portal.pair /\ lock = Nobody /\ UNCHANGED <<lock, event, server>>
    BY <1>9 DEF MarkAuthError, Unlocked, TypeOK, PortalRow
  <2>2. Alone(c) /\ call'[c].step = "done"
    BY <1>0, <1>9, ReturnCall DEF MarkAuthError
  <2> QED
    BY <1>8, <2>1, <2>2 DEF Alone
<1>10. ASSUME NEW c \in Caller, Crash(c) PROVE PairInv'
  <2>1. Alone(c) /\ call'[c].step = "done"
    BY <1>0, <1>10, ReturnCall DEF Crash
  <2>2. UNCHANGED <<portal, event, issued, expired, spent>>
    BY <1>10 DEF Crash
  <2>3. LockHeld'
    BY <1>10, <2>1, PortalAssumption DEF PairInv, LockHeld, Crash, Freed, Alone
  <2>4. ActiveWhileLocked' /\ ExchangesStored'
    BY <1>10, <2>1, <2>2
       DEF PairInv, ActiveWhileLocked, Active, ExchangesStored, Crash, Freed, Alone
  <2>5. /\ ~Received(c)' /\ \A d \in Caller \ {c} : (Received(d)' <=> Received(d)) /\ call'[d] = call[d]
    BY <2>1 DEF Received, Alone
  <2>6. Numbered' /\ Waiting'
    BY <2>2, <2>5 DEF PairInv, Numbered, Waiting, Arriving
  <2>7. Usable'
    <3>1. ~lost' => ~lost /\ ~Received(c)
      BY <1>10 DEF Crash, Received
    <3> QED
      BY <2>2, <2>5, <3>1 DEF PairInv, Usable
  <2> QED
    BY <2>3, <2>4, <2>6, <2>7 DEF PairInv
<1>11. ASSUME UNCHANGED <<call, lock, spent, lost, expired>>, portal'.status = portal.status,
              portal'.pair = portal.pair
       PROVE  LockHeld' /\ ActiveWhileLocked' /\ ExchangesStored' /\ Usable'
  BY <1>11 DEF PairInv, LockHeld, ActiveWhileLocked, Active, ExchangesStored, Usable, Received
<1>12. ASSUME NEW i \in Installation, Arrive(i) PROVE PairInv'
  <2>1. /\ UNCHANGED <<portal, lock, call, expired, spent, lost>> /\ issued' = issued + 1
        /\ event'[i] = [step |-> "calls", pair |-> issued + 1]
        /\ \A k \in Installation \ {i} : event'[k] = event[k]
    BY <1>12 DEF Arrive, TypeOK
  <2>2. Numbered'
    BY <1>0, <2>1 DEF PairInv, Numbered, Arriving, Received
  <2>3. Waiting'
    BY <1>0, <2>1 DEF PairInv, Numbered, Waiting, Arriving, Received
  <2> QED
    BY <1>11, <2>1, <2>2, <2>3 DEF PairInv
<1>13. ASSUME NEW i \in Installation, Answered(i)
       PROVE  /\ ~Arriving(i)'
              /\ \A k \in Installation \ {i} : event'[k] = event[k]
  BY <1>13, AnsweredEvent DEF TypeOK, Arriving
<1>14. ASSUME NEW i \in Installation, Upsert(i) PROVE PairInv'
  <2>1. /\ portal'.pair = event[i].pair /\ Arriving(i) /\ lock = Nobody
        /\ Answered(i) /\ UNCHANGED <<lock, call, server>>
    BY <1>14 DEF Upsert, Arriving
  <2>2. LockHeld' /\ ActiveWhileLocked' /\ ExchangesStored'
    BY <1>u, <2>1 DEF PairInv, LockHeld, ActiveWhileLocked, ExchangesStored
  <2>3. \A d \in Caller : ~Received(d)'
    BY <1>u, <2>1 DEF Received
  <2>4. Numbered' /\ Waiting' /\ Usable'
    BY <1>13, <2>1, <2>3 DEF PairInv, Numbered, Waiting, Usable, Arriving, server
  <2> QED
    BY <2>2, <2>4 DEF PairInv
<1>15. ASSUME NEW i \in Installation, Abandon(i) PROVE PairInv'
  <2>1. Answered(i) /\ UNCHANGED <<portal, lock, call, server>>
    BY <1>15 DEF Abandon
  <2>2. Numbered' /\ Waiting'
    BY <1>13, <2>1 DEF PairInv, Numbered, Waiting, Arriving, Received, server
  <2> QED
    BY <1>11, <2>1, <2>2 DEF PairInv, server
<1>16. ASSUME Uninstall PROVE PairInv'
  <2>1. /\ lock = Nobody /\ UNCHANGED <<lock, call, event, server>>
        /\ portal'.pair = portal.pair
    BY <1>16 DEF Uninstall, TypeOK, PortalRow
  <2> QED
    BY <1>8, <2>1
<1>17. ASSUME Expire PROVE PairInv'
  <2>1. LockHeld' /\ ActiveWhileLocked' /\ ExchangesStored'
    BY <1>17 DEF PairInv, LockHeld, ActiveWhileLocked, Active, ExchangesStored, Expire
  <2>2. Numbered' /\ Waiting' /\ Usable'
    BY <1>17 DEF PairInv, Numbered, Waiting, Usable, Received, Arriving, Expire
  <2> QED
    BY <2>1, <2>2 DEF PairInv
<1>18. ASSUME UNCHANGED vars PROVE PairInv'
  <2>1. LockHeld' /\ ActiveWhileLocked' /\ ExchangesStored'
    BY <1>18 DEF PairInv, LockHeld, ActiveWhileLocked, Active, ExchangesStored, vars, server
  <2>2. Numbered' /\ Waiting' /\ Usable'
    BY <1>18 DEF PairInv, Numbered, Waiting, Usable, Received, Arriving, vars, server
  <2> QED
    BY <2>1, <2>2 DEF PairInv
<1> QED
  BY <1>1, <1>2, <1>3, <1>4, <1>5, <1>6, <1>7, <1>9, <1>10, <1>12, <1>14, <1>15,
     <1>16, <1>17, <1>18 DEF Next, CallerStep

LEMMA PairInvariant == Spec => [](TypeInv /\ PairInv)
<1>1. Init => TypeInv /\ PairInv
  BY InitType, InitPair DEF Init, TypeInv, Counted
<1> QED
  BY <1>1, NextType, NextPair, PTL DEF Spec

\* The stored refresh token is never one the server has already exchanged, unless
\* an answer of the server was lost.
THEOREM StoredPair == Spec => []StoredPairUsable
<1>1. PairInv => StoredPairUsable
  BY PortalAssumption DEF PairInv, LockHeld, Usable, Received, StoredPairUsable
<1> QED
  BY <1>1, PairInvariant, PTL

\* A portal out of service comes back by an installation only.
THEOREM Revival == Spec => OnlyInstallationRevives
<1>1. ASSUME TypeInv, PairInv, [Next]_vars,
             portal.status # "active", portal'.status = "active"
      PROVE  \E i \in Installation : event[i].step = "calls" /\ portal'.pair = event[i].pair
  <2>1. ASSUME NEW c \in Caller, Store(c) PROVE FALSE
    <3>1. lock = c
      BY <1>1, <2>1 DEF Store, PairInv, LockHeld
    <3> QED
      BY <1>1, <3>1, PortalAssumption DEF PairInv, ActiveWhileLocked, Active
  <2>2. ASSUME NEW c \in Caller, MarkAuthError(c) PROVE FALSE
    BY <1>1, <2>2 DEF MarkAuthError, TypeInv, TypeOK, PortalRow
  <2>3. ASSUME Uninstall PROVE FALSE
    BY <1>1, <2>3 DEF Uninstall, TypeInv, TypeOK, PortalRow
  <2>4. portal' # portal
    BY <1>1
  <2>5. PICK i \in Installation : Upsert(i)
    BY <1>1, <2>1, <2>2, <2>3, <2>4
       DEF Next, CallerStep, vars, Invoke, GetAccessToken, Lock, Exchange, Check, Call, Crash,
           Arrive, Abandon, Expire
  <2> QED
    BY <2>5 DEF Upsert
<1>2. TypeInv /\ PairInv /\ [Next]_vars =>
        [portal.status # "active" /\ portal'.status = "active" =>
           \E i \in Installation : event[i].step = "calls" /\ portal'.pair = event[i].pair]_vars
  BY <1>1
<1> QED
  BY <1>2, PairInvariant, PTL DEF Spec, OnlyInstallationRevives

\* A pair that is not near its expiry is only exchanged by a forced refresh.
THEOREM Refreshes == Spec => OneRefreshPerExpiry
<1>1. ASSUME TypeInv, PairInv, [Next]_vars, NEW p \in spent' \ spent
      PROVE  p \in expired \/ \E c \in Caller : call[c].held = p /\ call[c].rejections > 0
  <2>1. PICK c \in Caller : Exchange(c)
    BY <1>1 DEF Next, CallerStep, vars, server, Invoke, GetAccessToken, Lock, Store, Check, Call,
                MarkAuthError, Crash, Arrive, Upsert, Abandon, Uninstall, Expire
  <2>2. p = call[c].held /\ call[c].step = "exchange"
    BY <1>1, <2>1 DEF Exchange, NoPair, Issue
  <2> QED
    BY <1>1, <2>2 DEF PairInv, ExchangesStored
<1>2. TypeInv /\ PairInv /\ [Next]_vars =>
        [\A p \in spent' \ spent :
           p \in expired \/ \E c \in Caller : call[c].held = p /\ call[c].rejections > 0]_vars
  BY <1>1
<1> QED
  BY <1>2, PairInvariant, PTL DEF Spec, OneRefreshPerExpiry

-----------------------------------------------------------------------------
(* The row's lock, as LockedRow promises it. *)

LEMMA RowStep ==
  ASSUME TypeInv, PairInv, [Next]_vars
  PROVE  [Locked!RowNext]_(Locked!locked)
<1>1. CASE UNCHANGED <<portal, lock>>
  BY <1>1 DEF Locked!locked, Active
<1>2. CASE UNCHANGED vars
  BY <1>1, <1>2 DEF vars
<1>3. ASSUME NEW c \in Caller, Lock(c) PROVE [Locked!RowNext]_(Locked!locked)
  <2>1. CASE MayRefresh /\ ~Settled(c) /\ With(c, "exchange", portal.pair) /\ lock' = c
    <3>1. lock = Nobody /\ Active /\ Active' /\ lock' # Nobody
      BY <1>3, <2>1, PortalAssumption DEF Lock, Unlocked, MayRefresh, Active
    <3> QED
      BY <3>1 DEF Locked!RowNext, Locked!Lock
  <2> QED
    BY <1>1, <1>3, <2>1 DEF Lock
<1>4. ASSUME NEW c \in Caller, Exchange(c) \/ Store(c) PROVE [Locked!RowNext]_(Locked!locked)
  <2>1. lock = c /\ lock # Nobody /\ Active
    BY <1>4, PortalAssumption DEF Exchange, Store, PairInv, LockHeld, ActiveWhileLocked
  <2>2. Active' \in BOOLEAN
    BY DEF Active
  <2>3. CASE lock' = Nobody
    BY <2>1, <2>2, <2>3 DEF Locked!RowNext, Locked!Release
  <2> QED
    BY <1>1, <1>4, <2>3 DEF Exchange, Store
<1>5. ASSUME NEW c \in Caller, Crash(c) PROVE [Locked!RowNext]_(Locked!locked)
  <2>1. CASE lock # c
    BY <1>1, <1>5, <2>1 DEF Crash, Freed
  <2>2. CASE lock = c
    <3>1. lock # Nobody /\ lock' = Nobody /\ Active /\ Active' \in BOOLEAN
      BY <1>5, <2>2, PortalAssumption DEF Crash, Freed, PairInv, ActiveWhileLocked, Active
    <3> QED
      BY <3>1 DEF Locked!RowNext, Locked!Release
  <2> QED
    BY <2>1, <2>2
<1>6. ASSUME NEW c \in Caller, MarkAuthError(c) PROVE [Locked!RowNext]_(Locked!locked)
  <2>1. lock = Nobody /\ lock' = lock /\ Active' = FALSE
    BY <1>6 DEF MarkAuthError, Unlocked, Active, TypeInv, TypeOK, PortalRow
  <2> QED
    BY <2>1 DEF Locked!RowNext, Locked!Deactivate
<1>7. CASE Uninstall
  <2>1. lock = Nobody /\ lock' = lock /\ Active' = FALSE
    BY <1>7 DEF Uninstall, Active, TypeInv, TypeOK, PortalRow
  <2> QED
    BY <2>1 DEF Locked!RowNext, Locked!Deactivate
<1>8. ASSUME NEW i \in Installation, Upsert(i) PROVE [Locked!RowNext]_(Locked!locked)
  <2>1. lock = Nobody /\ lock' = lock /\ Active' = TRUE
    BY <1>8 DEF Upsert, Active
  <2> QED
    BY <2>1 DEF Locked!RowNext, Locked!Install
<1>9. ASSUME NEW c \in Caller, Invoke(c) \/ GetAccessToken(c) \/ Check(c) \/ Call(c)
      PROVE  [Locked!RowNext]_(Locked!locked)
  BY <1>1, <1>9 DEF Invoke, GetAccessToken, Check, Call
<1>10. ASSUME NEW i \in Installation, Arrive(i) \/ Abandon(i)
       PROVE  [Locked!RowNext]_(Locked!locked)
  BY <1>1, <1>10 DEF Arrive, Abandon
<1>11. CASE Expire
  BY <1>1, <1>11 DEF Expire
<1> QED
  BY <1>2, <1>3, <1>4, <1>5, <1>6, <1>7, <1>8, <1>9, <1>10, <1>11 DEF Next, CallerStep

\* The refresh of a pair is atomic for everybody who writes the portal's status, in spite
\* of the HTTP call in its middle, and its lock is never left behind.
THEOREM RowIsLocked == Spec => KeepsLock
<1>1. Init => Locked!RowInit
  BY DEF Init, Locked!RowInit
<1>2. TypeInv /\ PairInv /\ [Next]_vars => [Locked!RowNext]_(Locked!locked)
  BY RowStep
<1> QED
  BY <1>1, <1>2, PairInvariant, PTL DEF Spec, KeepsLock, Locked!RowSpec

-----------------------------------------------------------------------------
(* The way of an invocation. *)

Raises(c) == Rank(call[c]) < Rank(call'[c]) /\ Rank(call'[c]) <= 24

\* Before its end an invocation ranks below it.
LEMMA RankBounds ==
  ASSUME TypeInv, NEW c \in Caller, call[c].step # "done"
  PROVE  Rank(call[c]) \in 0..23
<1>1. call[c].rejections \in 0..2 /\ call[c].step \in Steps
  BY DEF TypeInv, TypeOK, Invocation
<1>2. call[c].rejections \in {0, 1, 2}
  BY <1>1
<1> QED
  BY <1>1, <1>2 DEF Rank, Steps

LEMMA ReturnRaises ==
  ASSUME TypeInv, NEW c \in Caller, call[c].step # "done", Return(c)
  PROVE  Raises(c)
<1>1. Rank(call'[c]) = 24
  BY ReturnCall DEF Rank, TypeInv, TypeOK
<1> QED
  BY <1>1, RankBounds DEF Raises

\* From a step to a later one, with as many rejections.
Later(s, t) ==
  \/ s = "idle" /\ t = "token"
  \/ s = "token" /\ t \in {"lock", "check"}
  \/ s = "lock" /\ t \in {"exchange", "check"}
  \/ s = "exchange" /\ t = "store"
  \/ s = "store" /\ t = "check"
  \/ s = "check" /\ t = "call"

LEMMA LaterRaises ==
  ASSUME TypeInv, NEW c \in Caller, Later(call[c].step, call'[c].step),
         call'[c].rejections = call[c].rejections
  PROVE  Raises(c)
<1>1. call[c].rejections \in {0, 1, 2}
  <2>1. call[c].rejections \in 0..2
    BY DEF TypeInv, TypeOK, Invocation
  <2> QED
    BY <2>1
<1> QED
  BY <1>1 DEF Raises, Rank, Later

\* A step of another invocation, an installation or the clock is none of this one.
LEMMA Mover ==
  ASSUME TypeInv, [Next]_vars, NEW c \in Caller, call'[c] # call[c]
  PROVE  Invoke(c) \/ CallerStep(c) \/ Crash(c)
<1>1. ASSUME NEW d \in Caller, d # c, Invoke(d) \/ CallerStep(d) \/ Crash(d) PROVE FALSE
  <2>1. CASE Invoke(d) \/ GetAccessToken(d) \/ Lock(d) \/ Exchange(d)
    BY <1>1, <2>1 DEF Invoke, GetAccessToken, Lock, Exchange, Goto, With, Return, TypeInv, TypeOK
  <2>2. CASE Store(d) \/ Check(d) \/ Call(d) \/ MarkAuthError(d) \/ Crash(d)
    BY <1>1, <2>2
       DEF Store, Check, Call, MarkAuthError, Crash, Goto, Return, TypeInv, TypeOK
  <2> QED
    BY <1>1, <2>1, <2>2 DEF CallerStep
<1>2. ~Uninstall /\ ~Expire /\ ~UNCHANGED vars
  BY DEF Uninstall, Expire, vars
<1>3. \A i \in Installation : ~Arrive(i) /\ ~Upsert(i) /\ ~Abandon(i)
  BY DEF Arrive, Upsert, Abandon
<1> QED
  BY <1>1, <1>2, <1>3 DEF Next

LEMMA StepRaises ==
  ASSUME TypeInv, NEW c \in Caller, Invoke(c) \/ CallerStep(c) \/ Crash(c)
  PROVE  Raises(c)
<1> USE DEF TypeInv
<1>0. call \in [Caller -> Invocation] /\ 0 \in Pair /\ portal.pair \in Pair
  BY PortalAssumption DEF TypeOK, Pair, PortalRow
<1>s. /\ "token" \in Steps /\ "check" \in Steps /\ "lock" \in Steps /\ "exchange" \in Steps
      /\ "store" \in Steps /\ "call" \in Steps
  BY DEF Steps
<1>1. ASSUME call[c].step # "done", Return(c) PROVE Raises(c)
  BY <1>1, ReturnRaises
<1>2. ASSUME NEW t \in Steps, Later(call[c].step, t), Goto(c, t) PROVE Raises(c)
  BY <1>0, <1>2, GotoCall, LaterRaises
<1>3. ASSUME NEW t \in Steps, NEW p \in Pair, Later(call[c].step, t), With(c, t, p)
      PROVE  Raises(c)
  BY <1>0, <1>3, WithCall, LaterRaises
<1>4. CASE Invoke(c)
  BY <1>2, <1>4, <1>s DEF Invoke, Later
<1>5. CASE GetAccessToken(c)
  BY <1>0, <1>1, <1>2, <1>3, <1>5, <1>s DEF GetAccessToken, Later
<1>6. CASE Lock(c)
  BY <1>0, <1>1, <1>3, <1>6, <1>s DEF Lock, Later
<1>7. CASE Exchange(c)
  <2>1. Issue(c) => issued + 1 \in Pair
    BY IssueType
  <2> QED
    BY <1>0, <1>1, <1>3, <1>7, <1>s, <2>1 DEF Exchange, Later
<1>8. CASE Store(c)
  BY <1>1, <1>2, <1>8, <1>s DEF Store, Later
<1>9. CASE Check(c)
  BY <1>1, <1>2, <1>9, <1>s DEF Check, Later
<1>10. CASE Call(c)
  <2>1. CASE Return(c)
    BY <1>1, <1>10, <2>1 DEF Call
  <2>2. CASE ~Return(c)
    <3> DEFINE n == call[c].rejections
               step == AfterRejection(n)
    <3>1. n \in {0, 1} /\ call[c].step = "call"
      <4>1. n \in 0..2 /\ n <= 1
        BY <1>10 DEF Call, TypeOK, Invocation, Counted
      <4> QED
        BY <1>10, <4>1 DEF Call
    <3>2. (n = 0 /\ step = "lock") \/ (n = 1 /\ step = "mark")
      BY <3>1 DEF AfterRejection
    <3>3. call' = [call EXCEPT ![c].step = step, ![c].rejections = n + 1]
      BY <1>10, <2>2 DEF Call
    <3> HIDE DEF step
    <3>4. call'[c].step = step /\ call'[c].rejections = n + 1
      BY <1>0, <3>3 DEF Invocation
    <3> QED
      BY <3>1, <3>2, <3>4 DEF Raises, Rank
  <2> QED
    BY <2>1, <2>2
<1>11. CASE MarkAuthError(c)
  BY <1>1, <1>11 DEF MarkAuthError
<1>12. CASE Crash(c)
  BY <1>1, <1>12 DEF Crash
<1> QED
  BY <1>4, <1>5, <1>6, <1>7, <1>8, <1>9, <1>10, <1>11, <1>12 DEF CallerStep

\* An invocation is over after a bounded number of steps, if it is not kept from making
\* them: what is left of EveryCallEnds is that it is not.
THEOREM CallsAreFinite == Spec => CallsGetOn
<1>1. TypeInv /\ [Next]_vars =>
        [\A c \in Caller : call'[c] # call[c] =>
           Rank(call[c]) < Rank(call'[c]) /\ Rank(call'[c]) <= 24]_vars
  BY Mover, StepRaises DEF Raises
<1>2. Init => TypeInv
  BY InitType DEF Init, TypeInv, Counted
<1> QED
  BY <1>1, <1>2, NextType, PTL DEF Spec, CallsGetOn
=============================================================================
