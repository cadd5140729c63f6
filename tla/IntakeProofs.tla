---------------------------- MODULE IntakeProofs ----------------------------
(***************************************************************************)
(* Proofs about Intake for every set of callbacks, button requests and     *)
(* tokens, and every size of the pool.                                     *)
(*                                                                         *)
(* A step of a request moves that request alone (ButtonMoves); what a      *)
(* request holds follows from where it is (ButtonHolds, CallbackHolds),    *)
(* and what is committed from where its callback was (Committed).          *)
(***************************************************************************)
EXTENDS Intake, FiniteSetTheorems, TLAPS

OwnSession == {"identify", "field", "owner", "type", "write", "reserve"}
CallSession == {"refreshing", "exchange", "marking"}

ButtonHolds(b) ==
  /\ at[b] \in ButtonSteps
  /\ b \in main <=> at[b] \in OwnSession
  /\ b \in inner <=> call[b] \in CallSession
  /\ call[b] # "none" => at[b] \in Calls
  /\ locker = b <=> call[b] = "exchange"

CallbackHolds(c) ==
  /\ at[c] \in CallbackSteps
  /\ c \in main <=> at[c] \in {"insert", "created", "found"}

\* What the portal's row says now was noted, and so was the credential checked.
Noted(c) ==
  /\ Running(c) => InForce(carried[c].token) \in carried[c].force
  /\ at[c] \in {"insert", "created", "found"} => TRUE \in carried[c].force

\* One uncommitted job per token, and only while there is no committed one.
Committed(c) ==
  /\ at[c] = "created" => job[TokenOf[c]] = Nobody
  /\ \A d \in Callback :
       at[c] = "created" /\ at[d] = "created" /\ TokenOf[c] = TokenOf[d] => c = d
  /\ at[c] = "found" => job[TokenOf[c]] # Nobody
  /\ at[c] # "end" => answer[c].status # "accepted" /\ \A t \in Token : job[t] # c

IntakeInv ==
  /\ TypeOK
  /\ \A b \in Button : ButtonHolds(b)
  /\ \A c \in Callback : CallbackHolds(c) /\ Noted(c) /\ Committed(c)
  /\ AcceptedIsDurable

-----------------------------------------------------------------------------
(* The pool *)

LEMMA PoolFinite ==
  ASSUME TypeOK
  PROVE  /\ IsFiniteSet(main) /\ IsFiniteSet(inner) /\ IsFiniteSet(Request)
         /\ Cardinality(main) \in Nat /\ Cardinality(inner) \in Nat
<1>1. IsFiniteSet(Request) BY IntakeAssumption, FS_Union DEF Request
<1>2. IsFiniteSet(main) /\ IsFiniteSet(inner)
  BY <1>1, IntakeAssumption, FS_Subset DEF TypeOK
<1> QED BY <1>1, <1>2, FS_CardinalityType

\* A request takes one connection of a pool that has one free.
LEMMA PoolTake ==
  ASSUME TypeOK, NEW r, Free, TakeMain(r) \/ TakeInner(r)
  PROVE  InUse' <= Capacity
<1>1. ASSUME NEW S, IsFiniteSet(S)
      PROVE  Cardinality(S \cup {r}) <= Cardinality(S) + 1 /\ Cardinality(S \cup {r}) \in Nat
  <2>1. /\ IsFiniteSet(S \cup {r})
        /\ Cardinality(S \cup {r}) = IF r \in S THEN Cardinality(S) ELSE Cardinality(S) + 1
    BY <1>1, FS_AddElement
  <2> QED BY <2>1, <1>1, FS_CardinalityType
<1>2. InUse' = Cardinality(main') + Cardinality(inner') BY DEF InUse
<1>3. /\ Cardinality(main') \in Nat /\ Cardinality(inner') \in Nat
      /\ Cardinality(main') + Cardinality(inner') <= Cardinality(main) + Cardinality(inner) + 1
  <2>1. CASE TakeMain(r) BY <2>1, <1>1, PoolFinite DEF TakeMain
  <2>2. CASE TakeInner(r) BY <2>2, <1>1, PoolFinite DEF TakeInner
  <2> QED BY <2>1, <2>2
<1> QED BY <1>2, <1>3, PoolFinite, PoolAssumption DEF Free, InUse

\* Giving back never needs one.
LEMMA PoolGive ==
  ASSUME TypeOK, main' \subseteq main, inner' \subseteq inner
  PROVE  InUse' <= Capacity
<1>1. /\ Cardinality(main') <= Cardinality(main) /\ Cardinality(main') \in Nat
      /\ Cardinality(inner') <= Cardinality(inner) /\ Cardinality(inner') \in Nat
  BY PoolFinite, FS_Subset, FS_CardinalityType
<1>2. InUse' = Cardinality(main') + Cardinality(inner') BY DEF InUse
<1> QED BY <1>1, <1>2, PoolFinite, PoolAssumption DEF TypeOK, InUse

-----------------------------------------------------------------------------
(* Requests of the buttons *)

\* What a step of a button request may do.
Moved(b) ==
  /\ \E s \in ButtonSteps : at' = [at EXCEPT ![b] = s]
  /\ \E k \in CallSteps : call' = [call EXCEPT ![b] = k]
  /\ rejected' \subseteq Button
  /\ main' \subseteq main \cup {b} /\ main \ {b} \subseteq main'
  /\ inner' \subseteq inner \cup {b} /\ inner \ {b} \subseteq inner'
  /\ InUse' <= Capacity
  /\ locker' \in Button \cup {Nobody}
  /\ \A a \in Button \ {b} : locker' = a <=> locker = a
  /\ ButtonHolds(b)'
  /\ UNCHANGED <<job, answer, installed>>
  /\ \/ UNCHANGED <<active, carried>>
     \/ active' \in BOOLEAN /\ Observed

\* Where call_portal returns to: a launch goes on to record, nothing else does.
LEMMA ReturnSteps ==
  ASSUME NEW b \in Button, ButtonHolds(b), call[b] # "none"
  PROVE  /\ AfterError(b) \subseteq ButtonSteps /\ AfterResult(b) \subseteq ButtonSteps
         /\ \A s \in AfterError(b) \cup AfterResult(b) :
              /\ s # "start" /\ s # "identify" /\ s # "begin"
              /\ at[b] = "start" <=> s = "record"
              /\ s \notin {"record", "end"} => s \in OwnSession
<1>1. CASE at[b] = "identify"
  BY <1>1 DEF AfterError, AfterResult, ButtonSteps, Calls, OwnSession
<1>2. CASE at[b] = "field"
  BY <1>2 DEF AfterError, AfterResult, ButtonSteps, Calls, OwnSession
<1>3. CASE at[b] = "owner"
  BY <1>3 DEF AfterError, AfterResult, ButtonSteps, Calls, OwnSession
<1>4. CASE at[b] = "type"
  BY <1>4 DEF AfterError, AfterResult, ButtonSteps, Calls, OwnSession
<1>5. CASE at[b] = "start"
  BY <1>5 DEF AfterError, AfterResult, ButtonSteps, Calls, OwnSession
<1> QED BY <1>1, <1>2, <1>3, <1>4, <1>5 DEF ButtonHolds, Calls

\* Returning closes the sessions of the call, and at the end the request's own.
LEMMA ReturnMoves ==
  ASSUME TypeOK, NEW b \in Button, ButtonHolds(b), call[b] # "none",
         NEW steps, steps = AfterError(b) \/ steps = AfterResult(b),
         Return(b, steps), locker' \in Button \cup {Nobody}, locker' # b,
         \A a \in Button \ {b} : locker' = a <=> locker = a,
         UNCHANGED <<job, answer, installed>>,
         UNCHANGED <<active, carried>> \/ (active' \in BOOLEAN /\ Observed)
  PROVE  Moved(b)
<1>1. PICK s \in steps : Proceed(b, s) /\ (IF s = "end" THEN Close(b) ELSE GiveInner(b))
  BY DEF Return
<1>2. /\ s \in ButtonSteps
      /\ s # "start" /\ s # "identify" /\ s # "begin"
      /\ at[b] = "start" <=> s = "record"
      /\ s \notin {"record", "end"} => s \in OwnSession
  BY ReturnSteps
<1>3. at' = [at EXCEPT ![b] = s] /\ at'[b] = s BY <1>1 DEF Proceed, TypeOK, Request
<1>4. /\ call' = [call EXCEPT ![b] = IF s \in Calls THEN "token" ELSE "none"]
      /\ call'[b] = IF s \in Calls THEN "token" ELSE "none"
  BY <1>1 DEF Proceed, TypeOK
<1>5. /\ inner' = inner \ {b}
      /\ main' = IF s = "end" THEN main \ {b} ELSE main
  BY <1>1 DEF Close, GiveInner
<1>6. InUse' <= Capacity BY <1>5, PoolGive
<1>7. b \in main' <=> s \in OwnSession
  <2>1. at[b] = "start" <=> b \notin main
    BY DEF ButtonHolds, OwnSession, Calls
  <2> QED BY <2>1, <1>2, <1>5 DEF OwnSession
<1>8. ButtonHolds(b)'
  BY <1>2, <1>3, <1>4, <1>5, <1>7 DEF ButtonHolds, CallSession
<1>9. rejected' \subseteq Button BY <1>1 DEF Proceed, TypeOK
<1>10. (IF s \in Calls THEN "token" ELSE "none") \in CallSteps BY DEF CallSteps
<1> QED BY <1>2, <1>3, <1>4, <1>5, <1>6, <1>8, <1>9, <1>10 DEF Moved

\* Another step of the call, without leaving it.
LEMMA GoesMoves ==
  ASSUME TypeOK, NEW b \in Button, ButtonHolds(b), call[b] # "none",
         NEW k \in CallSteps \ {"none"}, call' = [call EXCEPT ![b] = k],
         UNCHANGED at, rejected' \subseteq Button,
         \/ UNCHANGED pool /\ (k \in CallSession <=> call[b] \in CallSession)
         \/ Free /\ TakeInner(b) /\ k \in CallSession
         \/ GiveInner(b) /\ k \notin CallSession,
         locker' \in Button \cup {Nobody}, locker' = b <=> k = "exchange",
         \A a \in Button \ {b} : locker' = a <=> locker = a,
         UNCHANGED <<job, answer, installed, active, carried>>
  PROVE  Moved(b)
<1>1. call'[b] = k BY DEF TypeOK
<1>2. at[b] \in ButtonSteps /\ at' = [at EXCEPT ![b] = at[b]]
  BY DEF TypeOK, Request, ButtonHolds
<1>3. /\ main' = main
      /\ inner' \subseteq inner \cup {b} /\ inner \ {b} \subseteq inner'
      /\ b \in inner' <=> k \in CallSession
  BY DEF pool, TakeInner, GiveInner, ButtonHolds
<1>4. InUse' <= Capacity
  <2>1. CASE Free /\ TakeInner(b) BY <2>1, PoolTake
  <2>2. CASE inner' \subseteq inner BY <2>2, <1>3, PoolGive
  <2> QED BY <2>1, <2>2 DEF pool, GiveInner
<1>5. ButtonHolds(b)' BY <1>1, <1>3 DEF ButtonHolds
<1> QED BY <1>2, <1>3, <1>4, <1>5 DEF Moved

\* A step outside call_portal.
LEMMA ProceedMoves ==
  ASSUME TypeOK, NEW b \in Button, ButtonHolds(b), call[b] = "none",
         NEW s \in ButtonSteps \ {"begin"}, Proceed(b, s),
         \/ Free /\ TakeMain(b) /\ s \in OwnSession
         \/ (Close(b) \/ GiveMain(b)) /\ s \notin OwnSession
         \/ UNCHANGED pool /\ (b \in main <=> s \in OwnSession),
         UNCHANGED <<row, intake>>
  PROVE  Moved(b)
<1>1. at' = [at EXCEPT ![b] = s] /\ at'[b] = s BY DEF Proceed, TypeOK, Request
<1>2. /\ call' = [call EXCEPT ![b] = IF s \in Calls THEN "token" ELSE "none"]
      /\ call'[b] = IF s \in Calls THEN "token" ELSE "none"
  BY DEF Proceed, TypeOK
<1>3. b \notin inner BY DEF ButtonHolds, CallSession
<1>4. /\ main' \subseteq main \cup {b} /\ main \ {b} \subseteq main'
      /\ b \in main' <=> s \in OwnSession
      /\ inner' = inner
  BY <1>3 DEF pool, TakeMain, Close, GiveMain
<1>5. InUse' <= Capacity
  <2>1. CASE Free /\ TakeMain(b) BY <2>1, PoolTake
  <2>2. CASE main' \subseteq main BY <2>2, <1>4, PoolGive
  <2> QED BY <2>1, <2>2 DEF pool, Close, GiveMain
<1>6. locker' = locker /\ locker # b
  BY DEF row, ButtonHolds
<1>7. ButtonHolds(b)' BY <1>1, <1>2, <1>3, <1>4, <1>6 DEF ButtonHolds, CallSession
<1>8. rejected' \subseteq Button BY DEF Proceed, TypeOK
<1>9. (IF s \in Calls THEN "token" ELSE "none") \in CallSteps BY DEF CallSteps
<1>10. UNCHANGED <<job, answer, installed, active, carried>> BY DEF row, intake
<1> QED BY <1>1, <1>2, <1>4, <1>5, <1>6, <1>7, <1>8, <1>9, <1>10 DEF Moved, TypeOK

LEMMA ButtonMoves ==
  ASSUME IntakeInv, NEW b \in Button, Open(b) \/ ButtonStep(b)
  PROVE  Moved(b)
<1> USE DEF IntakeInv
<1>1. TypeOK /\ ButtonHolds(b) OBVIOUS
<1>2. call[b] = "none" \/ at[b] \in Calls BY <1>1 DEF ButtonHolds
<1>3. locker # b \/ call[b] = "exchange" BY <1>1 DEF ButtonHolds
<1>4. b # Nobody BY IntakeAssumption DEF Request
<1>5. rejected \subseteq Button /\ locker \in Button \cup {Nobody} /\ active \in BOOLEAN
  BY DEF TypeOK
<1>6. locker = b <=> call[b] = "exchange" BY <1>1 DEF ButtonHolds
<1>o. CASE Open(b)
  <2>1. at[b] = "idle" /\ at' = [at EXCEPT ![b] = "begin"] /\ at'[b] = "begin"
    BY <1>o DEF Open, TypeOK, Request
  <2>2. call[b] = "none" BY <2>1, <1>2 DEF Calls
  <2>3. UNCHANGED <<pool, press, row, intake>> BY <1>o DEF Open
  <2>4. InUse' <= Capacity BY <2>3, PoolGive DEF pool
  <2>5. ButtonHolds(b)'
    BY <2>1, <2>2, <2>3, <1>1 DEF ButtonHolds, pool, press, row, OwnSession, CallSession,
                                  ButtonSteps
  <2>6. "begin" \in ButtonSteps BY DEF ButtonSteps
  <2>7. call[b] \in CallSteps /\ call' = [call EXCEPT ![b] = call[b]]
    BY <2>3 DEF press, TypeOK
  <2> QED BY <2>1, <2>3, <2>4, <2>5, <2>6, <2>7, <1>5 DEF Moved, pool, press, row, intake
<1>b. CASE Begin(b)
  <2>1. call[b] = "none" BY <1>b, <1>2 DEF Begin, Calls
  <2>2. {"identify", "end"} \subseteq ButtonSteps \ {"begin"} BY DEF ButtonSteps, Calls
  <2>3. b \notin main BY <1>b, <1>1 DEF Begin, ButtonHolds, OwnSession
  <2>4. Free /\ UNCHANGED <<row, intake>> BY <1>b DEF Begin
  <2>5. CASE TakeMain(b) /\ Proceed(b, "identify")
    BY <2>5, <2>1, <2>2, <2>4, <1>1, ProceedMoves DEF OwnSession
  <2>6. CASE UNCHANGED pool /\ Proceed(b, "end")
    BY <2>6, <2>1, <2>2, <2>3, <2>4, <1>1, ProceedMoves DEF OwnSession
  <2> QED BY <1>b, <2>5, <2>6 DEF Begin
<1>w. CASE Write(b)
  <2>1. call[b] = "none" BY <1>w, <1>2 DEF Write, Calls
  <2>2. "end" \in ButtonSteps \ {"begin"} /\ "end" \notin OwnSession
    BY DEF ButtonSteps, Calls, OwnSession
  <2>3. Close(b) /\ Proceed(b, "end") /\ UNCHANGED <<row, intake>> BY <1>w DEF Write
  <2> QED BY <2>1, <2>2, <2>3, <1>1, ProceedMoves
<1>r. CASE Reserve(b)
  <2>1. call[b] = "none" BY <1>r, <1>2 DEF Reserve, Calls
  <2>2. \A s \in {"start", "end"} : s \in ButtonSteps \ {"begin"} /\ s \notin OwnSession
    BY DEF ButtonSteps, Calls, OwnSession
  <2>3. GiveMain(b) /\ UNCHANGED <<row, intake>> BY <1>r DEF Reserve
  <2>4. PICK s \in {"start", "end"} : Proceed(b, s) BY <1>r DEF Reserve
  <2> QED BY <2>1, <2>2, <2>3, <2>4, <1>1, ProceedMoves
<1>d. CASE Record(b)
  <2>1. call[b] = "none" BY <1>d, <1>2 DEF Record, Calls
  <2>2. "end" \in ButtonSteps \ {"begin"} /\ "end" \notin OwnSession
    BY DEF ButtonSteps, Calls, OwnSession
  <2>3. Proceed(b, "end") /\ UNCHANGED <<pool, row, intake>> BY <1>d DEF Record
  <2>4. b \notin main BY <1>d, <1>1 DEF Record, ButtonHolds, OwnSession
  <2> QED BY <2>1, <2>2, <2>3, <2>4, <1>1, ProceedMoves
<1>g. CASE GetAccessToken(b)
  <2>1. call[b] = "token" /\ UNCHANGED <<row, intake>> /\ locker # b
    BY <1>g, <1>6 DEF GetAccessToken
  <2>2. UNCHANGED <<installed, active, locker, carried, job, answer>> BY <2>1 DEF row, intake
  <2>3. CASE Return(b, AfterError(b)) BY <2>1, <2>2, <2>3, <1>1, <1>5, ReturnMoves
  <2>4. ASSUME NEW k \in {"once", "refresh"}, Goes(b, k), UNCHANGED pool PROVE Moved(b)
    <3>1. k \in CallSteps \ {"none"} /\ k \notin CallSession /\ call[b] \notin CallSession
          /\ k # "exchange"
      BY <2>1 DEF CallSteps, CallSession
    <3>2. call' = [call EXCEPT ![b] = k] /\ UNCHANGED at /\ rejected' \subseteq Button
      BY <2>4, <1>5 DEF Goes
    <3> QED BY <2>1, <2>2, <2>4, <3>1, <3>2, <1>1, <1>5, GoesMoves
  <2> QED BY <1>g, <2>3, <2>4 DEF GetAccessToken, NearExpiry
<1>f. CASE BeginRefresh(b)
  <2>1. call[b] = "refresh" /\ Free /\ TakeInner(b) /\ locker # b BY <1>f, <1>6 DEF BeginRefresh
  <2>2. UNCHANGED <<installed, active, locker, carried, job, answer>>
    BY <1>f DEF BeginRefresh, row, intake
  <2>3. "refreshing" \in CallSteps \ {"none"} /\ "refreshing" \in CallSession
    BY DEF CallSteps, CallSession
  <2>4. call' = [call EXCEPT ![b] = "refreshing"] /\ UNCHANGED at /\ rejected' \subseteq Button
    BY <1>f, <1>5 DEF BeginRefresh, Goes
  <2> QED BY <2>1, <2>2, <2>3, <2>4, <1>1, <1>5, GoesMoves
<1>l. CASE LockRow(b)
  <2>1. call[b] = "refreshing" /\ locker = Nobody /\ UNCHANGED <<installed, active, intake>>
    BY <1>l DEF LockRow, Unlocked
  <2>2. UNCHANGED <<installed, active, carried, job, answer>> BY <2>1 DEF intake
  <2>3. /\ {"once", "exchange"} \subseteq CallSteps \ {"none"}
        /\ "once" \notin CallSession /\ "exchange" \in CallSession /\ call[b] \in CallSession
    BY <2>1 DEF CallSteps, CallSession
  <2>4. CASE Return(b, AfterError(b)) /\ UNCHANGED locker
    BY <2>1, <2>2, <2>4, <1>1, <1>4, <1>5, ReturnMoves
  <2>5. CASE Goes(b, "once") /\ GiveInner(b) /\ UNCHANGED locker
    <3>1. call' = [call EXCEPT ![b] = "once"] /\ UNCHANGED at /\ rejected' \subseteq Button
      BY <2>5, <1>5 DEF Goes
    <3> QED BY <2>1, <2>2, <2>3, <2>5, <3>1, <1>1, <1>4, <1>5, GoesMoves
  <2>6. CASE Goes(b, "exchange") /\ locker' = b /\ UNCHANGED pool
    <3>1. call' = [call EXCEPT ![b] = "exchange"] /\ UNCHANGED at /\ rejected' \subseteq Button
      BY <2>6, <1>5 DEF Goes
    <3>2. \A a \in Button \ {b} : locker' = a <=> locker = a
      BY <2>1, <2>6, IntakeAssumption DEF Request
    <3> QED BY <2>1, <2>2, <2>3, <2>6, <3>1, <3>2, <1>1, <1>4, <1>5, GoesMoves
  <2> QED BY <1>l, <2>4, <2>5, <2>6 DEF LockRow
<1>x. CASE Exchange(b)
  <2>1. /\ call[b] = "exchange" /\ locker = b /\ locker' = Nobody
        /\ UNCHANGED <<installed, job, answer>>
    BY <1>x, <1>6 DEF Exchange
  <2>2. \A a \in Button \ {b} : locker' = a <=> locker = a
    BY <2>1, IntakeAssumption DEF Request
  <2>3. CASE Goes(b, "once") /\ GiveInner(b) /\ UNCHANGED <<active, carried>>
    <3>1. call' = [call EXCEPT ![b] = "once"] /\ UNCHANGED at /\ rejected' \subseteq Button
      BY <2>3, <1>5 DEF Goes
    <3>2. "once" \in CallSteps \ {"none"} /\ "once" \notin CallSession
      BY DEF CallSteps, CallSession
    <3> QED BY <2>1, <2>2, <2>3, <3>1, <3>2, <1>1, <1>4, GoesMoves
  <2>4. CASE active' = FALSE /\ Return(b, AfterError(b)) /\ Observed
    BY <2>1, <2>2, <2>4, <1>1, <1>4, ReturnMoves
  <2>5. CASE Return(b, AfterError(b)) /\ UNCHANGED <<active, carried>>
    BY <2>1, <2>2, <2>5, <1>1, <1>4, ReturnMoves
  <2> QED BY <1>x, <2>3, <2>4, <2>5 DEF Exchange
<1>c. CASE CallOnce(b)
  <2>1. call[b] = "once" /\ locker # b BY <1>c, <1>6 DEF CallOnce
  <2>2. UNCHANGED <<installed, active, locker, carried, job, answer>>
    BY <1>c DEF CallOnce, row, intake
  <2>3. CASE Return(b, AfterError(b)) BY <2>1, <2>2, <2>3, <1>1, <1>5, ReturnMoves
  <2>4. CASE Goes(b, "send") /\ UNCHANGED pool
    <3>1. call' = [call EXCEPT ![b] = "send"] /\ UNCHANGED at /\ rejected' \subseteq Button
      BY <2>4, <1>5 DEF Goes
    <3>2. "send" \in CallSteps \ {"none"} /\ "send" \notin CallSession
          /\ call[b] \notin CallSession
      BY <2>1 DEF CallSteps, CallSession
    <3> QED BY <2>1, <2>2, <2>4, <3>1, <3>2, <1>1, <1>5, GoesMoves
  <2> QED BY <1>c, <2>3, <2>4 DEF CallOnce
<1>s. CASE Send(b)
  <2>1. call[b] = "send" /\ locker # b BY <1>s, <1>6 DEF Send
  <2>2. UNCHANGED <<installed, active, locker, carried, job, answer>>
    BY <1>s DEF Send, row, intake
  <2>3. CASE Return(b, AfterError(b)) BY <2>1, <2>2, <2>3, <1>1, <1>5, ReturnMoves
  <2>4. CASE Return(b, AfterResult(b)) BY <2>1, <2>2, <2>4, <1>1, <1>5, ReturnMoves
  <2>5. ASSUME NEW k \in {"refresh", "mark"}, call' = [call EXCEPT ![b] = k],
               UNCHANGED <<at, pool>>, rejected' \subseteq Button
        PROVE  Moved(b)
    <3>1. k \in CallSteps \ {"none"} /\ k \notin CallSession /\ call[b] \notin CallSession
          /\ k # "exchange"
      BY <2>1 DEF CallSteps, CallSession
    <3> QED BY <2>1, <2>2, <2>5, <3>1, <1>1, <1>5, GoesMoves
  <2>6. CASE /\ rejected' = rejected \cup {b}
             /\ call' = [call EXCEPT ![b] = "refresh"] /\ UNCHANGED <<at, pool>>
    BY <2>5, <2>6, <1>5
  <2>7. CASE Goes(b, "mark") /\ UNCHANGED pool
    BY <2>5, <2>7, <1>5 DEF Goes
  <2> QED BY <1>s, <2>3, <2>4, <2>6, <2>7 DEF Send
<1>m. CASE BeginMark(b)
  <2>1. call[b] = "mark" /\ Free /\ TakeInner(b) /\ locker # b BY <1>m, <1>6 DEF BeginMark
  <2>2. UNCHANGED <<installed, active, locker, carried, job, answer>>
    BY <1>m DEF BeginMark, row, intake
  <2>3. "marking" \in CallSteps \ {"none"} /\ "marking" \in CallSession
    BY DEF CallSteps, CallSession
  <2>4. call' = [call EXCEPT ![b] = "marking"] /\ UNCHANGED at /\ rejected' \subseteq Button
    BY <1>m, <1>5 DEF BeginMark, Goes
  <2> QED BY <2>1, <2>2, <2>3, <2>4, <1>1, <1>5, GoesMoves
<1>a. CASE MarkAuthError(b)
  BY <1>a, <1>1, <1>4, <1>5, <1>6, ReturnMoves DEF MarkAuthError
<1> QED BY <1>o, <1>b, <1>w, <1>r, <1>d, <1>g, <1>f, <1>l, <1>x, <1>c, <1>s, <1>m, <1>a
        DEF ButtonStep

\* A change of the row is noted by every callback in progress.
LEMMA ObservedNotes ==
  ASSUME TypeOK, Observed, NEW c \in Callback, Noted(c), at'[c] = at[c],
         active' \in BOOLEAN, installed' \in Nat
  PROVE  /\ carried' \in [Callback -> [token : Nat, force : SUBSET BOOLEAN]]
         /\ Noted(c)'
<1>1. \A d \in Callback : carried[d].token \in Nat /\ carried[d].force \subseteq BOOLEAN
  BY DEF TypeOK
<1>2. \A d \in Callback :
        carried'[d] =
          IF Running(d)
          THEN [carried[d] EXCEPT !.force = @ \cup {active' /\ carried[d].token = installed'}]
          ELSE carried[d]
  BY DEF Observed
<1>3. ASSUME NEW d \in Callback, Running(d)
      PROVE  /\ carried'[d].token = carried[d].token
             /\ carried'[d].force = carried[d].force \cup {active' /\ carried[d].token = installed'}
             /\ carried'[d] \in [token : Nat, force : SUBSET BOOLEAN]
  <2>1. carried[d] \in [token : Nat, force : SUBSET BOOLEAN] BY DEF TypeOK
  <2>2. (active' /\ carried[d].token = installed') \in BOOLEAN OBVIOUS
  <2>3. carried[d].force \cup {active' /\ carried[d].token = installed'} \in SUBSET BOOLEAN
    BY <2>2, <1>1
  <2> QED BY <2>1, <2>3, <1>1, <1>2, <1>3
<1>4. carried' \in [Callback -> [token : Nat, force : SUBSET BOOLEAN]]
  <2>1. \A d \in Callback : carried'[d] \in [token : Nat, force : SUBSET BOOLEAN]
    BY <1>2, <1>3 DEF TypeOK
  <2> QED BY <2>1 DEF Observed
<1>5. Noted(c)'
  <2>1. CASE Running(c)
    <3>1. InForce(carried[c].token)' = (active' /\ carried[c].token = installed')
      BY <2>1, <1>3 DEF InForce
    <3>2. InForce(carried[c].token)' \in carried'[c].force BY <2>1, <3>1, <1>3
    <3>3. at[c] \in {"insert", "created", "found"} => TRUE \in carried'[c].force
      BY <2>1, <1>3 DEF Noted
    <3> QED BY <3>2, <3>3 DEF Noted
  <2>2. CASE ~Running(c) BY <2>2 DEF Noted, Running
  <2> QED BY <2>1, <2>2
<1> QED BY <1>4, <1>5

\* What one request does leaves the others as they are.
LEMMA MovedKeeps ==
  ASSUME IntakeInv, NEW b \in Button, Moved(b)
  PROVE  IntakeInv'
<1> USE DEF IntakeInv
<1>1. \A r \in Request \ {b} : at'[r] = at[r] BY DEF Moved, TypeOK
<1>2. \A a \in Button \ {b} : call'[a] = call[a] BY DEF Moved, TypeOK
<1>3. Callback \subseteq Request \ {b} /\ Button \subseteq Request
  BY IntakeAssumption DEF Request
<1>4. \A r \in Request \ {b} : (r \in main' <=> r \in main) /\ (r \in inner' <=> r \in inner)
  BY DEF Moved
<1>5. \A c \in Callback :
        /\ carried' \in [Callback -> [token : Nat, force : SUBSET BOOLEAN]]
        /\ Noted(c)'
  <2>1. CASE UNCHANGED <<active, carried>>
    BY <2>1, <1>1, <1>3 DEF Moved, Noted, InForce, Running, TypeOK
  <2>2. CASE active' \in BOOLEAN /\ Observed
    <3>1. installed' \in Nat BY DEF Moved, TypeOK
    <3> QED BY <2>2, <3>1, <1>1, <1>3, ObservedNotes
  <2> QED BY <2>1, <2>2 DEF Moved
<1>6. carried' \in [Callback -> [token : Nat, force : SUBSET BOOLEAN]]
  <2>1. CASE Observed
    BY <2>1, <1>5 DEF Observed
  <2>2. CASE UNCHANGED carried BY <2>2 DEF TypeOK
  <2> QED BY <2>1, <2>2 DEF Moved
<1>7. TypeOK'
  BY <1>6, <1>3 DEF TypeOK, Moved
<1>8. ASSUME NEW a \in Button PROVE ButtonHolds(a)'
  <2>1. CASE a = b BY <2>1 DEF Moved
  <2>2. CASE a # b
    <3>1. a \in Request \ {b} /\ a \in Button \ {b} BY <2>2, <1>3
    <3>2. ButtonHolds(a) /\ (locker' = a <=> locker = a) BY <3>1 DEF Moved
    <3> QED BY <3>1, <3>2, <1>1, <1>2, <1>4 DEF ButtonHolds
  <2> QED BY <2>1, <2>2
<1>9. ASSUME NEW c \in Callback PROVE CallbackHolds(c)'
  BY <1>1, <1>3, <1>4 DEF CallbackHolds
<1>10. ASSUME NEW c \in Callback PROVE Committed(c)'
  BY <1>1, <1>3 DEF Committed, Moved
<1>11. AcceptedIsDurable' BY DEF AcceptedIsDurable, Moved
<1> QED BY <1>5, <1>7, <1>8, <1>9, <1>10, <1>11

-----------------------------------------------------------------------------
(* Callbacks *)

Holding == {"insert", "created", "found"}

\* A step of a callback, but for what it makes of the job and the answer.
LEMMA CallbackMoves ==
  ASSUME IntakeInv, NEW c \in Callback, NEW s \in CallbackSteps,
         at' = [at EXCEPT ![c] = s], UNCHANGED <<press, row>>,
         \/ UNCHANGED pool /\ (at[c] \in Holding <=> s \in Holding)
         \/ Free /\ TakeMain(c) /\ s \in Holding
         \/ Close(c) /\ s \notin Holding,
         carried' \in [Callback -> [token : Nat, force : SUBSET BOOLEAN]],
         \A d \in Callback \ {c} : carried'[d] = carried[d],
         Noted(c)',
         job' \in [Token -> Callback \cup {Nobody}],
         answer' \in [Callback -> [status : {"none", "accepted", "refused"},
                                   job : Callback \cup {Nobody}, existing : BOOLEAN]]
  PROVE  /\ TypeOK'
         /\ \A b \in Button : ButtonHolds(b)'
         /\ \A d \in Callback : CallbackHolds(d)' /\ Noted(d)'
         /\ at'[c] = s /\ \A d \in Callback \ {c} : at'[d] = at[d]
<1> USE DEF IntakeInv
<1>1. at'[c] = s /\ \A r \in Request \ {c} : at'[r] = at[r] BY DEF TypeOK, Request
<1>2. c \notin inner /\ c \in Request /\ c \notin Button
  BY IntakeAssumption DEF TypeOK, Request
<1>3. /\ main' \subseteq main \cup {c} /\ main \ {c} \subseteq main' /\ inner' = inner
      /\ c \in main' <=> s \in Holding
  <2>1. c \in main <=> at[c] \in Holding BY DEF CallbackHolds, Holding
  <2>2. CASE UNCHANGED pool /\ (at[c] \in Holding <=> s \in Holding)
    BY <2>1, <2>2 DEF pool
  <2>3. CASE TakeMain(c) /\ s \in Holding BY <2>3 DEF TakeMain
  <2>4. CASE Close(c) /\ s \notin Holding BY <2>4, <1>2 DEF Close
  <2> QED BY <2>2, <2>3, <2>4
<1>4. InUse' <= Capacity
  <2>1. CASE Free /\ TakeMain(c) BY <2>1, PoolTake
  <2>2. CASE main' \subseteq main BY <2>2, <1>3, PoolGive
  <2> QED BY <2>1, <2>2 DEF pool, Close
<1>5. TypeOK'
  <2>1. at' \in [Request -> CallbackSteps \cup ButtonSteps] BY DEF TypeOK
  <2>2. main' \subseteq Request /\ inner' \subseteq Button BY <1>2, <1>3 DEF TypeOK
  <2> QED BY <2>1, <2>2, <1>4 DEF TypeOK, press, row
<1>6. ASSUME NEW b \in Button PROVE ButtonHolds(b)'
  <2>1. b \in Request \ {c} BY <1>2 DEF Request
  <2> QED BY <2>1, <1>1, <1>3 DEF ButtonHolds, press, row
<1>7. ASSUME NEW d \in Callback PROVE CallbackHolds(d)' /\ Noted(d)'
  <2>1. CASE d = c BY <2>1, <1>1, <1>3 DEF CallbackHolds, Holding
  <2>2. CASE d # c
    <3>1. d \in Request \ {c} BY <2>2 DEF Request
    <3>2. CallbackHolds(d)' BY <3>1, <1>1, <1>3 DEF CallbackHolds
    <3>3. Noted(d)' BY <2>2, <3>1, <1>1 DEF Noted, Running, InForce, row
    <3> QED BY <3>2, <3>3
  <2> QED BY <2>1, <2>2
<1> QED BY <1>1, <1>5, <1>6, <1>7 DEF Request

LEMMA ForgetNotes ==
  ASSUME TypeOK, NEW c \in Callback, Forget(c), at'[c] = "end"
  PROVE  /\ carried' \in [Callback -> [token : Nat, force : SUBSET BOOLEAN]]
         /\ \A d \in Callback \ {c} : carried'[d] = carried[d]
         /\ Noted(c)'
BY DEF TypeOK, Forget, Nothing, Noted, Running

LEMMA ArriveKeeps ==
  ASSUME IntakeInv, NEW c \in Callback, Arrive(c)
  PROVE  IntakeInv'
<1> USE DEF IntakeInv
<1>1. /\ at[c] = "idle" /\ UNCHANGED <<pool, press, row, job, answer>>
      /\ at[c] \notin Holding
  BY DEF Arrive, Holding
<1>2. job' \in [Token -> Callback \cup {Nobody}] /\ UNCHANGED <<job, answer>>
  BY <1>1 DEF TypeOK
<1>3. PICK s \in {"create", "end"} : at' = [at EXCEPT ![c] = s] BY DEF Arrive
<1>4. s \in CallbackSteps /\ s \notin Holding /\ at'[c] = s
  BY <1>3 DEF CallbackSteps, Holding, TypeOK, Request
<1>5. /\ carried' \in [Callback -> [token : Nat, force : SUBSET BOOLEAN]]
      /\ \A d \in Callback \ {c} : carried'[d] = carried[d]
      /\ Noted(c)'
  <2>1. CASE /\ at' = [at EXCEPT ![c] = "create"]
             /\ \E g \in 1..installed :
                  carried' = [carried EXCEPT ![c] = [token |-> g, force |-> {InForce(g)}]]
    <3>1. at'[c] = "create" BY <2>1 DEF TypeOK, Request
    <3>2. PICK g \in 1..installed :
            carried' = [carried EXCEPT ![c] = [token |-> g, force |-> {InForce(g)}]]
      BY <2>1
    <3>3. g \in Nat /\ InForce(g) \in BOOLEAN BY DEF TypeOK, InForce
    <3>4. [token |-> g, force |-> {InForce(g)}] \in [token : Nat, force : SUBSET BOOLEAN]
      BY <3>3
    <3>5. /\ carried' \in [Callback -> [token : Nat, force : SUBSET BOOLEAN]]
          /\ \A d \in Callback \ {c} : carried'[d] = carried[d]
          /\ carried'[c] = [token |-> g, force |-> {InForce(g)}]
      BY <3>2, <3>4 DEF TypeOK
    <3>6. InForce(g)' = InForce(g) BY <1>1 DEF InForce, row
    <3> QED BY <3>1, <3>5, <3>6 DEF Noted
  <2>2. CASE at' = [at EXCEPT ![c] = "end"] /\ UNCHANGED carried
    <3>1. at'[c] = "end" BY <2>2 DEF TypeOK, Request
    <3> QED BY <2>2, <3>1 DEF TypeOK, Noted, Running
  <2> QED BY <2>1, <2>2 DEF Arrive
<1>6. /\ TypeOK'
      /\ \A b \in Button : ButtonHolds(b)'
      /\ \A d \in Callback : CallbackHolds(d)' /\ Noted(d)'
      /\ at'[c] = s /\ \A d \in Callback \ {c} : at'[d] = at[d]
  BY <1>1, <1>2, <1>3, <1>4, <1>5, CallbackMoves DEF TypeOK
<1>7. ASSUME NEW d \in Callback PROVE Committed(d)'
  BY <1>1, <1>2, <1>3, <1>6 DEF Committed
<1>8. AcceptedIsDurable' BY <1>2 DEF AcceptedIsDurable
<1> QED BY <1>6, <1>7, <1>8

LEMMA CreateKeeps ==
  ASSUME IntakeInv, NEW c \in Callback, Create(c)
  PROVE  IntakeInv'
<1> USE DEF IntakeInv
<1>1. /\ at[c] = "create" /\ Free /\ UNCHANGED <<press, row, job>>
      /\ at[c] \notin Holding /\ Running(c)
  BY DEF Create, Holding, Running
<1>2. job' \in [Token -> Callback \cup {Nobody}] BY <1>1 DEF TypeOK
<1>3. CASE /\ Credential(carried[c].token) /\ at' = [at EXCEPT ![c] = "insert"]
           /\ TakeMain(c) /\ UNCHANGED <<answer, carried>>
  <2>1. "insert" \in CallbackSteps /\ "insert" \in Holding BY DEF CallbackSteps, Holding
  <2>2. at'[c] = "insert" BY <1>3 DEF TypeOK, Request
  <2>3. Noted(c)'
    <3>1. TRUE \in carried[c].force BY <1>1, <1>3 DEF Noted, Credential, InForce
    <3> QED BY <1>1, <1>3, <2>2, <3>1 DEF Noted, InForce, Running, row
  <2>4. /\ TypeOK'
        /\ \A b \in Button : ButtonHolds(b)'
        /\ \A d \in Callback : CallbackHolds(d)' /\ Noted(d)'
        /\ at'[c] = "insert" /\ \A d \in Callback \ {c} : at'[d] = at[d]
    BY <1>1, <1>2, <1>3, <2>1, <2>3, CallbackMoves DEF TypeOK
  <2>5. ASSUME NEW d \in Callback PROVE Committed(d)'
    BY <1>1, <1>3, <2>4 DEF Committed
  <2>6. AcceptedIsDurable' BY <1>1, <1>3 DEF AcceptedIsDurable
  <2> QED BY <2>4, <2>5, <2>6
<1>4. CASE /\ at' = [at EXCEPT ![c] = "end"] /\ UNCHANGED pool
           /\ answer' = [answer EXCEPT ![c] = Reply("refused")] /\ Forget(c)
  <2>1. "end" \in CallbackSteps /\ "end" \notin Holding BY DEF CallbackSteps, Holding
  <2>2. at'[c] = "end" BY <1>4 DEF TypeOK, Request
  <2>3. /\ answer' \in [Callback -> [status : {"none", "accepted", "refused"},
                                     job : Callback \cup {Nobody}, existing : BOOLEAN]]
        /\ answer'[c].status = "refused"
        /\ \A d \in Callback \ {c} : answer'[d] = answer[d]
    BY <1>4 DEF TypeOK, Reply
  <2>4. /\ TypeOK'
        /\ \A b \in Button : ButtonHolds(b)'
        /\ \A d \in Callback : CallbackHolds(d)' /\ Noted(d)'
        /\ at'[c] = "end" /\ \A d \in Callback \ {c} : at'[d] = at[d]
    BY <1>1, <1>2, <1>4, <2>1, <2>2, <2>3, CallbackMoves, ForgetNotes
  <2>5. ASSUME NEW d \in Callback PROVE Committed(d)'
    BY <1>1, <2>3, <2>4 DEF Committed
  <2>6. AcceptedIsDurable' BY <1>1, <2>3 DEF AcceptedIsDurable
  <2> QED BY <2>4, <2>5, <2>6
<1> QED BY <1>3, <1>4 DEF Create

LEMMA InsertKeeps ==
  ASSUME IntakeInv, NEW c \in Callback, Insert(c)
  PROVE  IntakeInv'
<1> USE DEF IntakeInv
<1>1. /\ at[c] = "insert" /\ at[c] \in Holding
      /\ UNCHANGED <<pool, press, row, carried, job, answer>>
  BY DEF Insert, InsertRow, Holding
<1>2. PICK s \in {"found", "created"} :
        /\ at' = [at EXCEPT ![c] = s]
        /\ s = "found" => job[TokenOf[c]] # Nobody
        /\ s = "created" => job[TokenOf[c]] = Nobody /\ MayInsert(c)
  BY DEF Insert, InsertRow
<1>3. s \in CallbackSteps /\ s \in Holding /\ at'[c] = s
  BY <1>2 DEF CallbackSteps, Holding, TypeOK, Request
<1>4. Noted(c)' BY <1>1, <1>3 DEF Noted, InForce, Running, row
<1>5. /\ TypeOK'
      /\ \A b \in Button : ButtonHolds(b)'
      /\ \A d \in Callback : CallbackHolds(d)' /\ Noted(d)'
      /\ at'[c] = s /\ \A d \in Callback \ {c} : at'[d] = at[d]
  BY <1>1, <1>2, <1>3, <1>4, CallbackMoves DEF TypeOK
<1>6. s = "created" => \A d \in Callback \ {c} : at[d] = "created" => TokenOf[d] # TokenOf[c]
  BY <1>2 DEF MayInsert, Conflicts
<1>7. ASSUME NEW d \in Callback PROVE Committed(d)'
  BY <1>1, <1>2, <1>5, <1>6 DEF Committed
<1>8. AcceptedIsDurable' BY <1>1 DEF AcceptedIsDurable
<1> QED BY <1>5, <1>7, <1>8

\* The end of a transaction: the job of this callback, if any, is the first one.
LEMMA CommitMoves ==
  ASSUME IntakeInv, NEW c \in Callback, at[c] \in {"created", "found"},
         at' = [at EXCEPT ![c] = "end"], Close(c), Forget(c), UNCHANGED <<press, row>>,
         \/ UNCHANGED job
         \/ at[c] = "created" /\ job' = [job EXCEPT ![TokenOf[c]] = c],
         \/ UNCHANGED answer
         \/ /\ job'[TokenOf[c]] # Nobody
            /\ answer' = [answer EXCEPT ![c] = Accepted(job'[TokenOf[c]],
                                                       job'[TokenOf[c]] # c)]
  PROVE  IntakeInv'
<1> USE DEF IntakeInv
<1>1. "end" \in CallbackSteps /\ "end" \notin Holding BY DEF CallbackSteps, Holding
<1>2. at'[c] = "end" BY DEF TypeOK, Request
<1>3. TokenOf[c] \in Token BY IntakeAssumption
<1>4. /\ job' \in [Token -> Callback \cup {Nobody}]
      /\ \A t \in Token : t # TokenOf[c] => job'[t] = job[t]
      /\ job'[TokenOf[c]] \in {job[TokenOf[c]], c}
      /\ at[c] = "found" => job'[TokenOf[c]] = job[TokenOf[c]]
  BY <1>3 DEF TypeOK
<1>5. /\ answer' \in [Callback -> [status : {"none", "accepted", "refused"},
                                   job : Callback \cup {Nobody}, existing : BOOLEAN]]
      /\ \A d \in Callback \ {c} : answer'[d] = answer[d]
      /\ answer'[c] = answer[c] \/ (job'[TokenOf[c]] # Nobody
           /\ answer'[c] = Accepted(job'[TokenOf[c]], job'[TokenOf[c]] # c))
  <2>1. CASE UNCHANGED answer BY <2>1 DEF TypeOK
  <2>2. CASE /\ job'[TokenOf[c]] # Nobody
             /\ answer' = [answer EXCEPT ![c] = Accepted(job'[TokenOf[c]],
                                                         job'[TokenOf[c]] # c)]
    <3>1. job'[TokenOf[c]] \in Callback \cup {Nobody} BY <1>3, <1>4
    <3>2. (job'[TokenOf[c]] # c) \in BOOLEAN OBVIOUS
    <3>3. Accepted(job'[TokenOf[c]], job'[TokenOf[c]] # c)
            \in [status : {"none", "accepted", "refused"},
                job : Callback \cup {Nobody}, existing : BOOLEAN]
      BY <3>1, <3>2 DEF Accepted
    <3> QED BY <2>2, <3>3 DEF TypeOK
  <2> QED BY <2>1, <2>2
<1>6. /\ TypeOK'
      /\ \A b \in Button : ButtonHolds(b)'
      /\ \A d \in Callback : CallbackHolds(d)' /\ Noted(d)'
      /\ at'[c] = "end" /\ \A d \in Callback \ {c} : at'[d] = at[d]
  BY <1>1, <1>2, <1>4, <1>5, CallbackMoves, ForgetNotes
<1>7. at[c] = "created" => job[TokenOf[c]] = Nobody BY DEF Committed
<1>8. \A t \in Token : job[t] # Nobody => job'[t] = job[t]
  <2>1. CASE UNCHANGED job BY <2>1
  <2>2. CASE at[c] = "created" BY <2>2, <1>4, <1>7
  <2> QED BY <2>1, <2>2
<1>9. ASSUME NEW d \in Callback PROVE Committed(d)'
  <2>1. CASE d = c BY <2>1, <1>6 DEF Committed
  <2>2. CASE d # c
    <3>1. at'[d] = at[d] /\ answer'[d] = answer[d] BY <2>2, <1>5, <1>6
    <3>2. at[d] = "created" /\ TokenOf[d] = TokenOf[c] => job'[TokenOf[c]] = job[TokenOf[c]]
      BY <2>2, <1>4 DEF Committed
    <3>3. at[d] = "created" => job'[TokenOf[d]] = Nobody
      BY <3>2, <1>4, IntakeAssumption DEF Committed
    <3>4. at[d] = "found" => job'[TokenOf[d]] # Nobody
      BY <1>8, IntakeAssumption DEF Committed
    <3>5. at[d] # "end" => \A t \in Token : job'[t] # d
      BY <2>2, <1>4 DEF Committed
    <3>6. \A e \in Callback :
            at'[d] = "created" /\ at'[e] = "created" /\ TokenOf[d] = TokenOf[e] => d = e
      BY <3>1, <1>6 DEF Committed
    <3> QED BY <3>1, <3>3, <3>4, <3>5, <3>6 DEF Committed
  <2> QED BY <2>1, <2>2
<1>10. AcceptedIsDurable'
  <2> SUFFICES ASSUME NEW d \in Callback, answer'[d].status = "accepted"
               PROVE  /\ answer'[d].job = job'[TokenOf[d]] /\ answer'[d].job # Nobody
                      /\ answer'[d].existing <=> answer'[d].job # d
    BY DEF AcceptedIsDurable
  <2>1. CASE answer'[d] = answer[d]
    BY <2>1, <1>8, IntakeAssumption DEF AcceptedIsDurable
  <2>2. CASE d = c /\ job'[TokenOf[c]] # Nobody
             /\ answer'[c] = Accepted(job'[TokenOf[c]], job'[TokenOf[c]] # c)
    <3>1. answer'[d].job = job'[TokenOf[d]] BY <2>2 DEF Accepted
    <3>2. answer'[d].existing = (job'[TokenOf[d]] # d) BY <2>2 DEF Accepted
    <3> QED BY <2>2, <3>1, <3>2
  <2>3. CASE d = c BY <2>1, <2>2, <2>3, <1>5
  <2>4. CASE d # c BY <2>1, <2>4, <1>5
  <2> QED BY <2>3, <2>4
<1> QED BY <1>6, <1>9, <1>10

LEMMA CommitKeeps ==
  ASSUME IntakeInv, NEW c \in Callback, Commit(c) \/ CommitFails(c)
  PROVE  IntakeInv'
<1> USE DEF IntakeInv
<1>1. /\ at[c] \in {"created", "found"} /\ at' = [at EXCEPT ![c] = "end"]
      /\ Close(c) /\ Forget(c) /\ UNCHANGED <<press, row>>
  BY DEF Commit, CommitFails
<1>2. TokenOf[c] \in Token /\ c # Nobody BY IntakeAssumption DEF Request
<1>3. CASE Commit(c) /\ at[c] = "created"
  <2>1. job' = [job EXCEPT ![TokenOf[c]] = c] /\ answer' = [answer EXCEPT ![c] = Accepted(c, FALSE)]
    BY <1>3 DEF Commit
  <2>2. job'[TokenOf[c]] = c BY <2>1, <1>2 DEF TypeOK
  <2>3. (job'[TokenOf[c]] # c) = FALSE BY <2>2
  <2>4. answer' = [answer EXCEPT ![c] = Accepted(job'[TokenOf[c]], job'[TokenOf[c]] # c)]
    BY <2>1, <2>2, <2>3
  <2> QED BY <2>1, <2>2, <2>4, <1>1, <1>2, <1>3, CommitMoves
<1>4. CASE Commit(c) /\ at[c] = "found"
  <2>1. job' = job /\ answer' = [answer EXCEPT ![c] = Accepted(job[TokenOf[c]], TRUE)]
    BY <1>4 DEF Commit
  <2>2. job[TokenOf[c]] # Nobody /\ job[TokenOf[c]] # c BY <1>2, <1>4 DEF Committed
  <2>3. (job'[TokenOf[c]] # c) = TRUE BY <2>1, <2>2
  <2>4. answer' = [answer EXCEPT ![c] = Accepted(job'[TokenOf[c]], job'[TokenOf[c]] # c)]
    BY <2>1, <2>3
  <2> QED BY <2>1, <2>2, <2>4, <1>1, CommitMoves
<1>5. CASE CommitFails(c)
  <2>1. at[c] = "created" /\ UNCHANGED answer /\ job[TokenOf[c]] = Nobody
    BY <1>5 DEF CommitFails, Committed
  <2>2. PICK j \in {Nobody, c} : job' = [job EXCEPT ![TokenOf[c]] = j] BY <1>5 DEF CommitFails
  <2>3. CASE j = Nobody
    <3>1. UNCHANGED job BY <2>1, <2>2, <2>3, <1>2 DEF TypeOK
    <3> QED BY <2>1, <3>1, <1>1, CommitMoves
  <2>4. CASE j = c BY <2>1, <2>2, <2>4, <1>1, CommitMoves
  <2> QED BY <2>3, <2>4
<1> QED BY <1>1, <1>3, <1>4, <1>5

-----------------------------------------------------------------------------
(* The ends of requests, and the other writers of the portal's row *)

LEMMA AbortKeeps ==
  ASSUME IntakeInv, NEW r \in Request, Abort(r)
  PROVE  IntakeInv'
<1> USE DEF IntakeInv
<1>1. at'[r] = "end" /\ at' = [at EXCEPT ![r] = "end"] BY DEF Abort, TypeOK
<1>2. UNCHANGED <<installed, active, job, answer>> /\ Close(r) BY DEF Abort
<1>3. r # Nobody BY IntakeAssumption
<1>4. CASE r \in Button
  <2>1. \A c \in Callback : c # r BY <1>4, IntakeAssumption
  <2>2. carried' = carried BY <2>1 DEF Abort, TypeOK
  <2>3. call' = [call EXCEPT ![r] = "none"] /\ call'[r] = "none" BY <1>4 DEF Abort, TypeOK
  <2>4. main' = main \ {r} /\ inner' = inner \ {r} BY <1>2 DEF Close
  <2>5. InUse' <= Capacity BY <2>4, PoolGive
  <2>6. /\ locker' \in Button \cup {Nobody} /\ locker' # r
        /\ \A a \in Button \ {r} : locker' = a <=> locker = a
    BY <1>3, IntakeAssumption DEF Abort, TypeOK, Request
  <2>7. ButtonHolds(r)'
    BY <1>1, <2>3, <2>4, <2>6 DEF ButtonHolds, ButtonSteps, OwnSession, CallSession
  <2>8. "end" \in ButtonSteps /\ "none" \in CallSteps BY DEF ButtonSteps, CallSteps
  <2>9. rejected' \subseteq Button BY DEF Abort, TypeOK
  <2>10. Moved(r) BY <1>1, <1>2, <2>2, <2>3, <2>4, <2>5, <2>6, <2>7, <2>8, <2>9 DEF Moved
  <2> QED BY <1>4, <2>10, MovedKeeps
<1>5. CASE r \in Callback
  <2>1. r \notin Button BY <1>5, IntakeAssumption
  <2>2. call' = call /\ rejected' = rejected /\ locker' = locker
    BY <2>1, <1>3 DEF Abort, TypeOK
  <2>3. UNCHANGED <<press, row>> BY <1>2, <2>2 DEF press, row
  <2>4. /\ carried' \in [Callback -> [token : Nat, force : SUBSET BOOLEAN]]
        /\ \A d \in Callback \ {r} : carried'[d] = carried[d]
    BY DEF Abort, TypeOK, Nothing
  <2>5. Noted(r)' BY <1>1 DEF Noted, Running
  <2>6. "end" \in CallbackSteps /\ "end" \notin Holding BY DEF CallbackSteps, Holding
  <2>7. /\ TypeOK'
        /\ \A b \in Button : ButtonHolds(b)'
        /\ \A d \in Callback : CallbackHolds(d)' /\ Noted(d)'
        /\ at'[r] = "end" /\ \A d \in Callback \ {r} : at'[d] = at[d]
    BY <1>1, <1>2, <1>5, <2>3, <2>4, <2>5, <2>6, CallbackMoves DEF TypeOK
  <2>8. ASSUME NEW d \in Callback PROVE Committed(d)'
    BY <1>2, <1>5, <2>7 DEF Committed
  <2>9. AcceptedIsDurable' BY <1>2 DEF AcceptedIsDurable
  <2> QED BY <2>7, <2>8, <2>9
<1> QED BY <1>4, <1>5 DEF Request

LEMMA CrashKeeps ==
  ASSUME IntakeInv, Crash
  PROVE  IntakeInv'
<1> USE DEF IntakeInv
<1>1. \A r \in Request : at'[r] = (IF Running(r) THEN "end" ELSE at[r]) BY DEF Crash
<1>2. \A r \in Request : at'[r] \in {"idle", "end"} BY <1>1 DEF Running
<1>3. Callback \subseteq Request /\ Button \subseteq Request /\ \A b \in Button : b # Nobody
  BY IntakeAssumption DEF Request
<1>4. /\ main' = {} /\ inner' = {} /\ locker' = Nobody /\ rejected' = {}
      /\ \A b \in Button : call'[b] = "none"
      /\ UNCHANGED <<installed, active, job, answer>>
  BY DEF Crash
<1>5. InUse' <= Capacity BY <1>4, FS_EmptySet, PoolAssumption DEF InUse
<1>6. TypeOK'
  <2>1. at' \in [Request -> CallbackSteps \cup ButtonSteps]
    BY DEF Crash, TypeOK, CallbackSteps
  <2>2. call' \in [Button -> CallSteps] BY DEF Crash, CallSteps
  <2>3. carried' \in [Callback -> [token : Nat, force : SUBSET BOOLEAN]] BY DEF Crash, Nothing
  <2> QED BY <2>1, <2>2, <2>3, <1>4, <1>5 DEF TypeOK
<1>7. ASSUME NEW b \in Button PROVE ButtonHolds(b)'
  <2>1. at'[b] \in {"idle", "end"} /\ b # Nobody BY <1>2, <1>3
  <2> QED BY <2>1, <1>4 DEF ButtonHolds, ButtonSteps, OwnSession, CallSession
<1>8. ASSUME NEW c \in Callback PROVE CallbackHolds(c)' /\ Noted(c)' /\ Committed(c)'
  <2>1. at'[c] \in {"idle", "end"} /\ (at'[c] # "end" => at'[c] = at[c])
    BY <1>1, <1>2, <1>3
  <2> QED BY <2>1, <1>4 DEF CallbackHolds, CallbackSteps, Noted, Running, Committed
<1>9. AcceptedIsDurable' BY <1>4 DEF AcceptedIsDurable
<1> QED BY <1>6, <1>7, <1>8, <1>9

LEMMA RowKeeps ==
  ASSUME IntakeInv, UNCHANGED <<pool, at, press, locker, job, answer>>,
         active' \in BOOLEAN, installed' \in Nat, Observed
  PROVE  IntakeInv'
<1> USE DEF IntakeInv
<1>1. \A c \in Callback :
        /\ carried' \in [Callback -> [token : Nat, force : SUBSET BOOLEAN]]
        /\ Noted(c)'
  BY ObservedNotes
<1>2. carried' \in [Callback -> [token : Nat, force : SUBSET BOOLEAN]]
  BY <1>1 DEF Observed
<1>3. InUse' <= Capacity BY PoolGive DEF pool
<1>4. TypeOK' BY <1>2, <1>3 DEF TypeOK, pool, press
<1>5. \A b \in Button : ButtonHolds(b)' BY DEF ButtonHolds, pool, press
<1>6. \A c \in Callback : CallbackHolds(c)' /\ Committed(c)'
  BY DEF CallbackHolds, Committed, pool
<1>7. AcceptedIsDurable' BY DEF AcceptedIsDurable
<1> QED BY <1>1, <1>4, <1>5, <1>6, <1>7

-----------------------------------------------------------------------------
(* The invariant *)

LEMMA InitInv == Init => IntakeInv
<1> SUFFICES ASSUME Init PROVE IntakeInv OBVIOUS
<1>1. Callback \subseteq Request /\ Button \subseteq Request /\ Nobody \notin Request
  BY IntakeAssumption DEF Request
<1>2. main = {} /\ inner = {} /\ InUse <= Capacity
  BY FS_EmptySet, PoolAssumption DEF Init, Idle, InUse
<1>3. TypeOK
  BY <1>2 DEF Init, TypeOK, CallbackSteps, CallSteps, Reply, Nothing
<1>4. \A b \in Button : ButtonHolds(b)
  BY <1>1, <1>2 DEF Init, ButtonHolds, ButtonSteps, OwnSession, CallSession
<1>5. \A c \in Callback : CallbackHolds(c) /\ Noted(c)
  BY <1>1, <1>2 DEF Init, CallbackHolds, Noted, Running, CallbackSteps
<1>6. \A c \in Callback : Committed(c)
  BY <1>1, IntakeAssumption DEF Init, Committed, Reply
<1>7. AcceptedIsDurable BY DEF Init, AcceptedIsDurable, Reply
<1> QED BY <1>3, <1>4, <1>5, <1>6, <1>7 DEF IntakeInv

LEMMA NextInv == IntakeInv /\ [Next]_vars => IntakeInv'
<1> SUFFICES ASSUME IntakeInv, [Next]_vars PROVE IntakeInv' OBVIOUS
<1>1. ASSUME NEW c \in Callback, Arrive(c) \/ CallbackStep(c) \/ CommitFails(c)
      PROVE  IntakeInv'
  BY <1>1, ArriveKeeps, CreateKeeps, InsertKeeps, CommitKeeps DEF CallbackStep
<1>2. ASSUME NEW b \in Button, Open(b) \/ ButtonStep(b) PROVE IntakeInv'
  BY <1>2, ButtonMoves, MovedKeeps
<1>3. ASSUME NEW r \in Request, TimeOut(r) \/ Fail(r) PROVE IntakeInv'
  BY <1>3, AbortKeeps DEF TimeOut, Fail
<1>4. CASE Crash BY <1>4, CrashKeeps
<1>5. CASE Install
  <2>1. active' \in BOOLEAN /\ installed' \in Nat BY <1>5 DEF Install, IntakeInv, TypeOK
  <2>2. Observed /\ UNCHANGED <<pool, at, press, locker, job, answer>> BY <1>5 DEF Install
  <2> QED BY <2>1, <2>2, RowKeeps
<1>6. CASE Uninstall
  <2>1. active' \in BOOLEAN /\ installed' \in Nat BY <1>6 DEF Uninstall, IntakeInv, TypeOK
  <2>2. Observed /\ UNCHANGED <<pool, at, press, locker, job, answer>> BY <1>6 DEF Uninstall
  <2> QED BY <2>1, <2>2, RowKeeps
<1>7. CASE UNCHANGED vars
  <2>1. UNCHANGED <<main, inner, at, call, rejected, installed, active, locker, carried, job,
                    answer>>
    BY <1>7 DEF vars, pool, press, row, intake
  <2>2. TypeOK'
    <3>1. InUse' <= Capacity BY <2>1, PoolGive DEF IntakeInv
    <3> QED BY <2>1, <3>1 DEF IntakeInv, TypeOK
  <2>3. \A b \in Button : ButtonHolds(b)' BY <2>1 DEF IntakeInv, ButtonHolds
  <2>4. \A c \in Callback : CallbackHolds(c)' /\ Noted(c)' /\ Committed(c)'
    BY <2>1 DEF IntakeInv, CallbackHolds, Noted, Running, InForce, Committed
  <2>5. AcceptedIsDurable' BY <2>1 DEF IntakeInv, AcceptedIsDurable
  <2> QED BY <2>2, <2>3, <2>4, <2>5 DEF IntakeInv
<1> QED BY <1>1, <1>2, <1>3, <1>4, <1>5, <1>6, <1>7 DEF Next

LEMMA Invariant == Spec => []IntakeInv
<1> QED BY InitInv, NextInv, PTL DEF Spec

\* Who changes a job or an answer.
LEMMA Deciders ==
  ASSUME IntakeInv, [Next]_vars
  PROVE  \/ UNCHANGED <<job, answer>>
         \/ \E c \in Callback : Create(c) \/ Commit(c) \/ CommitFails(c)
<1>1. ASSUME NEW c \in Callback, Arrive(c) \/ Insert(c) PROVE UNCHANGED <<job, answer>>
  BY <1>1 DEF Arrive, Insert, InsertRow
<1>2. ASSUME NEW b \in Button, Open(b) \/ ButtonStep(b) PROVE UNCHANGED <<job, answer>>
  BY <1>2, ButtonMoves DEF Moved
<1>3. ASSUME NEW r \in Request, TimeOut(r) \/ Fail(r) PROVE UNCHANGED <<job, answer>>
  BY <1>3 DEF TimeOut, Fail, Abort
<1>4. CASE Crash \/ Install \/ Uninstall BY <1>4 DEF Crash, Install, Uninstall
<1>5. CASE UNCHANGED vars BY <1>5 DEF vars, intake
<1> QED BY <1>1, <1>2, <1>3, <1>4, <1>5 DEF Next, CallbackStep

-----------------------------------------------------------------------------
(***************************************************************************)
(* The types, and no more connections than the pool has, for a pool of     *)
(* every size: each TakeMain and TakeInner was preceded by Free, and a     *)
(* request is in a set once only.                                          *)
(***************************************************************************)
THEOREM TypeCorrect == Spec => []TypeOK
<1>1. IntakeInv => TypeOK BY DEF IntakeInv
<1> QED BY <1>1, Invariant, PTL

(***************************************************************************)
(* What was answered 200 is committed, once per token, for every number of *)
(* deliveries (create_idempotent).                                         *)
(***************************************************************************)
THEOREM Durable == Spec => []AcceptedIsDurable
<1>1. IntakeInv => AcceptedIsDurable BY DEF IntakeInv
<1> QED BY <1>1, Invariant, PTL

(***************************************************************************)
(* No request that is over, however it ended, has left a connection or the *)
(* lock of the portal's row behind.                                        *)
(***************************************************************************)
THEOREM NoLeak == Spec => []NothingLeaks
<1>1. IntakeInv => NothingLeaks
  <2> SUFFICES ASSUME IntakeInv, NEW r \in Request, ~Running(r)
               PROVE  r \notin main \cup inner /\ locker # r
    BY DEF NothingLeaks
  <2>1. at[r] \in {"idle", "end"} BY DEF Running
  <2>2. CASE r \in Button
    BY <2>1, <2>2 DEF IntakeInv, ButtonHolds, OwnSession, CallSession, Calls
  <2>3. CASE r \in Callback
    BY <2>1, <2>3, IntakeAssumption DEF IntakeInv, TypeOK, CallbackHolds, Request
  <2> QED BY <2>2, <2>3 DEF Request
<1> QED BY <1>1, Invariant, PTL

\* The row is kept by one who talks to the authorization server or commits its job,
\* with a connection in hand: neither waits for anything.
LEMMA HolderGoesOn ==
  ASSUME IntakeInv, NEW r \in Request, AwaitsRow(r)
  PROVE  \E h \in Request : HoldsRow(h) /\ ~Blocked(h) /\ h \in main \cup inner
<1> USE DEF IntakeInv
<1>1. CASE locker # Nobody
  <2>1. locker \in Button /\ call[locker] = "exchange" /\ at[locker] \in Calls
        /\ locker \in inner
    BY <1>1 DEF TypeOK, ButtonHolds, CallSession
  <2>2. ~Waits(locker) /\ ~AwaitsRow(locker)
    BY <2>1, IntakeAssumption DEF Waits, AwaitsRow, Calls
  <2> QED BY <2>1, <2>2 DEF HoldsRow, Blocked, Request
<1>2. CASE locker = Nobody
  <2>1. PICK d \in Callback : at[d] = "created"
    BY <1>2 DEF AwaitsRow, MayInsert, Conflicts, Unlocked
  <2>2. d \in main BY <2>1 DEF CallbackHolds
  <2>3. ~Waits(d) /\ ~AwaitsRow(d)
    BY <2>1, IntakeAssumption DEF Waits, AwaitsRow
  <2> QED BY <2>1, <2>2, <2>3 DEF HoldsRow, Blocked, Request
<1> QED BY <1>1, <1>2

(***************************************************************************)
(* Fewer button requests than connections never use the pool up waiting:   *)
(* were all who have a connection waiting, then none of them for the row   *)
(* (HolderGoesOn), and who waits for a connection holds at most the one of *)
(* its own session, which only button requests keep.                       *)
(***************************************************************************)
THEOREM NoDeadlock == Spec => []NeverStuck
<1> DEFINE Busy == {b \in Button : Running(b)}
<1>1. ASSUME IntakeInv, Stuck PROVE Capacity <= Cardinality(Busy)
  <2> USE DEF IntakeInv
  <2>1. \A r \in main \cup inner : r \in Request /\ Waits(r)
    <3> SUFFICES ASSUME NEW r \in main \cup inner PROVE r \in Request /\ Waits(r) OBVIOUS
    <3>1. r \in Request BY <1>1 DEF TypeOK, Request
    <3>2. ~AwaitsRow(r) BY <1>1, <3>1, HolderGoesOn DEF Stuck
    <3> QED BY <1>1, <3>1, <3>2 DEF Stuck, Blocked
  <2>2. ASSUME NEW b \in inner PROVE FALSE
    <3>1. b \in Button /\ call[b] \in CallSession /\ at[b] \in Calls
      BY <1>1, <2>2 DEF TypeOK, ButtonHolds, CallSession
    <3> QED BY <2>1, <3>1 DEF Waits, CallSession, Calls
  <2>3. ASSUME NEW r \in main PROVE r \in Busy
    <3>1. Waits(r) /\ r \in Request BY <2>1
    <3>2. CASE r \in Callback
      <4>1. at[r] \in {"insert", "created", "found"} BY <1>1, <3>2 DEF CallbackHolds
      <4> QED BY <3>1, <3>2, <4>1, IntakeAssumption DEF Waits
    <3>3. CASE r \in Button BY <1>1, <2>3, <3>3 DEF ButtonHolds, OwnSession, Running
    <3> QED BY <3>1, <3>2, <3>3 DEF Request
  <2>4. Cardinality(inner) = 0 BY <2>2, FS_EmptySet
  <2>5. IsFiniteSet(Busy) BY IntakeAssumption, FS_Subset
  <2>6. Cardinality(main) <= Cardinality(Busy) /\ Cardinality(Busy) \in Nat
    BY <2>3, <2>5, FS_Subset, FS_CardinalityType
  <2>7. ~(Cardinality(main) + Cardinality(inner) < Capacity)
    BY <1>1 DEF Stuck, Free, InUse
  <2> QED BY <1>1, <2>4, <2>6, <2>7, PoolFinite, PoolAssumption
<1>2. IntakeInv => NeverStuck
  <2>1. IsFiniteSet(Busy) BY IntakeAssumption, FS_Subset
  <2>2. Cardinality(Busy) \in Nat BY <2>1, FS_CardinalityType
  <2> QED BY <1>1, <2>2, HolderGoesOn, PoolAssumption DEF NeverStuck
<1> QED BY <1>2, Invariant, PTL

(***************************************************************************)
(* The job of a token is the one inserted first, for good.                 *)
(***************************************************************************)
THEOREM FirstWins == Spec => FirstJobStays
<1> DEFINE Stays == \A t \in Token : job[t] # Nobody => job'[t] = job[t]
<1>1. IntakeInv /\ [Next]_vars => [Stays]_vars
  <2> SUFFICES ASSUME IntakeInv, [Next]_vars PROVE Stays OBVIOUS
  <2>1. CASE UNCHANGED job BY <2>1
  <2>2. ASSUME NEW c \in Callback, NEW j,
               at[c] = "created", job' = [job EXCEPT ![TokenOf[c]] = j]
        PROVE  Stays
    <3>1. job[TokenOf[c]] = Nobody BY <2>2 DEF IntakeInv, Committed
    <3> QED BY <2>2, <3>1 DEF IntakeInv, TypeOK
  <2>3. ASSUME NEW c \in Callback, Create(c) \/ Commit(c) \/ CommitFails(c) PROVE Stays
    BY <2>1, <2>2, <2>3 DEF Create, Commit, CommitFails
  <2> QED BY <2>1, <2>3, Deciders
<1> QED BY <1>1, Invariant, PTL DEF Spec, FirstJobStays

(***************************************************************************)
(* Who is accepted had a token that was in force during the request, and   *)
(* who is refused one that, at some time during it, was not.               *)
(***************************************************************************)
THEOREM RightlyDecided == Spec => CredentialDecides
<1> DEFINE Decides ==
      \A c \in Callback :
       /\ job'[TokenOf[c]] = c /\ job[TokenOf[c]] # c => TRUE \in carried[c].force
       /\ answer'[c].status = "refused" /\ answer[c].status # "refused"
            => FALSE \in carried[c].force
<1>1. IntakeInv /\ [Next]_vars => [Decides]_vars
  <2> SUFFICES ASSUME IntakeInv, [Next]_vars, NEW c \in Callback
               PROVE  /\ job'[TokenOf[c]] = c /\ job[TokenOf[c]] # c => TRUE \in carried[c].force
                      /\ answer'[c].status = "refused" /\ answer[c].status # "refused"
                           => FALSE \in carried[c].force
    OBVIOUS
  <2>1. CASE UNCHANGED <<job, answer>> BY <2>1
  <2>2. ASSUME NEW d \in Callback, Create(d)
        PROVE  /\ UNCHANGED job
               /\ answer'[c].status = "refused" /\ answer[c].status # "refused"
                    => FALSE \in carried[c].force
    <3>1. UNCHANGED job /\ Running(d) BY <2>2 DEF Create, Running
    <3>2. CASE UNCHANGED answer BY <3>1, <3>2
    <3>3. CASE ~Credential(carried[d].token) /\ answer' = [answer EXCEPT ![d] = Reply("refused")]
      <4>1. InForce(carried[d].token) = FALSE
        BY <3>3 DEF Credential, InForce, IntakeInv, TypeOK
      <4>2. FALSE \in carried[d].force BY <3>1, <4>1 DEF IntakeInv, Noted
      <4>3. c # d => answer'[c] = answer[c] BY <3>3 DEF IntakeInv, TypeOK
      <4> QED BY <3>1, <4>2, <4>3
    <3> QED BY <2>2, <3>2, <3>3 DEF Create
  <2>3. ASSUME NEW d \in Callback, Commit(d) \/ CommitFails(d)
        PROVE  /\ job'[TokenOf[c]] = c /\ job[TokenOf[c]] # c => TRUE \in carried[c].force
               /\ answer'[c].status = "refused" => answer[c].status = "refused"
    <3>1. at[d] \in {"created", "found"} BY <2>3 DEF Commit, CommitFails
    <3>2. TRUE \in carried[d].force BY <3>1 DEF IntakeInv, Noted
    <3>3. c # d /\ job'[TokenOf[c]] = c => job[TokenOf[c]] = c
      BY <2>3, IntakeAssumption DEF Commit, CommitFails, IntakeInv, TypeOK, Request
    <3>4. answer'[c].status = "refused" => answer[c].status = "refused"
      BY <2>3 DEF Commit, CommitFails, IntakeInv, TypeOK, Accepted
    <3> QED BY <3>2, <3>3, <3>4
  <2> QED BY <2>1, <2>2, <2>3, Deciders
<1> QED BY <1>1, Invariant, PTL DEF Spec, CredentialDecides

-----------------------------------------------------------------------------
(* The portal's row, as LockedRow promises it. *)

Inserting == {c \in Callback : at[c] = "created"}

\* Who holds the row has seen the portal active and shares it with nobody.
LockInv == locker # Nobody => active /\ Inserting = {}

\* A step that leaves row and callbacks alone.
LEMMA RowStays ==
  ASSUME UNCHANGED <<active, locker>>, Inserting' = Inserting
  PROVE  [Locked!RowNext]_(Locked!locked)
BY DEF Locked!locked, Inserting

\* A button request never inserts a job.
LEMMA ButtonInserts ==
  ASSUME IntakeInv, NEW b \in Button, Open(b) \/ ButtonStep(b)
  PROVE  Inserting' = Inserting
<1>1. PICK s \in ButtonSteps : at' = [at EXCEPT ![b] = s]
  BY ButtonMoves DEF Moved
<1>2. \A c \in Callback : at'[c] = at[c]
  BY <1>1, IntakeAssumption DEF IntakeInv, TypeOK, Request
<1> QED
  BY <1>2 DEF Inserting

LEMMA ButtonRow ==
  ASSUME IntakeInv, LockInv, NEW b \in Button, Open(b) \/ ButtonStep(b)
  PROVE  [Locked!RowNext]_(Locked!locked)
<1>0. Inserting' = Inserting BY ButtonInserts
<1>1. CASE UNCHANGED <<active, locker>> BY <1>0, <1>1, RowStays
<1>2. CASE Exchange(b)
  <2>1. locker = b /\ b # Nobody
    BY <1>2, IntakeAssumption DEF Exchange, IntakeInv, ButtonHolds, Request
  <2>2. locker' = Nobody /\ active' \in BOOLEAN
    BY <1>2 DEF Exchange, IntakeInv, TypeOK
  <2> QED BY <1>0, <2>1, <2>2 DEF LockInv, Locked!RowNext, Locked!Release, Inserting
<1>3. CASE LockRow(b)
  <2>1. CASE active /\ locker' = b
    <3>1. locker = Nobody /\ Inserting = {} /\ active' = active /\ locker' # Nobody
      BY <1>3, <2>1, IntakeAssumption DEF LockRow, Unlocked, Inserting, Request
    <3> QED BY <1>0, <2>1, <3>1 DEF Locked!RowNext, Locked!Lock, Inserting
  <2> QED BY <1>1, <1>3, <2>1 DEF LockRow
<1>4. CASE MarkAuthError(b)
  <2>1. locker = Nobody /\ Inserting = {} /\ active' = FALSE /\ locker' = locker
    BY <1>4 DEF MarkAuthError, Unlocked, Inserting
  <2> QED BY <1>0, <2>1 DEF Locked!RowNext, Locked!Deactivate, Inserting
<1>5. CASE Open(b) \/ Begin(b) \/ Write(b) \/ Reserve(b) \/ Record(b) \/ GetAccessToken(b)
           \/ BeginRefresh(b) \/ CallOnce(b) \/ Send(b) \/ BeginMark(b)
  BY <1>1, <1>5 DEF Open, Begin, Write, Reserve, Record, GetAccessToken, BeginRefresh, CallOnce,
                    Send, BeginMark, row
<1> QED BY <1>2, <1>3, <1>4, <1>5 DEF ButtonStep

LEMMA CallbackRow ==
  ASSUME IntakeInv, LockInv, NEW c \in Callback,
         Arrive(c) \/ CallbackStep(c) \/ CommitFails(c)
  PROVE  [Locked!RowNext]_(Locked!locked)
<1>1. UNCHANGED <<active, locker>>
  BY DEF Arrive, CallbackStep, Create, Insert, InsertRow, Commit, CommitFails, row
<1>2. PICK s : at' = [at EXCEPT ![c] = s]
  BY DEF Arrive, CallbackStep, Create, Insert, InsertRow, Commit, CommitFails
<1>3. \A d \in Callback : at'[d] = IF d = c THEN s ELSE at[d]
  BY <1>2 DEF IntakeInv, TypeOK, Request
<1>4. CASE s = "created"
  <2>1. locker = Nobody
    <3>1. at'[c] = "created" BY <1>3, <1>4
    <3>2. ~Arrive(c) /\ ~Create(c) /\ ~Commit(c) /\ ~CommitFails(c)
      BY <3>1 DEF Arrive, Create, Commit, CommitFails, IntakeInv, TypeOK, Request
    <3>3. Insert(c) BY <3>2 DEF CallbackStep
    <3> QED BY <3>1, <3>3 DEF Insert, InsertRow, MayInsert, IntakeInv, TypeOK, Request
  <2>2. Inserting' = Inserting \cup {c} BY <1>3, <1>4 DEF Inserting
  <2>3. CASE c \in Inserting BY <1>1, <2>2, <2>3, RowStays
  <2>4. CASE c \notin Inserting
    BY <1>1, <2>1, <2>2, <2>4 DEF Locked!RowNext, Locked!Share, Inserting
  <2> QED BY <2>3, <2>4
<1>5. CASE s # "created"
  <2>1. Inserting' = Inserting \ {c} BY <1>3, <1>5 DEF Inserting
  <2>2. CASE c \notin Inserting BY <1>1, <2>1, <2>2, RowStays
  <2>3. CASE c \in Inserting
    BY <1>1, <2>1, <2>3 DEF Locked!RowNext, Locked!Part, Inserting
  <2> QED BY <2>2, <2>3
<1> QED BY <1>4, <1>5

\* Ending requests parts from the row, or releases it.
LEMMA EndingRow ==
  ASSUME IntakeInv, LockInv, active' = active,
         locker' \in {locker, Nobody}, Inserting' \subseteq Inserting
  PROVE  [Locked!RowNext]_(Locked!locked)
<1>1. active' \in BOOLEAN BY DEF IntakeInv, TypeOK
<1>2. CASE locker' = locker /\ Inserting' = Inserting BY <1>2, RowStays
<1>3. CASE locker' = locker /\ Inserting' # Inserting
  BY <1>3 DEF Locked!RowNext, Locked!Part, Inserting
<1>4. CASE locker' # locker
  <2>1. locker # Nobody /\ locker' = Nobody BY <1>4
  <2>2. active /\ Inserting' = Inserting BY <2>1 DEF LockInv
  <2> QED BY <1>1, <2>1, <2>2 DEF Locked!RowNext, Locked!Release, Inserting
<1> QED BY <1>2, <1>3, <1>4

LEMMA RowStep ==
  ASSUME IntakeInv, LockInv, [Next]_vars
  PROVE  [Locked!RowNext]_(Locked!locked)
<1>1. ASSUME NEW r \in Request, TimeOut(r) \/ Fail(r) PROVE [Locked!RowNext]_(Locked!locked)
  <2>1. Abort(r) BY <1>1 DEF TimeOut, Fail
  <2>2. active' = active /\ locker' \in {locker, Nobody} BY <2>1 DEF Abort
  <2>3. Inserting' \subseteq Inserting
    BY <2>1 DEF Abort, Inserting, IntakeInv, TypeOK, Request
  <2> QED BY <2>2, <2>3, EndingRow
<1>2. CASE Crash
  <2>1. active' = active /\ locker' = Nobody BY <1>2 DEF Crash
  <2>2. Inserting' \subseteq Inserting BY <1>2 DEF Crash, Inserting, Request
  <2> QED BY <2>1, <2>2, EndingRow
<1>3. CASE Install
  BY <1>3 DEF Install, Locked!RowNext, Locked!Install
<1>4. CASE Uninstall
  <2>1. locker = Nobody /\ Inserting = {} /\ active' = FALSE /\ UNCHANGED <<locker, at>>
    BY <1>4 DEF Uninstall, Unlocked, Inserting
  <2> QED BY <2>1 DEF Locked!RowNext, Locked!Deactivate, Inserting
<1>5. CASE UNCHANGED vars
  <2>1. UNCHANGED <<active, locker, at>> BY <1>5 DEF vars, row
  <2> QED BY <2>1, RowStays DEF Inserting
<1> QED BY <1>1, <1>2, <1>3, <1>4, <1>5, ButtonRow, CallbackRow DEF Next

(***************************************************************************)
(* Callbacks and button requests use the portal's row as PortalOAuth does  *)
(* (its RowIsLocked): what holds of the row there may be relied on here.   *)
(***************************************************************************)
THEOREM RowIsLocked == Spec => KeepsLock
<1>1. Init => Locked!RowInit /\ LockInv
  BY DEF Init, Locked!RowInit, LockInv, Request
<1>2. IntakeInv /\ LockInv /\ [Next]_vars => [Locked!RowNext]_(Locked!locked) BY RowStep
<1>3. LockInv /\ [Locked!RowNext]_(Locked!locked) => LockInv'
  <2> SUFFICES ASSUME LockInv, [Locked!RowNext]_(Locked!locked) PROVE LockInv' OBVIOUS
  <2>1. CASE Locked!Install \/ Locked!Deactivate BY <2>1 DEF Locked!Install, Locked!Deactivate, LockInv
  <2>2. CASE Locked!Lock \/ Locked!Release
    BY <2>2 DEF Locked!Lock, Locked!Release, LockInv, Inserting
  <2>3. CASE Locked!Share \/ Locked!Part BY <2>3 DEF Locked!Share, Locked!Part, LockInv, Inserting
  <2>4. CASE UNCHANGED Locked!locked BY <2>4 DEF Locked!locked, LockInv, Inserting
  <2> QED BY <2>1, <2>2, <2>3, <2>4 DEF Locked!RowNext
<1> QED BY <1>1, <1>2, <1>3, Invariant, PTL DEF Spec, KeepsLock, Locked!RowSpec

-----------------------------------------------------------------------------
(* The way of a request. *)

GetsOn(r) ==
  \/ HandlerRank(at[r]) < HandlerRank(at'[r])
  \/ /\ at'[r] = at[r]
     /\ r \in Button /\ (call'[r] # call[r] \/ ~(r \in rejected' <=> r \in rejected))
          => CallRank(call[r], r \in rejected) < CallRank(call'[r], r \in rejected')

\* A step of a button request leaves the others where they are.
LEMMA OthersStay ==
  ASSUME IntakeInv, NEW b \in Button, Open(b) \/ ButtonStep(b), NEW r \in Request \ {b}
  PROVE  /\ at'[r] = at[r] /\ (r \in Button => call'[r] = call[r])
         /\ r \in rejected' <=> r \in rejected
<1>1. at'[r] = at[r] /\ (r \in Button => call'[r] = call[r])
  BY ButtonMoves DEF Moved, IntakeInv, TypeOK
<1>2. r \in rejected' <=> r \in rejected
  <2>1. CASE Open(b) \/ Begin(b) \/ Write(b) \/ Reserve(b) \/ Record(b)
    BY <2>1 DEF Open, Begin, Write, Reserve, Record, Proceed, press
  <2>2. CASE GetAccessToken(b) \/ BeginRefresh(b) \/ LockRow(b) \/ Exchange(b)
    BY <2>2 DEF GetAccessToken, NearExpiry, BeginRefresh, LockRow, Exchange, Return, Proceed, Goes
  <2>3. CASE CallOnce(b) \/ Send(b) \/ BeginMark(b) \/ MarkAuthError(b)
    BY <2>3 DEF CallOnce, Send, BeginMark, MarkAuthError, Return, Proceed, Goes
  <2> QED BY <2>1, <2>2, <2>3 DEF ButtonStep
<1> QED BY <1>1, <1>2

\* A rejected token is forgotten when call_portal is left.
RejectedInv == \A b \in rejected : call[b] # "none"

LEMMA RejectedNext == IntakeInv /\ RejectedInv /\ [Next]_vars => RejectedInv'
<1> SUFFICES ASSUME IntakeInv, RejectedInv, [Next]_vars, NEW a \in rejected'
             PROVE  call'[a] # "none"
  BY DEF RejectedInv
<1>0. a \in rejected => call[a] # "none" BY DEF RejectedInv
<1>1. CASE UNCHANGED press BY <1>0, <1>1 DEF press
<1>2. ASSUME NEW b \in Button, Open(b) \/ ButtonStep(b) PROVE call'[a] # "none"
  <2>1. CASE a # b
    <3>1. a \in Request \ {b} /\ a \in Button
      BY <1>2, <2>1, ButtonMoves DEF Moved, Request
    <3> QED BY <1>0, <1>2, <3>1, OthersStay
  <2>2. CASE a = b
    <3>1. \A s : ~Proceed(b, s) BY <2>2 DEF Proceed
    <3>2. ASSUME NEW k, Goes(b, k), k # "none" PROVE call'[a] # "none"
      BY <2>2, <3>2 DEF Goes, IntakeInv, TypeOK
    <3>3. CASE Open(b) BY <1>1, <3>3 DEF Open
    <3>4. CASE Send(b)
      BY <2>2, <3>1, <3>2, <3>4 DEF Send, Return, IntakeInv, TypeOK
    <3>5. CASE GetAccessToken(b) \/ BeginRefresh(b) \/ LockRow(b) \/ Exchange(b)
      BY <3>1, <3>2, <3>5 DEF GetAccessToken, NearExpiry, BeginRefresh, LockRow, Exchange, Return
    <3>6. CASE CallOnce(b) \/ BeginMark(b) \/ MarkAuthError(b)
      BY <3>1, <3>2, <3>6 DEF CallOnce, BeginMark, MarkAuthError, Return
    <3>7. ~Begin(b) /\ ~Write(b) /\ ~Reserve(b) /\ ~Record(b)
      BY <3>1 DEF Begin, Write, Reserve, Record
    <3> QED BY <1>2, <3>3, <3>4, <3>5, <3>6, <3>7 DEF ButtonStep
  <2> QED BY <2>1, <2>2
<1>3. ASSUME NEW r \in Request, TimeOut(r) \/ Fail(r) PROVE call'[a] # "none"
  BY <1>0, <1>3 DEF TimeOut, Fail, Abort, IntakeInv, TypeOK
<1>4. ASSUME NEW c \in Callback, Arrive(c) \/ CallbackStep(c) \/ CommitFails(c)
      PROVE  call'[a] # "none"
  BY <1>1, <1>4 DEF Arrive, CallbackStep, Create, Insert, InsertRow, Commit, CommitFails
<1>5. ~Crash BY DEF Crash
<1>6. CASE Install \/ Uninstall \/ UNCHANGED vars BY <1>1, <1>6 DEF Install, Uninstall, vars
<1> QED BY <1>2, <1>3, <1>4, <1>5, <1>6 DEF Next

\* call_portal returns to a later step of the handler.
LEMMA ReturnGetsOn ==
  ASSUME TypeOK, NEW b \in Button, ButtonHolds(b), call[b] # "none",
         NEW steps, steps = AfterError(b) \/ steps = AfterResult(b), Return(b, steps)
  PROVE  GetsOn(b)
<1>1. PICK s \in steps : at' = [at EXCEPT ![b] = s] BY DEF Return, Proceed
<1>2. at'[b] = s BY <1>1 DEF TypeOK, Request
<1>3. at[b] \in Calls BY DEF ButtonHolds
<1>4. HandlerRank(at[b]) < HandlerRank(s)
  <2>1. CASE at[b] = "identify" BY <2>1 DEF AfterError, AfterResult, HandlerRank
  <2>2. CASE at[b] = "field" BY <2>2 DEF AfterError, AfterResult, HandlerRank
  <2>3. CASE at[b] = "owner" BY <2>3 DEF AfterError, AfterResult, HandlerRank
  <2>4. CASE at[b] = "type" BY <2>4 DEF AfterError, AfterResult, HandlerRank
  <2>5. CASE at[b] = "start" BY <2>5 DEF AfterError, AfterResult, HandlerRank
  <2> QED BY <1>3, <2>1, <2>2, <2>3, <2>4, <2>5 DEF Calls
<1> QED BY <1>2, <1>4 DEF GetsOn

\* From a step of call_portal to a later one.
Further(s, t) ==
  \/ s = "token" /\ t \in {"refresh", "once"}
  \/ s = "refresh" /\ t = "refreshing"
  \/ s = "refreshing" /\ t \in {"exchange", "once"}
  \/ s = "exchange" /\ t = "once"
  \/ s = "once" /\ t = "send"
  \/ s = "send" /\ t = "mark"
  \/ s = "mark" /\ t = "marking"

LEMMA GoesGetsOn ==
  ASSUME TypeOK, NEW b \in Button, NEW k, Further(call[b], k), Goes(b, k)
  PROVE  GetsOn(b)
<1>1. call'[b] = k /\ at'[b] = at[b] /\ (b \in rejected' <=> b \in rejected)
  BY DEF Goes, TypeOK
<1>2. CallRank(call[b], b \in rejected) < CallRank(k, b \in rejected')
  BY <1>1 DEF CallRank, Further
<1> QED BY <1>1, <1>2 DEF GetsOn

LEMMA ProceedGetsOn ==
  ASSUME TypeOK, NEW b \in Button, NEW s, Proceed(b, s), HandlerRank(at[b]) < HandlerRank(s)
  PROVE  GetsOn(b)
BY DEF Proceed, GetsOn, TypeOK, Request

LEMMA ButtonGetsOn ==
  ASSUME IntakeInv, NEW b \in Button, Open(b) \/ ButtonStep(b)
  PROVE  GetsOn(b)
<1>1. TypeOK /\ ButtonHolds(b) BY DEF IntakeInv
<1>2. ASSUME call[b] # "none", Return(b, AfterError(b)) \/ Return(b, AfterResult(b))
      PROVE  GetsOn(b)
  BY <1>1, <1>2, ReturnGetsOn
<1>3. CASE Open(b) BY <1>1, <1>3 DEF Open, GetsOn, HandlerRank, TypeOK, Request
<1>4. CASE Begin(b)
  <2>1. at[b] = "begin" /\ \E s \in {"identify", "end"} : Proceed(b, s) BY <1>4 DEF Begin
  <2> QED BY <1>1, <2>1, ProceedGetsOn DEF HandlerRank
<1>5. CASE Write(b) \/ Record(b)
  <2>1. at[b] \in {"write", "record"} /\ Proceed(b, "end") BY <1>5 DEF Write, Record
  <2> QED BY <1>1, <2>1, ProceedGetsOn DEF HandlerRank
<1>6. CASE Reserve(b)
  <2>1. at[b] = "reserve" /\ \E s \in {"start", "end"} : Proceed(b, s) BY <1>6 DEF Reserve
  <2> QED BY <1>1, <2>1, ProceedGetsOn DEF HandlerRank
<1>7. CASE GetAccessToken(b)
  <2>1. call[b] = "token" BY <1>7 DEF GetAccessToken
  <2>2. \/ Return(b, AfterError(b))
        \/ \E k \in {"once", "refresh"} : Goes(b, k)
    BY <1>7 DEF GetAccessToken, NearExpiry
  <2> QED BY <1>1, <1>2, <2>1, <2>2, GoesGetsOn DEF Further
<1>8. CASE BeginRefresh(b) BY <1>1, <1>8, GoesGetsOn DEF BeginRefresh, Further
<1>9. CASE LockRow(b)
  <2>1. call[b] = "refreshing" BY <1>9 DEF LockRow
  <2>2. \/ Return(b, AfterError(b))
        \/ \E k \in {"once", "exchange"} : Goes(b, k)
    BY <1>9 DEF LockRow
  <2> QED BY <1>1, <1>2, <2>1, <2>2, GoesGetsOn DEF Further
<1>10. CASE Exchange(b)
  <2>1. call[b] = "exchange" BY <1>10 DEF Exchange
  <2>2. Return(b, AfterError(b)) \/ Goes(b, "once") BY <1>10 DEF Exchange
  <2> QED BY <1>1, <1>2, <2>1, <2>2, GoesGetsOn DEF Further
<1>11. CASE CallOnce(b)
  <2>1. call[b] = "once" BY <1>11 DEF CallOnce
  <2>2. Return(b, AfterError(b)) \/ Goes(b, "send") BY <1>11 DEF CallOnce
  <2> QED BY <1>1, <1>2, <2>1, <2>2, GoesGetsOn DEF Further
<1>12. CASE Send(b)
  <2>1. call[b] = "send" BY <1>12 DEF Send
  <2>2. CASE b \notin rejected /\ rejected' = rejected \cup {b}
             /\ call' = [call EXCEPT ![b] = "refresh"] /\ UNCHANGED <<at, pool>>
    <3>1. call'[b] = "refresh" /\ b \in rejected' /\ at'[b] = at[b]
      BY <1>1, <2>2 DEF TypeOK
    <3>2. CallRank(call[b], b \in rejected) < CallRank(call'[b], b \in rejected')
      BY <2>1, <2>2, <3>1 DEF CallRank
    <3> QED BY <3>1, <3>2 DEF GetsOn
  <2>3. \/ Return(b, AfterResult(b)) \/ Return(b, AfterError(b)) \/ Goes(b, "mark")
        \/ b \notin rejected /\ rejected' = rejected \cup {b}
           /\ call' = [call EXCEPT ![b] = "refresh"] /\ UNCHANGED <<at, pool>>
    BY <1>12 DEF Send
  <2> QED BY <1>1, <1>2, <2>1, <2>2, <2>3, GoesGetsOn DEF Further
<1>13. CASE BeginMark(b) BY <1>1, <1>13, GoesGetsOn DEF BeginMark, Further
<1>14. CASE MarkAuthError(b) BY <1>2, <1>14 DEF MarkAuthError
<1> QED
  BY <1>3, <1>4, <1>5, <1>6, <1>7, <1>8, <1>9, <1>10, <1>11, <1>12, <1>13, <1>14 DEF ButtonStep

LEMMA CallbackGetsOn ==
  ASSUME IntakeInv, NEW c \in Callback, Arrive(c) \/ CallbackStep(c) \/ CommitFails(c),
         NEW r \in Request
  PROVE  GetsOn(r)
<1>1. UNCHANGED <<call, rejected>>
  BY DEF Arrive, CallbackStep, Create, Insert, InsertRow, Commit, CommitFails, press
<1>2. PICK s : at' = [at EXCEPT ![c] = s] /\ HandlerRank(at[c]) < HandlerRank(s)
  <2>1. CASE Arrive(c)
    <3>1. PICK s \in {"create", "end"} : at[c] = "idle" /\ at' = [at EXCEPT ![c] = s]
      BY <2>1 DEF Arrive
    <3>2. HandlerRank(at[c]) < HandlerRank(s) BY <3>1 DEF HandlerRank
    <3> QED BY <3>1, <3>2
  <2>2. CASE Create(c)
    <3>1. PICK s \in {"insert", "end"} : at[c] = "create" /\ at' = [at EXCEPT ![c] = s]
      BY <2>2 DEF Create
    <3>2. HandlerRank(at[c]) < HandlerRank(s) BY <3>1 DEF HandlerRank
    <3> QED BY <3>1, <3>2
  <2>3. CASE Insert(c)
    <3>1. PICK s \in {"found", "created"} : at[c] = "insert" /\ at' = [at EXCEPT ![c] = s]
      BY <2>3 DEF Insert, InsertRow
    <3>2. HandlerRank(at[c]) < HandlerRank(s) BY <3>1 DEF HandlerRank
    <3> QED BY <3>1, <3>2
  <2>4. CASE Commit(c) \/ CommitFails(c)
    <3>1. at[c] \in {"found", "created"} /\ at' = [at EXCEPT ![c] = "end"]
      BY <2>4 DEF Commit, CommitFails
    <3>2. HandlerRank(at[c]) < HandlerRank("end") BY <3>1 DEF HandlerRank
    <3> QED BY <3>1, <3>2
  <2> QED BY <2>1, <2>2, <2>3, <2>4 DEF CallbackStep
<1>3. at'[r] = IF r = c THEN s ELSE at[r] BY <1>2 DEF IntakeInv, TypeOK, Request
<1> QED BY <1>1, <1>2, <1>3 DEF GetsOn

\* Who is running ranks below the end.
LEMMA RunningRank ==
  ASSUME IntakeInv, NEW r \in Request, Running(r)
  PROVE  HandlerRank(at[r]) < HandlerRank("end")
<1>1. at[r] \in CallbackSteps \cup ButtonSteps BY DEF IntakeInv, TypeOK
<1> QED BY <1>1 DEF Running, CallbackSteps, ButtonSteps, Calls, HandlerRank

LEMMA StepGetsOn ==
  ASSUME IntakeInv, RejectedInv, [Next]_vars, NEW r \in Request
  PROVE  GetsOn(r)
<1>1. ASSUME NEW q \in Request, TimeOut(q) \/ Fail(q) PROVE GetsOn(r)
  <2>1. Abort(q) /\ Running(q)
    BY <1>1 DEF TimeOut, Fail, Waits, Running, IntakeInv, ButtonHolds, Calls
  <2>2. CASE r = q
    BY <2>1, <2>2, RunningRank DEF Abort, GetsOn, IntakeInv, TypeOK
  <2>3. CASE r # q
    BY <2>1, <2>3 DEF Abort, GetsOn, IntakeInv, TypeOK
  <2> QED BY <2>2, <2>3
<1>2. CASE Crash
  <2>1. CASE Running(r) BY <1>2, <2>1, RunningRank DEF Crash, GetsOn
  <2>2. CASE ~Running(r)
    <3>1. at'[r] = at[r] /\ at[r] \in {"idle", "end"} BY <1>2, <2>2 DEF Crash, Running
    <3>2. r \in Button => call[r] = "none" /\ call'[r] = "none"
      BY <1>2, <3>1 DEF Crash, IntakeInv, ButtonHolds, Calls
    <3>3. r \in Button => r \notin rejected /\ r \notin rejected'
      BY <1>2, <3>2 DEF Crash, RejectedInv
    <3> QED BY <3>1, <3>2, <3>3 DEF GetsOn
  <2> QED BY <2>1, <2>2
<1>3. CASE Install \/ Uninstall \/ UNCHANGED vars
  BY <1>3 DEF Install, Uninstall, vars, press, GetsOn
<1>4. ASSUME NEW b \in Button, Open(b) \/ ButtonStep(b) PROVE GetsOn(r)
  <2>1. r # b => r \in Request \ {b} OBVIOUS
  <2> QED BY <1>4, <2>1, ButtonGetsOn, OthersStay DEF GetsOn
<1> QED BY <1>1, <1>2, <1>3, <1>4, CallbackGetsOn DEF Next

(***************************************************************************)
(* A request takes a bounded number of steps, if it is not kept from       *)
(* taking them: what is left of EveryRequestEnds is that it is not.        *)
(***************************************************************************)
THEOREM RequestsAreFinite == Spec => RequestsGetOn
<1>1. IntakeInv /\ RejectedInv /\ [Next]_vars =>
        [\A r \in Request :
           \/ HandlerRank(at[r]) < HandlerRank(at'[r])
           \/ /\ at'[r] = at[r]
              /\ r \in Button /\ (call'[r] # call[r] \/ ~(r \in rejected' <=> r \in rejected))
                   => CallRank(call[r], r \in rejected)
                        < CallRank(call'[r], r \in rejected')]_vars
  BY StepGetsOn DEF GetsOn
<1>2. Init => RejectedInv BY DEF Init, RejectedInv
<1> QED BY <1>1, <1>2, RejectedNext, Invariant, PTL DEF Spec, RequestsGetOn
=============================================================================
