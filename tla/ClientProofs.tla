---------------------------- MODULE ClientProofs ----------------------------
(***************************************************************************)
(* What the class of a call tells its caller about the portal.             *)
(***************************************************************************)
EXTENDS BitrixClient, TLAPS

\* The outcomes, one disjunct for each way a call can end.
LEMMA CallCases ==
  ASSUME NEW c \in PortalCalls
  PROVE  \/ \E a \in Answers, d \in BOOLEAN :
              d \in Done(a) /\ c = CallOutcome(ParseResponse(a), a.code = "ACCESS_DENIED",
                                               a.body = "expected", d)
         \/ \E e \in TransportErrors \cup {"Exception"}, d \in BOOLEAN :
              c = CallOutcome(e, FALSE, FALSE, d)
         \/ \E e \in LocalErrors : c = CallOutcome(e, FALSE, FALSE, FALSE)
<1>1. CASE c \in Answered
  <2>1. PICK p \in {q \in Answers \X BOOLEAN : q[2] \in Done(q[1])} :
          c = CallOutcome(ParseResponse(p[1]), p[1].code = "ACCESS_DENIED",
                          p[1].body = "expected", p[2])
    BY <1>1 DEF Answered
  <2>2. p[1] \in Answers /\ p[2] \in BOOLEAN /\ p[2] \in Done(p[1])
    OBVIOUS
  <2> QED
    BY <2>1, <2>2
<1>2. CASE c \in Lost
  BY <1>2 DEF Lost
<1>3. CASE c \in Unsent
  BY <1>3 DEF Unsent
<1> QED
  BY <1>1, <1>2, <1>3 DEF PortalCalls

LEMMA CallType == \A c \in PortalCalls : c.done \in BOOLEAN
<1> SUFFICES ASSUME NEW c \in PortalCalls PROVE c.done \in BOOLEAN
  OBVIOUS
<1>1. CASE \E a \in Answers, d \in BOOLEAN :
             d \in Done(a) /\ c = CallOutcome(ParseResponse(a), a.code = "ACCESS_DENIED",
                                              a.body = "expected", d)
  BY <1>1 DEF CallOutcome
<1>2. CASE \E e \in TransportErrors \cup {"Exception"}, d \in BOOLEAN :
             c = CallOutcome(e, FALSE, FALSE, d)
  BY <1>2 DEF CallOutcome
<1>3. CASE \E e \in LocalErrors : c = CallOutcome(e, FALSE, FALSE, FALSE)
  BY <1>3 DEF CallOutcome
<1> QED
  BY <1>1, <1>2, <1>3, CallCases

\* A caller that has obtained the result it wanted may rely on it.
LEMMA ResultMeansDone == \A c \in PortalCalls : Obtained(c) => c.done
<1> SUFFICES ASSUME NEW c \in PortalCalls, Obtained(c) PROVE c.done
  OBVIOUS
<1>1. PICK a \in Answers, d \in BOOLEAN :
        d \in Done(a) /\ c = CallOutcome(ParseResponse(a), a.code = "ACCESS_DENIED",
                                         a.body = "expected", d)
  BY CallCases DEF Obtained, CallOutcome, TransportErrors, LocalErrors, OAuthErrors
<1>2. ParseResponse(a) = "result" /\ a.body = "expected"
  BY <1>1 DEF Obtained, CallOutcome
<1>3. SaysDone(a)
  BY <1>2 DEF ParseResponse, ApiError, UnknownError, SaysDone
<1> QED
  BY <1>1, <1>3 DEF Done, CallOutcome

\* The classes by which the portal, or the application itself, refused the call.
Refusals == {"BitrixAuthenticationError", "BitrixPermissionError", "BitrixRateLimitError",
             "BitrixPermanentError"} \cup LocalErrors

\* A call that ends in a refusal was not carried out: it may be sent again.
THEOREM RefusedIsNotDone == \A c \in PortalCalls : c.class \in Refusals => ~c.done
<1> SUFFICES ASSUME NEW c \in PortalCalls, c.class \in Refusals PROVE ~c.done
  OBVIOUS
<1>1. CASE \E e \in LocalErrors : c = CallOutcome(e, FALSE, FALSE, FALSE)
  BY <1>1 DEF CallOutcome
<1>2. CASE \E e \in TransportErrors \cup {"Exception"}, d \in BOOLEAN :
             c = CallOutcome(e, FALSE, FALSE, d)
  BY <1>2 DEF CallOutcome, TransportErrors, Refusals, LocalErrors, OAuthErrors
<1>3. ASSUME NEW a \in Answers, NEW d \in Done(a),
             c = CallOutcome(ParseResponse(a), a.code = "ACCESS_DENIED", a.body = "expected", d)
      PROVE  ~c.done
  <2>1. ParseResponse(a) \in Refusals /\ c.done = d
    BY <1>3 DEF CallOutcome
  <2>2. /\ a.status \in Statuses /\ a.code \in Codes \cup {NoCode}
        /\ a.body \in {"expected", "unexpected", "unusable"}
    BY DEF Answers
  <2>3. CASE a.code = NoCode
    <3>1. a.status \notin ServerErrors \cup {200}
      BY <2>1, <2>3 DEF ParseResponse, UnknownError, Refusals, LocalErrors, OAuthErrors,
         ServerErrors
    <3> QED
      BY <2>1, <2>3, <3>1 DEF Done, SaysDone, SaysNothing
  <2>4. CASE a.code # NoCode
    <3>1. ApiError(a) \in Refusals
      BY <2>1, <2>4 DEF ParseResponse
    <3>2. a.code \notin TemporaryCodes
      <4>1. a.code \in TemporaryCodes =>
              /\ a.code \notin AuthenticationCodes /\ a.code \notin PermissionCodes
              /\ a.code \notin RateLimitCodes /\ a.code \notin PermanentCodes
        BY DEF TemporaryCodes, AuthenticationCodes, PermissionCodes, RateLimitCodes,
           PermanentCodes
      <4>2. a.code \in TemporaryCodes => ApiError(a) = "BitrixTemporaryError"
        BY <4>1 DEF ApiError
      <4>3. "BitrixTemporaryError" \notin Refusals
        BY DEF Refusals, LocalErrors, OAuthErrors
      <4> QED
        BY <3>1, <4>2, <4>3
    <3>3. ~(a.code = OtherCode /\ a.status \in ServerErrors)
      BY <3>1 DEF ApiError, UnknownError, OtherCode, ServerErrors, TemporaryCodes,
         AuthenticationCodes, PermissionCodes, RateLimitCodes, PermanentCodes,
         Refusals, LocalErrors, OAuthErrors
    <3> QED
      BY <2>1, <2>4, <3>2, <3>3 DEF Done, SaysDone, SaysNothing
  <2> QED
    BY <2>3, <2>4
<1> QED
  BY <1>1, <1>2, <1>3, CallCases

\* The portal's own refusal of an event token.
LEMMA DeniedIsNotDone == \A c \in PortalCalls : c.denied => ~c.done
<1> SUFFICES ASSUME NEW c \in PortalCalls, c.denied PROVE ~c.done
  OBVIOUS
<1>1. PICK a \in Answers, d \in BOOLEAN :
        d \in Done(a) /\ c = CallOutcome(ParseResponse(a), a.code = "ACCESS_DENIED",
                                         a.body = "expected", d)
  BY CallCases DEF CallOutcome
<1>2. a.code = "ACCESS_DENIED"
  BY <1>1 DEF CallOutcome
<1> QED
  BY <1>1, <1>2 DEF Done, SaysDone, SaysNothing, CallOutcome, NoCode, OtherCode, TemporaryCodes
=============================================================================
