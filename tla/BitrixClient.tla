---------------------------- MODULE BitrixClient ----------------------------
(***************************************************************************)
(* What a call of the portal can end in: the classification of its answer  *)
(* by app/bitrix/client.py and the exceptions of app/bitrix/exceptions.py. *)
(* The job processor and the workflow buttons decide by the class what is  *)
(* retried, given up or left unknown, and never learn the one thing that   *)
(* matters: whether the portal has carried the call out.                   *)
(*                                                                         *)
(* A record of PortalCalls is one outcome of PortalOAuthService.call_portal: *)
(* the class the caller sees and, beside it, what happened on the portal.  *)
(***************************************************************************)
EXTENDS Integers

AuthenticationCodes == {"EXPIRED_TOKEN", "NO_AUTH_FOUND", "INVALID_TOKEN", "WRONG_AUTH_TYPE"}
PermissionCodes ==
  {"ACCESS_DENIED", "INVALID_CREDENTIALS", "USER_ACCESS_ERROR", "INSUFFICIENT_SCOPE"}
RateLimitCodes == {"QUERY_LIMIT_EXCEEDED", "OPERATION_TIME_LIMIT"}
TemporaryCodes == {"INTERNAL_SERVER_ERROR", "ERROR_UNEXPECTED_ANSWER"}
PermanentCodes == {"OVERLOAD_LIMIT"}

\* A code the client has no set for, and an answer without "error".
OtherCode == "OTHER_CODE"
NoCode == "no code"

Codes == AuthenticationCodes \cup PermissionCodes \cup RateLimitCodes
         \cup TemporaryCodes \cup PermanentCodes \cup {OtherCode}

ServerErrors == {500, 502, 503, 504}
Statuses == {200, 302, 400, 401, 403, 429} \cup ServerErrors

(***************************************************************************)
(* An answer: its status, its error code, and a body that holds the result *)
(* the caller hopes for, another result, or none: not JSON, no "result",   *)
(* or a "next", "total" or "time" of the wrong type.                       *)
(***************************************************************************)
Answers == [status : Statuses, code : Codes \cup {NoCode},
            body : {"expected", "unexpected", "unusable"}]

\* Mutant: a service that is unavailable has limited the rate.
UnknownError_limit(status) ==
  CASE status \in {429, 503} -> "BitrixRateLimitError"
    [] status \in ServerErrors \ {503} -> "BitrixTemporaryError"
    [] OTHER -> "BitrixPermanentError"

UnknownError(status) ==
  CASE status = 429 -> "BitrixRateLimitError"
    [] status \in ServerErrors -> "BitrixTemporaryError"
    [] OTHER -> "BitrixPermanentError"

ApiError(a) ==
  CASE a.code \in AuthenticationCodes -> "BitrixAuthenticationError"
    [] a.code \in PermissionCodes     -> "BitrixPermissionError"
    [] a.code \in RateLimitCodes      -> "BitrixRateLimitError"
    [] a.code \in TemporaryCodes      -> "BitrixTemporaryError"
    [] a.code \in PermanentCodes      -> "BitrixPermanentError"
    [] OTHER                          -> UnknownError(a.status)

\* An error code counts whatever the status, a status before the body.
ParseResponse(a) ==
  CASE a.code # NoCode -> ApiError(a)
    [] a.code = NoCode /\ a.status # 200 -> UnknownError(a.status)
    [] OTHER -> IF a.body = "unusable" THEN "BitrixInvalidResponseError" ELSE "result"

(***************************************************************************)
(* The portal: a failure inside it, or in a gateway before it, and a body  *)
(* nobody can read tell nothing; the errors that have a name, and the      *)
(* other refusals, are given before anything is done.                      *)
(***************************************************************************)
SaysNothing(a) ==
  IF a.code = NoCode
  THEN a.status \in ServerErrors \cup {200}
  ELSE a.code \in TemporaryCodes \/ (a.code = OtherCode /\ a.status \in ServerErrors)

SaysDone(a) == a.code = NoCode /\ a.status = 200 /\ a.body = "expected"

Done(a) == IF SaysDone(a) THEN {TRUE} ELSE IF SaysNothing(a) THEN BOOLEAN ELSE {FALSE}

(***************************************************************************)
(* The classes.  A timeout is a BitrixTransportError; the OAuth errors and *)
(* those of the endpoint or the stored tokens come before the call; the    *)
(* rest is what no module of app/bitrix raises by design: a failed session *)
(* of the database, or a Retry-After no int() can read.                    *)
(***************************************************************************)
TransportErrors == {"BitrixTransportError", "BitrixTimeoutError"}
OAuthErrors == {"BitrixOAuthConfigurationError", "BitrixOAuthTemporaryError",
                "BitrixOAuthRefreshRejectedError"}
LocalErrors == OAuthErrors \cup {"BitrixConfigurationError", "EncryptionError"}

\* What is caught by no `except BitrixError'.
NotBitrixErrors == {"EncryptionError", "Exception"}

CallOutcome(class, denied, expected, done) ==
  [class |-> class, denied |-> denied, expected |-> expected, done |-> done]

\* The classified answer, beside what the portal did.
Answered ==
  {CallOutcome(ParseResponse(p[1]), p[1].code = "ACCESS_DENIED", p[1].body = "expected", p[2]) :
     p \in {q \in Answers \X BOOLEAN : q[2] \in Done(q[1])}}

Lost == {CallOutcome(p[1], FALSE, FALSE, p[2]) :
           p \in (TransportErrors \cup {"Exception"}) \X BOOLEAN}

Unsent == {CallOutcome(e, FALSE, FALSE, FALSE) : e \in LocalErrors}

\* call, and call_portal around it.
PortalCalls == Answered \cup Lost \cup Unsent

\* A result was obtained, and it is the one the call was made for.
Obtained(c) == c.class = "result" /\ c.expected
=============================================================================
