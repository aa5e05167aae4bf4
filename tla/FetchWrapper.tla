---------------------------- MODULE FetchWrapper ----------------------------
(***************************************************************************)
(* One request of the fetch-compatible provider wrapper (packages/         *)
(* providers/src/fetch-wrapper.ts): captureRequest, the retry loop around  *)
(* the injected transport, and the result.                                 *)
(*                                                                         *)
(* A header is a record of its name, the name in lower case and its value; *)
(* the sort of the captured headers is left out.  A body is given by its   *)
(* length, in a set that is empty if there is none.                        *)
(***************************************************************************)
EXTENDS Integers, Sequences, FiniteSets

CONSTANTS Requests,   \* headers, body, capture, maxAttempts, retryStatusCodes, retryTransportErrors
          NoRequest,  \* stands for the request before there is one
          Responses   \* what the transport may answer: status, headers, body

\* The status of an attempt in which the transport threw, which no response has.
NoStatus == 0

ASSUME RequestsAreReal ==
  /\ NoRequest \notin Requests
  /\ \A r \in Requests : r.maxAttempts \in Int /\ r.retryTransportErrors \in BOOLEAN

ASSUME ResponsesHaveStatus == \A r \in Responses : r.status \in Nat \ {NoStatus}

VARIABLES request,    \* the request being made
          captured,   \* what was captured of it, in a set that is empty before it is made
          attempts,   \* the attempts recorded so far
          redactions, \* the redactions recorded so far
          outcome     \* the result, in a set that is empty while the loop runs

vars == <<request, captured, attempts, redactions, outcome>>

-----------------------------------------------------------------------------
SensitiveHeaders == {"anthropic-api-key", "api-key", "authorization", "cookie",
                     "openai-api-key", "proxy-authorization", "set-cookie", "x-api-key"}

DefaultRetryStatusCodes == {408, 409, 425, 429, 500, 502, 503, 504}

IsSuccessStatus(status) == status >= 200 /\ status < 300

\* Faulty: the name is compared as it was written.
CaptureHeadersAsWritten(headers) ==
  [i \in DOMAIN headers |->
     IF headers[i].name \in SensitiveHeaders
     THEN [name |-> headers[i].lower, value |-> {}]
     ELSE [name |-> headers[i].lower, value |-> {headers[i].value}]]

\* captureHeaders: a sensitive header keeps its name and not its value.
CaptureHeaders(headers) ==
  [i \in DOMAIN headers |->
     IF headers[i].lower \in SensitiveHeaders
     THEN [name |-> headers[i].lower, value |-> {}]
     ELSE [name |-> headers[i].lower, value |-> {headers[i].value}]]

\* captureBody: a body's length is kept unless it is omitted, its content never.
CaptureBody(body, mode) ==
  IF body = {} \/ mode = "omitted" THEN [mode |-> "omitted", length |-> {}]
  ELSE [mode |-> mode, length |-> body]

\* captureRequest and captureResponse
Capture(message, mode) ==
  [headers |-> CaptureHeaders(message.headers), body |-> CaptureBody(message.body, mode)]

\* The result's response, of an answer of the transport.
CaptureAnswer(response) ==
  {[status |-> response.status, message |-> Capture(response, request.capture.responseBody)]}

\* The redactions captureHeaders and captureBody push.
RedactionsOf(message, part) ==
  {<<part, "headers", h.lower>> :
     h \in {message.headers[i] : i \in {j \in DOMAIN message.headers :
                                          message.headers[j].lower \in SensitiveHeaders}}}
    \cup IF message.body = {} THEN {} ELSE {<<part, "body">>}

\* Math.max(1, retry.maxAttempts ?? 1)
MaxAttempts(r) == IF r.maxAttempts > 1 THEN r.maxAttempts ELSE 1

-----------------------------------------------------------------------------
Init ==
  /\ request = NoRequest
  /\ captured = {}
  /\ redactions = {}
  /\ attempts = <<>>
  /\ outcome = {}

\* The request is captured, then the loop starts.
Begin(r) ==
  /\ request = NoRequest
  /\ request' = r
  /\ captured' = {Capture(r, r.capture.requestBody)}
  /\ redactions' = RedactionsOf(r, "request")
  /\ UNCHANGED <<attempts, outcome>>

\* Between two attempts.
IsWaiting == request # NoRequest /\ outcome = {}

\* Faulty: the attempt that was just made is not counted.
MayRetryOnceMore(retryable) == retryable /\ Len(attempts) < MaxAttempts(request)

\* The loop goes on only after an attempt that may be retried, short of the bound.
MayRetry(retryable) == retryable /\ Len(attempts) + 1 < MaxAttempts(request)

Record(attempt) == attempts' = Append(attempts, attempt)

Finish(status, error, response) ==
  outcome' = {[status |-> status, error |-> error, response |-> response]}

\* The transport answers with a 2xx status.
Succeed ==
  /\ IsWaiting
  /\ \E response \in Responses :
       /\ IsSuccessStatus(response.status)
       /\ Record([status |-> response.status, retryable |-> response.status \in request.retryStatusCodes])
       /\ redactions' = redactions \cup RedactionsOf(response, "response")
       /\ Finish("succeeded", "none", CaptureAnswer(response))
  /\ UNCHANGED <<request, captured>>

\* The transport answers with another status: again, or the answer is the result.
AnswerError ==
  /\ IsWaiting
  /\ \E response \in Responses :
       LET retryable == response.status \in request.retryStatusCodes
       IN /\ ~IsSuccessStatus(response.status)
          /\ Record([status |-> response.status, retryable |-> retryable])
          /\ redactions' = redactions \cup RedactionsOf(response, "response")
          /\ IF MayRetry(retryable) THEN UNCHANGED outcome
             ELSE Finish("failed", "provider_http_error", CaptureAnswer(response))
  /\ UNCHANGED <<request, captured>>

\* The transport throws: again if the policy retries transport errors.
ThrowError ==
  /\ IsWaiting
  /\ Record([status |-> NoStatus, retryable |-> request.retryTransportErrors])
  /\ IF MayRetry(request.retryTransportErrors) THEN UNCHANGED outcome
     ELSE Finish("failed", "transport_error", {})
  /\ UNCHANGED <<request, captured, redactions>>

Attempt == Succeed \/ AnswerError \/ ThrowError

Next == (\E r \in Requests : Begin(r)) \/ Attempt

\* Nothing bounds the time a transport takes, so no step of it is fair.
Spec == Init /\ [][Next]_vars

-----------------------------------------------------------------------------
\* Another attempt is made after this one only if it failed in a way that may be retried.
LeadsToAnother(attempt) == ~IsSuccessStatus(attempt.status) /\ attempt.retryable

\* The result that the last attempt calls for.
IsResultOf(result, last) ==
  /\ result.status = IF IsSuccessStatus(last.status) THEN "succeeded" ELSE "failed"
  /\ (result.response = {}) <=> (last.status = NoStatus)
  /\ \A response \in result.response : response.status = last.status
  /\ LeadsToAnother(last) => Len(attempts) = MaxAttempts(request)

\* A request is tried at least once and at most as often as it may be; every attempt but
\* the last one failed in a way that may be retried; and the result is the last attempt's,
\* which was retryable only if no attempt was left (the loop of executeFetchRequest).
OutcomeIsTheLastAttempt ==
  request # NoRequest =>
    /\ Len(attempts) <= MaxAttempts(request)
    /\ \A i \in 1 .. Len(attempts) - 1 : LeadsToAnother(attempts[i])
    /\ outcome = {} /\ attempts # <<>> => LeadsToAnother(attempts[Len(attempts)])
    /\ \A result \in outcome :
         attempts # <<>> /\ IsResultOf(result, attempts[Len(attempts)])

\* What was captured of a message has the value of a header just if it is not sensitive,
\* and if it is, the redaction was told.
IsRedacted(part, message, told) ==
  \A i \in DOMAIN message.headers :
    LET header == message.headers[i]
    IN /\ header.value = {} <=> header.name \in SensitiveHeaders
       /\ header.value = {} => <<part, "headers", header.name>> \in told

\* So it is of the request, and of the response in the result, whatever the attempts in
\* between have added to the redactions (captureHeaders).
SecretsAreRedacted ==
  /\ \A message \in captured : IsRedacted("request", message, redactions)
  /\ \A result \in outcome : \A answer \in result.response :
       IsRedacted("response", answer.message, redactions)
=============================================================================
