--------------------------- MODULE UpstreamRetry ---------------------------
(***************************************************************************)
(* One call of doUpstreamChatWithRetryForRoute (internal/handlers/         *)
(* server.go): the loop every chat, generate, messages and completions     *)
(* request runs before it sees the first byte of an upstream answer.       *)
(*                                                                         *)
(* The loop retries for two reasons that have separate budgets:            *)
(*   - a transport error or a 503 is retried every RetryInterval until     *)
(*     the deadline, StartupWait after the call began;                     *)
(*   - on a route with retry_on_429, a status of shouldRetryStatus (503    *)
(*     included) is retried after the next delay of Backoff, whatever the  *)
(*     clock says, until the schedule is used up.                          *)
(*                                                                         *)
(* Time is discrete.  A timer that is due, a request whose client timeout  *)
(* has expired and a context that is done are noticed before time moves    *)
(* on.  Sending, the deadline test and arming a timer take no time.        *)
(***************************************************************************)
EXTENDS Integers, Sequences

CONSTANTS
    Status,         \* HTTP statuses an upstream may answer with
    Backoff,        \* retryErrorBackoffSchedule
    StartupWait,    \* cfg.UpstreamStartupWait
    RetryInterval,  \* cfg.UpstreamRetryInterval
    ClientTimeout,  \* http.Client.Timeout = cfg.HTTPStreamTimeout
    BackoffSpan     \* longest time a backoffs and the a requests before them take

MaxRetries == Len(Backoff)

ASSUME StatusAssumption == Status \subseteq Nat

\* applyDefaults replaces every non-positive duration; the schedule is a
\* non-empty literal of positive durations.
ASSUME DurationAssumption ==
    /\ Backoff \in Seq(Nat \ {0})
    /\ StartupWait \in Nat
    /\ RetryInterval \in Nat \ {0}
    /\ ClientTimeout \in Nat \ {0}

\* BackoffSpan is the running sum of ClientTimeout + Backoff[i].
ASSUME BackoffSpanAssumption ==
    /\ BackoffSpan \in [0..MaxRetries -> Nat]
    /\ BackoffSpan[0] = 0
    /\ \A a \in 0..(MaxRetries - 1) :
          BackoffSpan[a + 1] = BackoffSpan[a] + ClientTimeout + Backoff[a + 1]

VARIABLES
    retryOnError,       \* the argument: the route's retry_on_429
    pc,                 \* where the goroutine is in the loop
    now,                \* time since the call began
    wake,               \* expiry of the client timeout or of the timer armed
    retryErrorAttempts, \* backoffs taken
    status,             \* status of the response last received, 0 for none
    openBodies,         \* response bodies not closed
    ctxDone,            \* the client hung up (request context canceled)
    sentAfterDone       \* history: requests begun with ctxDone, capped at 2

vars == <<retryOnError, pc, now, wake, retryErrorAttempts, status,
          openBodies, ctxDone, sentAfterDone>>

OnTheWire == {"inflight", "drain", "read503"}
Waiting   == {"backoff", "interval"}
Returned  == {"response", "failed", "canceled"}

Deadline == StartupWait

\* shouldRetryStatus
shouldRetryStatus(code) == code \in {429, 403, 400, 401} \/ code >= 500

Init ==
    /\ retryOnError \in BOOLEAN
    /\ pc = "send"
    /\ now = 0
    /\ wake = 0
    /\ retryErrorAttempts = 0
    /\ status = 0
    /\ openBodies = 0
    /\ ctxDone = FALSE
    /\ sentAfterDone = 0

---------------------------------------------------------------------------
(* The upstream and the client.                                            *)

\* Time passes while the goroutine is blocked and nothing it waits for has
\* happened yet.
Tick ==
    /\ pc \in OnTheWire \cup Waiting
    /\ now < wake
    /\ ~ctxDone
    /\ now' = now + 1
    /\ UNCHANGED <<retryOnError, pc, wake, retryErrorAttempts, status,
                   openBodies, ctxDone, sentAfterDone>>

ClientHangsUp ==
    /\ pc \notin Returned
    /\ ~ctxDone
    /\ ctxDone' = TRUE
    /\ UNCHANGED <<retryOnError, pc, now, wake, retryErrorAttempts, status,
                   openBodies, sentAfterDone>>

---------------------------------------------------------------------------
(* The loop.                                                               *)

\* server.client.Do(upstream)
Send ==
    /\ pc = "send"
    /\ pc' = "inflight"
    /\ wake' = now + ClientTimeout
    /\ sentAfterDone' = IF ctxDone /\ sentAfterDone < 2
                        THEN sentAfterDone + 1 ELSE sentAfterDone
    /\ UNCHANGED <<retryOnError, now, retryErrorAttempts, status, openBodies, ctxDone>>

\* Do returns a response; its body is open.
Receive(code) ==
    /\ pc = "inflight"
    /\ ~ctxDone
    /\ status' = code
    /\ openBodies' = openBodies + 1
    /\ UNCHANGED <<retryOnError, now, wake, retryErrorAttempts, ctxDone, sentAfterDone>>

\* Defect: an off-by-one in the schedule's bound
ReturnResponse_early(code) ==
    /\ Receive(code)
    /\ IF shouldRetryStatus(code) /\ retryOnError
       THEN retryErrorAttempts >= MaxRetries - 1
       ELSE code # 503
    /\ pc' = "response"

\* "return resp, nil": with the retries used up, or with any other status
\* that is not 503.
ReturnResponse(code) ==
    /\ Receive(code)
    /\ IF shouldRetryStatus(code) /\ retryOnError
       THEN retryErrorAttempts >= MaxRetries
       ELSE code # 503
    /\ pc' = "response"

\* A status worth a retry: io.Copy(io.Discard, resp.Body) begins.
DiscardRetryable(code) ==
    /\ Receive(code)
    /\ shouldRetryStatus(code) /\ retryOnError
    /\ retryErrorAttempts < MaxRetries
    /\ pc' = "drain"

\* A 503 on a route without retry_on_429: io.ReadAll(resp.Body) begins.
Discard503(code) ==
    /\ Receive(code)
    /\ ~(shouldRetryStatus(code) /\ retryOnError)
    /\ code = 503
    /\ pc' = "read503"

\* Defect: continue without closing the drained body
StartBackoff_leak ==
    /\ pc = "drain"
    /\ pc' = "backoff"
    /\ wake' = now + Backoff[retryErrorAttempts + 1]
    /\ retryErrorAttempts' = retryErrorAttempts + 1
    /\ UNCHANGED <<retryOnError, now, status, openBodies, ctxDone, sentAfterDone>>

\* Defect: a deferred Close runs on top of the explicit one.
StartBackoff_doubleClose ==
    /\ pc = "drain"
    /\ pc' = "backoff"
    /\ openBodies' = openBodies - 2
    /\ wake' = now + Backoff[retryErrorAttempts + 1]
    /\ retryErrorAttempts' = retryErrorAttempts + 1
    /\ UNCHANGED <<retryOnError, now, status, ctxDone, sentAfterDone>>

\* The body is drained (or the read failed, which is ignored) and closed;
\* time.After(retryErrorBackoffSchedule[retryErrorAttempts]) is armed.
StartBackoff ==
    /\ pc = "drain"
    /\ pc' = "backoff"
    /\ openBodies' = openBodies - 1
    /\ wake' = now + Backoff[retryErrorAttempts + 1]
    /\ retryErrorAttempts' = retryErrorAttempts + 1
    /\ UNCHANGED <<retryOnError, now, status, ctxDone, sentAfterDone>>

\* Defect: the deadline test is lost in a refactoring.
DeadlineTest_missing ==
    pc' = "interval" /\ wake' = now + RetryInterval

\* The end of an iteration that failed: past the deadline the loop breaks
\* and the call fails, else the interval timer is armed.
DeadlineTest ==
    IF now > Deadline
    THEN pc' = "failed" /\ wake' = wake
    ELSE pc' = "interval" /\ wake' = now + RetryInterval

\* The body of a 503 is read for the error text, and closed.
Close503 ==
    /\ pc = "read503"
    /\ openBodies' = openBodies - 1
    /\ DeadlineTest
    /\ UNCHANGED <<retryOnError, now, retryErrorAttempts, status, ctxDone, sentAfterDone>>

\* Do returns an error: refused, reset, client timeout or context canceled.
TransportError ==
    /\ pc = "inflight"
    /\ DeadlineTest
    /\ UNCHANGED <<retryOnError, now, retryErrorAttempts, status,
                   openBodies, ctxDone, sentAfterDone>>

\* case <-time.After(...): the loop goes round.
TimerFires ==
    /\ pc \in Waiting
    /\ now >= wake
    /\ pc' = "send"
    /\ UNCHANGED <<retryOnError, now, wake, retryErrorAttempts, status,
                   openBodies, ctxDone, sentAfterDone>>

\* Defect: "break" in the select leaves the select, not the loop
CancelWait_break ==
    /\ pc \in Waiting
    /\ ctxDone
    /\ pc' = "send"
    /\ UNCHANGED <<retryOnError, now, wake, retryErrorAttempts, status,
                   openBodies, ctxDone, sentAfterDone>>

\* case <-ctx.Done(): return "request canceled".  When the timer is due as
\* well, select picks either case.
CancelWait ==
    /\ pc \in Waiting
    /\ ctxDone
    /\ pc' = "canceled"
    /\ UNCHANGED <<retryOnError, now, wake, retryErrorAttempts, status,
                   openBodies, ctxDone, sentAfterDone>>

\* The call has returned.
Done == pc \in Returned /\ UNCHANGED vars

Loop ==
    \/ Send
    \/ StartBackoff
    \/ Close503
    \/ TransportError
    \/ TimerFires
    \/ CancelWait

Next ==
    \/ Tick
    \/ ClientHangsUp
    \/ \E code \in Status :
          ReturnResponse(code) \/ DiscardRetryable(code) \/ Discard503(code)
    \/ Loop
    \/ Done

Spec == Init /\ [][Next]_vars

\* The clock runs and the goroutine is scheduled; nothing is assumed of the
\* upstream (its silence ends with the client timeout) or of the client.
Fairness == WF_vars(Tick) /\ WF_vars(Loop)

FairSpec == Spec /\ Fairness

---------------------------------------------------------------------------
(* Properties.                                                             *)

TypeOK ==
    /\ retryOnError \in BOOLEAN
    /\ pc \in {"send"} \cup OnTheWire \cup Waiting \cup Returned
    /\ now \in Nat
    /\ wake \in Nat
    /\ retryErrorAttempts \in 0..MaxRetries
    /\ status \in Status \cup {0}
    /\ openBodies \in 0..1
    /\ ctxDone \in BOOLEAN
    /\ sentAfterDone \in 0..2

\* The retry branch never looks at the deadline, yet the call is bounded: what
\* it takes beyond StartupWait is at most one interval, the backoffs it really
\* took with the request before each, and one last request.
ReturnsInTime ==
    now <= Deadline + RetryInterval + BackoffSpan[retryErrorAttempts] + ClientTimeout

\* A status the caller is handed is final: a retryable one only when the
\* route's backoffs are all used up, and a 503 never on a route without them.
OnlyFinalStatus ==
    pc = "response" =>
        /\ shouldRetryStatus(status) /\ retryOnError => retryErrorAttempts = MaxRetries
        /\ status = 503 => retryOnError

\* A connection is never leaked: while the loop waits, sends again, fails or
\* is canceled no body is open, and a returned response is the only open one.
NoLeakedBody ==
    /\ pc \in Waiting \cup {"send", "inflight", "failed", "canceled"} => openBodies = 0
    /\ pc = "response" => openBodies = 1

\* What the caller of doUpstreamChatWithRetryForRoute relies on: a response
\* it is handed is final and its body the only open one.
ResponseIsFinal == OnlyFinalStatus /\ NoLeakedBody

\* After the client hung up at most one more request is begun (select may
\* pick a timer that is due at the same moment), and it is not repeated.
HangUpStopsRequests == sentAfterDone <= 1

\* The call always returns, whatever the upstream and the client do.
Returns == <>(pc \in Returned)

---------------------------------------------------------------------------
(* The call's inductive invariant: TypeOK, the three state properties, and *)
(* how far past the deadline each place of the loop can be.                *)

\* Latest time at which an iteration with a backoffs behind it begins.
LatestSend(a) == Deadline + RetryInterval + BackoffSpan[a]

TimeInv ==
    /\ pc = "send" => now <= LatestSend(retryErrorAttempts)
    /\ pc \in OnTheWire => /\ now <= wake
                           /\ wake <= LatestSend(retryErrorAttempts) + ClientTimeout
    /\ pc \in Waiting => /\ now <= wake
                         /\ wake <= LatestSend(retryErrorAttempts)
    /\ pc \in Returned => now <= LatestSend(retryErrorAttempts) + ClientTimeout

RetryInv ==
    /\ pc = "drain" => retryErrorAttempts < MaxRetries
    /\ pc \in {"drain", "read503"} => openBodies = 1

CancelInv ==
    /\ ~ctxDone => sentAfterDone = 0
    /\ sentAfterDone = 1 =>
          \/ pc \in {"inflight"} \cup Returned
          \/ pc = "interval" /\ now < wake

IInv == TypeOK /\ TimeInv /\ RetryInv /\ OnlyFinalStatus /\ NoLeakedBody
               /\ CancelInv /\ HangUpStopsRequests
=============================================================================
