------------------------ MODULE UpstreamRetryProofs ------------------------
(***************************************************************************)
(* The safety properties of UpstreamRetry hold for every backoff schedule, *)
(* every set of statuses and all durations.  The argument is the inductive *)
(* invariant IInv: a place of the loop reached with a backoffs behind it   *)
(* is at most BackoffSpan[a] past the last interval the deadline allows.   *)
(***************************************************************************)
EXTENDS UpstreamRetry, SequenceTheorems, TLAPS

\* What the assumptions on the durations say of single positions.
LEMMA ScheduleFacts ==
    /\ MaxRetries \in Nat
    /\ \A a \in 0..MaxRetries : BackoffSpan[a] \in Nat
    /\ \A a \in 1..MaxRetries : Backoff[a] \in Nat \ {0}
<1>1. /\ Len(Backoff) \in Nat
      /\ \A a \in 1..Len(Backoff) : Backoff[a] \in Nat \ {0}
    BY DurationAssumption, LenProperties, ElementOfSeq DEF DurationAssumption
<1> QED
    BY <1>1, BackoffSpanAssumption DEF MaxRetries, BackoffSpanAssumption

USE DEF OnTheWire, Waiting, Returned, Deadline

\* The initial states of the loop satisfy its inductive invariant.
LEMMA InitInv == Init => IInv
BY ScheduleFacts, BackoffSpanAssumption, DurationAssumption
   DEF BackoffSpanAssumption, DurationAssumption, Init, IInv, TypeOK, TimeInv, RetryInv, OnlyFinalStatus, NoLeakedBody,
       CancelInv, HangUpStopsRequests, LatestSend

\* Every step of the loop, the upstream and the client preserves IInv.
LEMMA NextInv == IInv /\ [Next]_vars => IInv'
<1> SUFFICES ASSUME IInv, [Next]_vars PROVE IInv'
    OBVIOUS
<1> USE DurationAssumption, ScheduleFacts, StatusAssumption
    DEF DurationAssumption, StatusAssumption, IInv, TypeOK, TimeInv, RetryInv,
        OnlyFinalStatus, NoLeakedBody, CancelInv, HangUpStopsRequests, LatestSend
<1>1. CASE Tick
    BY <1>1 DEF Tick
<1>2. CASE ClientHangsUp
    BY <1>2 DEF ClientHangsUp
<1>3. ASSUME NEW code \in Status, ReturnResponse(code) PROVE IInv'
    BY <1>3 DEF ReturnResponse, Receive
<1>4. ASSUME NEW code \in Status, DiscardRetryable(code) PROVE IInv'
    BY <1>4 DEF DiscardRetryable, Receive
<1>5. ASSUME NEW code \in Status, Discard503(code) PROVE IInv'
    BY <1>5 DEF Discard503, Receive
<1>6. CASE Send
    BY <1>6 DEF Send
<1>7. CASE StartBackoff
  <2>1. /\ retryErrorAttempts + 1 \in 0..MaxRetries
        /\ Backoff[retryErrorAttempts + 1] \in Nat \ {0}
        /\ BackoffSpan[retryErrorAttempts + 1] =
             BackoffSpan[retryErrorAttempts] + ClientTimeout + Backoff[retryErrorAttempts + 1]
    BY <1>7, BackoffSpanAssumption DEF StartBackoff, BackoffSpanAssumption
  <2>2. wake' <= LatestSend(retryErrorAttempts')
    BY SMTT(30), <1>7, <2>1 DEF StartBackoff
  <2>3. TypeOK'
    BY SMTT(30), <1>7, <2>1 DEF StartBackoff
  <2>4. TimeInv'
    BY <1>7, <2>1, <2>2 DEF StartBackoff
  <2>5. RetryInv' /\ OnlyFinalStatus' /\ NoLeakedBody'
    BY <1>7 DEF StartBackoff
  <2>6. CancelInv' /\ HangUpStopsRequests'
    BY <1>7, <2>3 DEF StartBackoff
  <2> QED
    BY <2>3, <2>4, <2>5, <2>6
<1>8. CASE Close503
    BY <1>8 DEF Close503, DeadlineTest
<1>9. CASE TransportError
    BY <1>9 DEF TransportError, DeadlineTest
<1>10. CASE TimerFires
    BY <1>10 DEF TimerFires
<1>11. CASE CancelWait
    BY <1>11 DEF CancelWait
<1>12. CASE UNCHANGED vars
    BY <1>12 DEF vars
<1> QED
    BY <1>1, <1>2, <1>3, <1>4, <1>5, <1>6, <1>7, <1>8, <1>9, <1>10, <1>11, <1>12
       DEF Next, Loop, Done

\* IInv holds of every reachable state.
THEOREM Invariance == Spec => []IInv
BY InitInv, NextInv, PTL DEF Spec

\* Every state of the loop is well typed.
THEOREM TypeCorrect == Spec => []TypeOK
<1>1. IInv => TypeOK
    BY DEF IInv
<1> QED
    BY <1>1, Invariance, PTL

\* The call overruns StartupWait by no more than one interval, the backoffs it
\* took and the requests around them.
THEOREM BoundedCall == Spec => []ReturnsInTime
<1>1. IInv => ReturnsInTime
    BY DurationAssumption, ScheduleFacts
       DEF DurationAssumption, IInv, TypeOK, TimeInv, LatestSend, ReturnsInTime
<1> QED
    BY <1>1, Invariance, PTL

\* Only a final status reaches the caller, and no response body is leaked.
THEOREM ResponseCorrect == Spec => []ResponseIsFinal
<1>1. IInv => ResponseIsFinal
    BY DEF IInv, ResponseIsFinal
<1> QED
    BY <1>1, Invariance, PTL

\* A client that hung up causes at most one more request.
THEOREM HangUpCorrect == Spec => []HangUpStopsRequests
<1>1. IInv => HangUpStopsRequests
    BY DEF IInv
<1> QED
    BY <1>1, Invariance, PTL
=============================================================================
