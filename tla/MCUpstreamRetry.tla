-------------------------- MODULE MCUpstreamRetry --------------------------
(* UpstreamRetry on a schedule of two delays.  The durations are small but  *)
(* keep the shape of the defaults: a startup wait of several intervals, a   *)
(* doubling schedule, a client timeout longer than an interval.             *)
EXTENDS UpstreamRetry

MCStatus  == {200, 404, 429, 503}
MCBackoff == <<1, 2>>
MCStartupWait == 3
MCRetryInterval == 2
MCClientTimeout == 3
MCBackoffSpan == [a \in 0..2 |-> CASE a = 0 -> 0 [] a = 1 -> 4 [] a = 2 -> 9]
=============================================================================
