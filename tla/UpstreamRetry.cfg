SPECIFICATION FairSpec
CONSTANTS
    Status <- MCStatus
    Backoff <- MCBackoff
    StartupWait <- MCStartupWait
    RetryInterval <- MCRetryInterval
    ClientTimeout <- MCClientTimeout
    BackoffSpan <- MCBackoffSpan
INVARIANTS
    TypeOK
    ReturnsInTime
    ResponseIsFinal
    HangUpStopsRequests
PROPERTY Returns
