CONSTANTS
    Request = {check, c1, c2}
    Check = check
    RateLimitTimeout = 2
    ErrorMinTimeout = 1
    ErrorMaxTimeout = 2
    TimeoutBound = 4
    MinInterval = 2
    MaxInterval = 4
SPECIFICATION DoctorSpec
INVARIANT WakeUpsMatch
PROPERTIES BackoffIsServed CallersAreAnswered RecoveryIsSeen QuietFailureIsSeen
