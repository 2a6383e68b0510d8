SPECIFICATION FairSpec
CONSTANTS
    Calls = {c1, c2}
    Groq = TRUE
    RetryAfters = {0, 2}
    Paces = {1, 2}
    MaxAttempts = 3
    Deadline = 4
    MaxTime = 6
    Nobody = Nobody
PROPERTIES
    RespectsRetryAfter
    CallsEnd
CHECK_DEADLOCK FALSE
