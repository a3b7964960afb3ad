CONSTANTS
    m1 = m1
    Keep = 1
    Requests = {m1}
    MaxSeconds = 1
    MaxMade = 2
    MaxFaults = 1
SPECIFICATION Spec
INVARIANTS FailureIsRecorded
CHECK_DEADLOCK FALSE
