SPECIFICATION TimelySpec
CONSTANTS
    m1 = m1  m2 = m2
    w1 = w1  w2 = w2
    None = None
    Messages = {m1, m2}
    Workers = {w1, w2}
    BatchSize = 2
    LockTimeout = 2
    MaxAttempts = 2
    RetryBase = 1
    RetryMax = 1
    MaxTime = 3
    MaxFaults = 1
PROPERTIES
    EventuallySettled
