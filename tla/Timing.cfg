SPECIFICATION Spec
CONSTANTS
    TPS = 2
    Timeout = 15
    Interval = 5
    Countdown = 12
    Latency = 2
    Lag = 1
    Delay = 1
INVARIANTS
    HeldWhileCounting
    PaidInTime
    ReleasedInTime
PROPERTIES
    NotExpiredEarly
