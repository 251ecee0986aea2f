SPECIFICATION Spec
CONSTANTS
    TPS = 2
    Timeout = 12
    Interval = 5
    Countdown = 12
    Latency = 1
    Lag = 0
    Delay = 1
INVARIANTS
    HeldWhileCounting
