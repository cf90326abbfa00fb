\* The gateway: one event loop, two consumers.  Half-second ticks and thirds of a token: a
\* token per request, two thirds of one per second, so that Retry-After is truncated.
CONSTANTS
    Keys = {k1, k2}
    Callers = {loop}
    None = None
    Burst = 6
    Rate = 1
    Requested = 3
    Second = 2
    MaxClock = 7
SPECIFICATION Spec
SYMMETRY KeySymmetry
INVARIANTS TypeOK WindowBound NoTickPaidTwice RetryHonest

