SPECIFICATION CaptureSpec
CONSTANTS
    CounterMod = 4
    OverflowMod = 2
    Latency = 1
    MaxDrift = 1
    Callbacks = {"start"}
INVARIANTS EdgesAccounted
PROPERTIES PulseRight
