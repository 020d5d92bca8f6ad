SPECIFICATION Spec
CONSTANTS
    CounterMod = 8
    OverflowMod = 4
    FutureLimit = 3
    Latency = 2
    MaxDrift = 2
    PastLimit = 2
    Horizon = 11
INVARIANTS CounterExact DueIsRequested
PROPERTY ImplementsAlarm
