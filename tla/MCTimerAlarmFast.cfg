\* A timer clocked as fast as the CPU: more than FutureLimit ticks pass while
\* timerAlarmSet_ni runs.
SPECIFICATION Spec
CONSTANTS
    CounterMod = 12
    OverflowMod = 4
    FutureLimit = 3
    Latency = 1
    MaxDrift = 4
    PastLimit = 0
    Horizon = 11
INVARIANTS DueIsRequested
