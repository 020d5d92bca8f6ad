SPECIFICATION Spec
CONSTANTS
    a1 = a1
    a2 = a2
    a3 = a3
    Alarms = {a1, a2, a3}
    TimeMod = 12
    FutureLimit = 2
    Delays <- MCDelays
    MaxLate = 2
    RemoveFired = FALSE
    Null = Null
INVARIANTS ListKept DedicatedTracksHead
PROPERTIES ImplementsAlarms AlarmsGoOff
