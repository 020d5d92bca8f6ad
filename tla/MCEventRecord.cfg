SPECIFICATION Spec
CONSTANTS
    Tags = {t1, t2}
    NumRecords = 3
    Lens = {1, 2}
    SeqMod = 7
    MaxLost = 3
INVARIANTS LossesCounted EventsAnnounced
PROPERTY EventsFetched
