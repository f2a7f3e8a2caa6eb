CONSTANTS
    None = None
    w1 = w1
    w2 = w2
    Windows = {w1, w2}
    Snapshots <- MCSnapshots
    ProviderConfig <- MCProvider
    ConsumerConfigs <- MCConsumers
    MaxInFlight = 2
    MaxAnswers = 2
SPECIFICATION FairSpec
INVARIANTS TypeOK ConsumerNeverRejects MirrorAtRest FocusIsHeld
PROPERTIES ImplementsMirror StrangersPart AnnouncedIsShown
CHECK_DEADLOCK FALSE
