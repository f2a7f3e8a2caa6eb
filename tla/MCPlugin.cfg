CONSTANTS
    None = None
    Stale = Stale
    w1 = w1
    w2 = w2
    h1 = h1
    h2 = h2
    Windows = {w1, w2}
    Hwnds = {h1, h2}
    Info <- MCInfo
    Frames <- MCFrames
    MaxPosted = 2
    MaxChunk = 2
    MaxChannels = 2
    MaxWritten = 2
    NoFile = NoFile
    MaxLines = 3
    MaxStock = 1
    MaxInstalls = 2
SPECIFICATION Spec
INVARIANTS RegistryTrue DeltaOnItsOwn FocusSettles NoAnnouncementMissed AdapterTakenBack GreetingFirst LoadedAsRegistered
PROPERTIES HostedEventually StopCompletes
CHECK_DEADLOCK FALSE
