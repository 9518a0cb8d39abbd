CONSTANTS
    None = None
    Invalid = Invalid
    TicksPerMilli = 2
    I32 = 2048
    U64 = 4096
    Tasks = {t1, t2}
    StreamIds <- BothStreams
    Workloads <- SomeWorkloads
    NewIds <- MadeUpIds
    MaxOperations = 3
    Announcements <- OldAndNewNodes
    GroupOptions <- SomeGroupOptions
    MaxKnown = 1
    RawStatistics <- SomeStatistics
SYMMETRY Interchangeable
SPECIFICATION Spec
INVARIANTS
    ChainUnbroken
    WrittenOnce
    ReadIsComplete
    MetadataRoundTrip
    DefaultsDoNotPanic
    InfoIsTrue
    OrderDoesNotMatter
