CONSTANTS
    Calls = {c1, c2, c3}
    Nodes = {n1, n2}
    n1 = n1
    n2 = n2
    Configurations <- Discoveries
    None = None
SPECIFICATION Spec
INVARIANTS
    TypeOK
    HandleMirrored
    AbandonedOnlyWhenReported
    RetryNeverReusesRejectedConnection
    NoCallStranded
PROPERTIES
    EveryCallAnswered
    RedirectHonoured
    ImplementsChannelService
