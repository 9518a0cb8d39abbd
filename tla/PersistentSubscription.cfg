CONSTANTS
    e1 = e1
    l1 = l1
    e2 = e2
    Events = {e1, l1, e2}
    Target <- Links
    ChannelSize = 1
    buffer_size = 2
    MaxDisturbances = 2
    None = None
SPECIFICATION Spec
INVARIANTS
    OnlyAnsweredIsHandled
PROPERTY EveryEventHandled
