CONSTANTS
    e1 = e1
    l1 = l1
    e2 = e2
    Events = {e1, l1}
    Target <- TwoLinks
    ChannelSize = 2
    buffer_size = 1
    MaxDisturbances = 1
    None = None
SPECIFICATION Spec
INVARIANT NoneIsUnreachable
