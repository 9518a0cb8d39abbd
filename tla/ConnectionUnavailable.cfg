CONSTANTS
    Calls = {c1, c2}
    Nodes = {n1, n2}
    n1 = n1
    n2 = n2
    Configurations <- SingleHost
    None = None
SPECIFICATION Spec
INVARIANT UnavailableNodeIsReplaced
