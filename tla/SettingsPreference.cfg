CONSTANTS
    h = h
    g = g
    user = user
    plain = plain
    comma = comma
    slash = slash
    Strings <- AllStrings
    Texts <- SomeTexts
    Slashed <- SomeSlashed
    KeepAlive = 6
    MaxDuration = MaxDuration
    Unparsable = Unparsable
    Excess = Excess
    Blank = Blank
    Rest = Rest
    None = None
SPECIFICATION Spec
INVARIANT DocumentedPreference
