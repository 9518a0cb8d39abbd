CONSTANTS
    h = h
    g = g
    user = user
    plain = plain
    comma = comma
    slash = slash
    Strings <- AllStrings
    Texts <- SomeTexts
    Slashed <- SomeSlashed
    KeepAlive = 6
    MaxDuration = MaxDuration
    Unparsable = Unparsable
    Excess = Excess
    Blank = Blank
    Rest = Rest
    None = None
    Candidates = {s1, s2}
    WireMembers <- SomeMembers
    MaxMembers = 3
    NoMember = NoMember
    Input <- Deep
    Json <- JsonOf
    NaN <- NotANumber
    Taken = Taken
SPECIFICATION AlgorithmsSpec
INVARIANTS
    SeedsInOrder
    LastParameterWins
    RefusedIfInvalid
    SelectedIsFit
    PreferenceHonoured
    NodeFoundIfAny
    PanicsOnlyOnNaN
    ConvertsFaithfully
