CONSTANTS
    Appends = {a1, a2, a3}
    MaxRepeats = 1
SPECIFICATION Spec
INVARIANTS
    ResultIsTrue
    FailsInDoubtOnlyIfBroken
    NoAppendStranded
PROPERTIES
    NothingAfterRejection
    EveryAppendAnswered
