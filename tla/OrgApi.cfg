\* Two calls of any methods, one failure.
SPECIFICATION Spec
CONSTANTS
    Byte = 256
    Word = 1073741824
    Unset = Unset
    Garbage = Garbage
    Inputs <- SomeInputs
    Bodies <- TwoBodies
    Ids <- TwoIds
    Fresh <- NewIds
    Stores <- TwoStores
    Builtins <- OneBuiltin
    Self = "codevaldorg"
    MaxFaults = 1
INVARIANTS
    TypeOK
    RefusedWroteNothing
    ReadsWroteNothing
    EntitiesConform
    EdgesConform
    AnswerShows
    HashNeverPanics
PROPERTIES
    OwnersOnly
    PatchesKept
    BuiltinsKept
